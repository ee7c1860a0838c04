------------------------- MODULE MaintenanceManager -------------------------
(***************************************************************************)
(* The maintenance cycle of the MaintenanceManager plugin                  *)
(* (MaintenanceManager/MaintenanceManager.cpp).                            *)
(*                                                                         *)
(* Threads that meet here:                                                 *)
(*   - the worker, m_thread, running task_execution_thread();              *)
(*   - the IARM dispatch thread, running iarmEventHandler();               *)
(*   - JSON-RPC threads, running startMaintenance(), stopMaintenance() and *)
(*     setMaintenanceMode() (the last one is in module MaintenanceMode);   *)
(*   - the Thunder event threads that report Internet and device-context   *)
(*     changes, and the framework thread that (de)initializes the plugin.  *)
(*                                                                         *)
(* m_statusMutex is held across m_thread.join() by startMaintenance(),     *)
(* stopMaintenance() and the handler of the last event of a cycle; it is   *)
(* the variable statusMutex.  Every other critical section under it is one *)
(* step, guarded by the mutex being free.  m_callMutex is the mutex of the *)
(* worker's task_thread.wait().                                            *)
(***************************************************************************)
EXTENDS Naturals, Sequences

CONSTANTS
    WhoAmI,          \* the build defines ENABLE_WHOAMI
    Suppress,        \* the build defines SUPPRESS_MAINTENANCE
    NetworkRetries,  \* MAX_NETWORK_RETRIES
    MaxInstances,    \* bound: live instances of one script
    Env              \* what the environment does besides running the scripts

\* JSON-RPC calls, and Deinitialize().
Calls == {"start", "stop", "deinit"}
\* Status updates without a task outcome.  Besides these, Env may hold
\* "NEW_START_TIME", the DCM event; "die": a script may end without an event; and
\* "early": calls and events may also come while the worker is on its way to the
\* place that they expect it at.
InfoEvents == {"REBOOT_REQUIRED", "CRITICAL_UPDATE", "INPROGRESS"}

ASSUME BuildAssumption ==
    /\ WhoAmI \in BOOLEAN
    /\ Suppress \in BOOLEAN
ASSUME BoundAssumption ==
    /\ NetworkRetries \in Nat
    /\ MaxInstances \in Nat \ {0}
ASSUME EnvironmentAssumption ==
    Env \subseteq Calls \cup InfoEvents \cup {"NEW_START_TIME", "die", "early"}

VARIABLES
    notifyStatus,        \* m_notify_status
    maintenanceType,     \* g_maintenance_type
    abortFlag,           \* m_abort_flag
    unsolicitedComplete, \* g_unsolicited_complete
    taskStatus,          \* g_task_status: its COMPLETE, SUCCESS and SKIPPED bits
    taskMap,             \* m_task_map: the tasks it maps to true
    flags,               \* g_is_reboot_pending and g_is_critical_maintenance
    lastSuccess,         \* LastSuccessfulCompletionTime: the parity of its writes
    net,                 \* the g_listen_to_... and g_subscribed_for_... flags that are true
    up,                  \* the plugin is initialized
    thread,              \* m_thread.joinable()
    statusMutex,         \* who holds m_statusMutex and waits in m_thread.join()
    endStatus,           \* notify_status, the handler's local variable
    callMutex,           \* who holds m_callMutex
    wpc,                 \* where the worker is
    tasks,               \* the worker's task list
    i,                   \* its loop counter, from 1
    loc,                 \* the worker's other local variables
    scripts              \* live instances of each task's script

workerVars == <<wpc, tasks, i, loc>>
recordVars == <<flags, lastSuccess>>
\* What the worker reads and, but for the device context and m_task_map, never writes.
ownerVars  == <<maintenanceType, recordVars, up, thread, statusMutex, endStatus>>
sharedVars == <<notifyStatus, abortFlag, unsolicitedComplete, taskStatus, taskMap, ownerVars>>
vars == <<sharedVars, net, callMutex, workerVars, scripts>>

-----------------------------------------------------------------------------
Tasks == {"DCM", "RFC", "SWUPDATE", "LOGUPLOAD"}

Statuses == {"IDLE", "STARTED", "ERROR", "COMPLETE", "INCOMPLETE"}

\* The order in which stopMaintenanceTasks() looks for a running task.
KillOrder == [DCM |-> 1, RFC |-> 2, SWUPDATE |-> 3, LOGUPLOAD |-> 4]

\* The scripts startCriticalTasks() runs outside any cycle.
CriticalTasks == {"DCM", "RFC", "SWUPDATE"}

\* The terminal events a task's script can send.
Outcomes(t) == {"COMPLETE", "ERROR"} \cup (IF t = "SWUPDATE" THEN {"ABORTED"} ELSE {})

NoBits == [complete |-> {}, success |-> {}, skipped |-> FALSE]

NetFlags == {"listenNw", "subscribedNw", "listenCtx", "subscribedCtx"}

TaskBits == [complete : SUBSET Tasks, success : SUBSET Tasks, skipped : BOOLEAN]

NoLocals == [delay |-> FALSE, tries |-> 0, online |-> FALSE, activated |-> FALSE, known |-> FALSE,
             skip |-> FALSE, seen |-> NoBits]

Locals == [delay : BOOLEAN, tries : 0..NetworkRetries, online : BOOLEAN, activated : BOOLEAN,
           known : BOOLEAN, skip : BOOLEAN, seen : TaskBits]

\* Places of the worker between the announcement of a cycle and its end.
TaskPlaces == {"build", "skipFirmware", "lock", "loop", "recheck", "launch", "prewait",
               "waiting", "woken", "exit"}
CheckPlaces == {"activation", "network", "identity", "whoami", "decide",
                "ctxPrewait", "ctxWaiting", "announce", "offline"}
Places == {"none", "begin", "offlineTail", "done"} \cup CheckPlaces \cup TaskPlaces

\* The tasks of a cycle, per build and type.
TaskList(skip) ==
    LET dcm  == IF maintenanceType = "UNSOLICITED" THEN <<"DCM">> ELSE <<>>
        rest == IF skip THEN <<"RFC", "LOGUPLOAD">> ELSE <<"RFC", "SWUPDATE", "LOGUPLOAD">>
    IN  IF WhoAmI
        THEN <<"RFC", "SWUPDATE">> \o dcm \o <<"LOGUPLOAD">>
        ELSE dcm \o rest

\* Mutant: the notification is forgotten.
NotNotified == wpc

\* task_thread.notify_one(): nothing is remembered when nobody waits.
Notified == CASE wpc = "waiting"    -> "woken"
              [] wpc = "ctxWaiting" -> "announce"
              [] OTHER              -> wpc

\* One more instance of the scripts of the tasks ts, up to the bound.
Run(ts) == [t \in Tasks |-> IF t \in ts /\ scripts[t] < MaxInstances
                            THEN scripts[t] + 1 ELSE scripts[t]]

\* m_thread.join() returns at once when there is no thread to join.
Joined == ~thread \/ wpc = "done"

\* What the members are after the constructor and maintenanceManagerOnBootup().
Init ==
    /\ notifyStatus = "IDLE"
    /\ maintenanceType = "UNSOLICITED"
    /\ abortFlag = FALSE
    /\ unsolicitedComplete = FALSE
    /\ taskStatus = NoBits
    /\ taskMap = {}
    /\ flags = {}
    /\ net \in {{}, IF WhoAmI THEN {"subscribedCtx"} ELSE {}}
    /\ up = TRUE
    /\ thread = TRUE
    /\ statusMutex = "free"
    /\ endStatus = "STARTED"
    /\ callMutex = "free"
    /\ wpc = "begin"
    /\ i = 1
    /\ loc = NoLocals
    /\ tasks = <<>>
    /\ lastSuccess = 0
    /\ scripts = [t \in Tasks |-> 0]

-----------------------------------------------------------------------------
(* The worker: task_execution_thread().                                    *)

\* Post MAINTENANCE_STARTED, or put it off, and forget the previous task list.
WBegin ==
    /\ wpc = "begin"
    /\ LET delay == WhoAmI /\ maintenanceType = "UNSOLICITED"
       IN  /\ loc' = [NoLocals EXCEPT !.delay = delay]
           /\ \/ delay /\ UNCHANGED notifyStatus
              \/ ~delay /\ statusMutex = "free" /\ notifyStatus' = "STARTED"
    /\ tasks' = <<>>
    /\ wpc' = IF Suppress /\ ~WhoAmI THEN "activation" ELSE "network"
    /\ UNCHANGED <<abortFlag, unsolicitedComplete, taskStatus, taskMap, net, ownerVars, callMutex,
                   i, scripts>>

\* getActivatedStatus(): the switch falls through from ACTIVATION_CONNECT to default.
WActivation ==
    /\ wpc = "activation"
    /\ \E answer \in {"activated", "disconnect", "unfinished", "invalid"} :
          /\ loc' = [loc EXCEPT !.skip = answer = "unfinished"]
          /\ wpc' = IF answer = "disconnect" THEN "offline" ELSE "network"
    /\ UNCHANGED <<sharedVars, net, callMutex, tasks, i, scripts>>

\* Mutant: one retry too many.
MayRetryOnceMore == loc.tries <= NetworkRetries

\* A device that is offline is checked again, so many times.
MayRetry == loc.tries < NetworkRetries

\* One checkNetwork() of isDeviceOnline(); it also subscribes for Internet events.
WNetwork ==
    /\ wpc = "network"
    /\ \E active, subscribes, online \in BOOLEAN :
          /\ online => active
          /\ net' = net \cup IF active /\ subscribes /\ maintenanceType = "UNSOLICITED"
                            THEN {"subscribedNw"} ELSE {}
          /\ IF ~online /\ MayRetry
             THEN /\ loc' = [loc EXCEPT !.tries = @ + 1]
                  /\ UNCHANGED wpc
             ELSE /\ loc' = [loc EXCEPT !.online = online]
                  /\ wpc' = IF WhoAmI THEN "identity" ELSE IF online THEN "build" ELSE "offline"
    /\ UNCHANGED <<sharedVars, callMutex, tasks, i, scripts>>

\* checkActivatedStatus() under ENABLE_WHOAMI.
WIdentity ==
    /\ wpc = "identity"
    /\ \E activated \in BOOLEAN : loc' = [loc EXCEPT !.activated = activated, !.known = FALSE]
    /\ wpc' = IF maintenanceType = "UNSOLICITED" THEN "whoami" ELSE "decide"
    /\ UNCHANGED <<sharedVars, net, callMutex, tasks, i, scripts>>

\* One round of knowWhoAmI(): ask SecManager, or retry while it is not active.
WKnowWhoAmI ==
    /\ wpc = "whoami"
    /\ \/ \E success, subscribes \in BOOLEAN :
             /\ loc' = [loc EXCEPT !.known = success]
             /\ net' = net \cup IF subscribes THEN {"subscribedCtx"} ELSE {}
             /\ wpc' = "decide"
       \/ /\ net' = net \ {"subscribedCtx"}
          /\ wpc' = IF loc.activated THEN "decide" ELSE "whoami"
          /\ UNCHANGED loc
    /\ UNCHANGED <<sharedVars, callMutex, tasks, i, scripts>>

\* Wait for the device context, give up, or go on.
WDecide ==
    /\ wpc = "decide"
    /\ LET await == ~loc.known /\ ~loc.activated
       IN  /\ net' = net \cup IF await THEN {"listenCtx"} ELSE {}
           /\ wpc' = IF await THEN "ctxPrewait"
                     ELSE IF ~loc.online /\ loc.activated THEN "offline" ELSE "announce"
    /\ UNCHANGED <<sharedVars, callMutex, tasks, i, loc, scripts>>

\* task_thread.wait(wailck) blocks.
WContextWait ==
    /\ wpc = "ctxPrewait"
    /\ wpc' = "ctxWaiting"
    /\ UNCHANGED <<sharedVars, net, callMutex, tasks, i, loc, scripts>>

\* Mutant: the delayed status is never posted.
AnnounceNothing ==
    /\ wpc = "announce"
    /\ wpc' = "build"
    /\ UNCHANGED <<sharedVars, net, callMutex, tasks, i, loc, scripts>>

\* The delayed MAINTENANCE_STARTED.
WAnnounce ==
    /\ wpc = "announce"
    /\ \/ ~loc.delay /\ UNCHANGED notifyStatus
       \/ loc.delay /\ statusMutex = "free" /\ notifyStatus' = "STARTED"
    /\ wpc' = "build"
    /\ UNCHANGED <<abortFlag, unsolicitedComplete, taskStatus, taskMap, net, ownerVars, callMutex,
                   tasks, i, loc, scripts>>

\* No connection: the cycle ends with MAINTENANCE_ERROR ...
WOffline ==
    /\ wpc = "offline"
    /\ statusMutex = "free"
    /\ notifyStatus' = "ERROR"
    /\ wpc' = "offlineTail"
    /\ UNCHANGED <<abortFlag, unsolicitedComplete, taskStatus, taskMap, net, ownerVars, callMutex,
                   tasks, i, loc, scripts>>

\* Mutant: an offline boot cycle does not count.
OfflineBootForgotten ==
    /\ wpc = "offlineTail"
    /\ wpc' = "done"
    /\ loc' = NoLocals
    /\ UNCHANGED <<sharedVars, net, callMutex, tasks, i, scripts>>

\* ... and, outside the mutex, the boot cycle counts as done.
WOfflineTail ==
    /\ wpc = "offlineTail"
    /\ LET first == maintenanceType = "UNSOLICITED" /\ ~unsolicitedComplete
       IN  /\ unsolicitedComplete' = (unsolicitedComplete \/ first)
           /\ net' = net \cup IF first THEN {"listenNw"} ELSE {}
    /\ loc' = NoLocals
    /\ wpc' = "done"
    /\ UNCHANGED <<notifyStatus, abortFlag, taskStatus, taskMap, ownerVars, callMutex, tasks, i,
                   scripts>>

\* Choose the tasks.  A skipped firmware check reads g_task_status here ...
WBuild ==
    /\ wpc = "build"
    /\ tasks' = TaskList(loc.skip)
    /\ i' = 1
    /\ loc' = [NoLocals EXCEPT !.seen = IF loc.skip THEN taskStatus ELSE NoBits]
    /\ wpc' = IF loc.skip THEN "skipFirmware" ELSE "lock"
    /\ UNCHANGED <<sharedVars, net, callMutex, scripts>>

\* ... and writes it back here, without m_statusMutex.
WSkipFirmware ==
    /\ wpc = "skipFirmware"
    /\ taskStatus' = [loc.seen EXCEPT !.complete = @ \cup {"SWUPDATE"},
                                      !.success  = @ \cup {"SWUPDATE"}]
    /\ loc' = NoLocals
    /\ wpc' = "lock"
    /\ UNCHANGED <<notifyStatus, abortFlag, unsolicitedComplete, taskMap, net, ownerVars, callMutex,
                   tasks, i, scripts>>

WLock ==
    /\ wpc = "lock"
    /\ callMutex = "free"
    /\ callMutex' = "worker"
    /\ wpc' = "loop"
    /\ UNCHANGED <<sharedVars, net, tasks, i, loc, scripts>>

\* The head of the loop, with the m_task_map update of its body.
WLoop ==
    /\ wpc = "loop"
    /\ \/ /\ i <= Len(tasks) /\ ~abortFlag
          /\ taskMap' = taskMap \cup {tasks[i]}
          /\ wpc' = "recheck"
       \/ /\ i > Len(tasks) \/ abortFlag
          /\ wpc' = "exit"
          /\ UNCHANGED taskMap
    /\ UNCHANGED <<notifyStatus, abortFlag, unsolicitedComplete, taskStatus, net, ownerVars,
                   callMutex, tasks, i, loc, scripts>>

\* The second look at m_abort_flag.
WRecheck ==
    /\ wpc = "recheck"
    /\ \/ ~abortFlag /\ wpc' = "launch" /\ UNCHANGED i
       \/ abortFlag /\ wpc' = "loop" /\ i' = i + 1
    /\ UNCHANGED <<sharedVars, net, callMutex, tasks, loc, scripts>>

\* system("<script> &").
WLaunch ==
    /\ wpc = "launch"
    /\ scripts' = Run({tasks[i]})
    /\ wpc' = "prewait"
    /\ UNCHANGED <<sharedVars, net, callMutex, tasks, i, loc>>

\* task_thread.wait(lck): release m_callMutex and block, without a predicate.
WWait ==
    /\ wpc = "prewait"
    /\ callMutex' = "free"
    /\ wpc' = "waiting"
    /\ UNCHANGED <<sharedVars, net, tasks, i, loc, scripts>>

\* Either wait() may return without a notification: neither has a predicate.
WSpurious ==
    /\ wpc \in {"waiting", "ctxWaiting"}
    /\ wpc' = Notified
    /\ UNCHANGED <<sharedVars, net, callMutex, tasks, i, loc, scripts>>

\* wait() takes m_callMutex again and returns.
WWake ==
    /\ wpc = "woken"
    /\ callMutex = "free"
    /\ callMutex' = "worker"
    /\ i' = i + 1
    /\ wpc' = "loop"
    /\ UNCHANGED <<sharedVars, net, tasks, loc, scripts>>

WExit ==
    /\ wpc = "exit"
    /\ abortFlag' = FALSE
    /\ callMutex' = "free"
    /\ i' = 1
    /\ wpc' = "done"
    /\ UNCHANGED <<notifyStatus, unsolicitedComplete, taskStatus, taskMap, net, ownerVars, tasks,
                   loc, scripts>>

WorkerStep == \/ WBegin \/ WActivation \/ WNetwork \/ WIdentity \/ WKnowWhoAmI \/ WDecide
              \/ WContextWait \/ WAnnounce \/ WOffline \/ WOfflineTail \/ WBuild
              \/ WSkipFirmware \/ WLock \/ WLoop \/ WRecheck \/ WLaunch \/ WWait
              \/ WWake \/ WExit

-----------------------------------------------------------------------------
(* The IARM thread: iarmEventHandler().                                    *)

\* Mutant: TASKS_COMPLETED and ALL_TASKS_SUCCESS are confused.
EndStatusByCompletion(bits) == IF bits.complete = Tasks THEN "COMPLETE" ELSE "ERROR"

\* How a cycle whose tasks are all complete ends.
EndStatus(bits) ==
    CASE bits.success = Tasks -> "COMPLETE"
      [] bits.success # Tasks /\ bits.skipped -> "INCOMPLETE"
      [] OTHER -> "ERROR"

\* The end of the handler: nothing, or the first half of the end of a cycle.
CheckCompleted ==
    IF taskStatus'.complete = Tasks
    THEN /\ statusMutex' = "event"
         /\ endStatus' = EndStatus(taskStatus')
         /\ lastSuccess' = IF endStatus' = "COMPLETE" THEN 1 - lastSuccess ELSE lastSuccess
    ELSE UNCHANGED <<statusMutex, endStatus, lastSuccess>>

Listening == up /\ statusMutex = "free"

\* An update is looked at in a started cycle that is not being aborted.
Accepting == Listening /\ ~abortFlag /\ notifyStatus = "STARTED"

\* The script of task t reports how it ended and is gone.
ScriptEnds(t) ==
    /\ scripts[t] > 0
    /\ scripts' = [scripts EXCEPT ![t] = @ - 1]

\* MAINT_<t>_COMPLETE, _ERROR: mark the task and wake the worker, if m_task_map
\* has it; MAINT_FWDOWNLOAD_ABORTED does so in any case.
TaskEnded(t, outcome) ==
    /\ Accepting
    /\ "early" \in Env \/ wpc \notin {"recheck", "launch", "prewait"}
    /\ ScriptEnds(t)
    /\ IF t \in taskMap \/ outcome = "ABORTED"
       THEN /\ taskStatus' = [complete |-> taskStatus.complete \cup {t},
                              success  |-> IF outcome = "COMPLETE" THEN taskStatus.success \cup {t}
                                           ELSE taskStatus.success,
                              skipped  |-> taskStatus.skipped \/ outcome = "ABORTED"]
            /\ wpc' = Notified
            /\ taskMap' = taskMap \ {t}
       ELSE UNCHANGED <<taskStatus, wpc, taskMap>>
    /\ CheckCompleted
    /\ UNCHANGED <<notifyStatus, abortFlag, unsolicitedComplete, net, maintenanceType, flags, up,
                   thread, callMutex, tasks, i, loc>>

\* The same event outside a cycle, or while one is aborted, is dropped.
TaskEndIgnored(t) ==
    /\ Listening /\ ~Accepting
    /\ ScriptEnds(t)
    /\ UNCHANGED <<sharedVars, net, callMutex, workerVars>>

\* MAINT_<t>_INPROGRESS, MAINT_REBOOT_REQUIRED, MAINT_CRITICAL_UPDATE.
InfoEvent(kind, t) ==
    /\ kind \in Env
    /\ Accepting
    /\ scripts[t] > 0
    /\ taskMap' = IF kind = "INPROGRESS" THEN taskMap \cup {t} ELSE taskMap
    /\ flags' = CASE kind = "REBOOT_REQUIRED" -> flags \cup {"reboot"}
                  [] kind = "CRITICAL_UPDATE" -> flags \cup {"critical"}
                  [] OTHER -> flags
    /\ UNCHANGED taskStatus
    /\ CheckCompleted
    /\ UNCHANGED <<notifyStatus, abortFlag, unsolicitedComplete, net, maintenanceType, up, thread,
                   callMutex, workerVars, scripts>>

\* IARM_BUS_DCM_NEW_START_TIME_EVENT is handled in every status and falls
\* through to the same completion check.
NewStartTime ==
    /\ "NEW_START_TIME" \in Env
    /\ Listening /\ ~abortFlag
    /\ UNCHANGED taskStatus
    /\ CheckCompleted
    /\ UNCHANGED <<notifyStatus, abortFlag, unsolicitedComplete, taskMap, net, maintenanceType,
                   flags, up, thread, callMutex, workerVars, scripts>>

\* Mutant: the worker is not joined.
EndCycleUnjoined ==
    /\ statusMutex = "event"
    /\ notifyStatus' = endStatus
    /\ statusMutex' = "free"
    /\ unsolicitedComplete' = TRUE
    /\ UNCHANGED <<abortFlag, taskStatus, taskMap, net, maintenanceType, recordVars, up, thread,
                   endStatus, callMutex, workerVars, scripts>>

\* The second half of the end of a cycle: join the worker and post the status.
EndCycle ==
    /\ statusMutex = "event"
    /\ Joined
    /\ thread' = FALSE
    /\ wpc' = "none"
    /\ unsolicitedComplete' = (unsolicitedComplete \/ maintenanceType = "UNSOLICITED")
    /\ notifyStatus' = endStatus
    /\ endStatus' = "STARTED"
    /\ statusMutex' = "free"
    /\ UNCHANGED <<abortFlag, taskStatus, taskMap, net, maintenanceType, recordVars, up, callMutex,
                   tasks, i, loc, scripts>>

-----------------------------------------------------------------------------
(* The JSON-RPC methods and the plugin's life.                             *)

\* Mutant: the boot cycle is not waited for.
AcceptedDuringBoot == notifyStatus # "STARTED"

\* A cycle may be requested between two cycles, once the boot cycle is over.
RequestAccepted == notifyStatus # "STARTED" /\ unsolicitedComplete

\* startMaintenance() up to its join; a refused call changes nothing.
StartMaintenance ==
    /\ "start" \in Env
    /\ "early" \in Env \/ wpc # "begin"
    /\ Listening
    /\ RequestAccepted
    /\ taskStatus' = [complete |-> {"DCM"}, success |-> {"DCM"}, skipped |-> FALSE]
    /\ maintenanceType' = "SOLICITED"
    /\ abortFlag' = FALSE
    /\ flags' = {"reboot"}
    /\ statusMutex' = "start"
    /\ UNCHANGED <<notifyStatus, unsolicitedComplete, taskMap, net, lastSuccess, up, thread,
                   endStatus, callMutex, workerVars, scripts>>

\* The rest of it: join the previous worker and start the next one.
StartJoined ==
    /\ statusMutex = "start"
    /\ Joined
    /\ thread' = TRUE
    /\ wpc' = "begin"
    /\ statusMutex' = "free"
    /\ UNCHANGED <<notifyStatus, abortFlag, unsolicitedComplete, taskStatus, taskMap, net,
                   maintenanceType, recordVars, up, endStatus, callMutex, tasks, i, loc, scripts>>

\* abortTask() on the first running task, in KillOrder.  The process is found
\* and killed, before or after it sent its event, or it is not found any more.
AbortTask ==
    \/ \E t \in taskMap :
          /\ \A u \in taskMap : KillOrder[t] <= KillOrder[u]
          /\ scripts[t] > 0
          /\ taskMap' = taskMap \ {t}
          /\ scripts' \in {scripts, [scripts EXCEPT ![t] = @ - 1]}
    \/ UNCHANGED <<taskMap, scripts>>

\* stopMaintenanceTasks() up to its join, for stopMaintenance() with its RFC
\* enabled and for Deinitialize().
StopMaintenance(caller) ==
    /\ caller \in Env
    /\ Listening
    /\ \/ notifyStatus = "STARTED" /\ abortFlag' = TRUE /\ AbortTask
       \/ notifyStatus # "STARTED" /\ UNCHANGED <<abortFlag, taskMap, scripts>>
    /\ wpc' = Notified
    /\ statusMutex' = caller
    /\ UNCHANGED <<notifyStatus, unsolicitedComplete, taskStatus, net, maintenanceType, recordVars,
                   up, thread, endStatus, callMutex, tasks, i, loc>>

\* The rest of it: join the worker and post MAINTENANCE_ERROR, in any status.
StopJoined ==
    /\ statusMutex \in {"stop", "deinit"}
    /\ Joined
    /\ thread' = FALSE
    /\ wpc' = "none"
    /\ unsolicitedComplete' = (unsolicitedComplete \/ maintenanceType = "UNSOLICITED")
    /\ notifyStatus' = "ERROR"
    /\ up' = (statusMutex = "stop")
    /\ statusMutex' = "free"
    /\ UNCHANGED <<abortFlag, taskStatus, taskMap, net, maintenanceType, recordVars, endStatus,
                   callMutex, tasks, i, loc, scripts>>

\* A new activation of the plugin; scripts and the record file outlive the old one.
Initialize ==
    /\ ~up
    /\ notifyStatus' = "IDLE"
    /\ maintenanceType' = "UNSOLICITED"
    /\ abortFlag' = FALSE
    /\ unsolicitedComplete' = FALSE
    /\ taskStatus' = NoBits
    /\ taskMap' = {}
    /\ flags' = {}
    /\ net' \in {{}, IF WhoAmI THEN {"subscribedCtx"} ELSE {}}
    /\ up' = TRUE
    /\ thread' = TRUE
    /\ statusMutex' = "free"
    /\ endStatus' = "STARTED"
    /\ callMutex' = "free"
    /\ wpc' = "begin"
    /\ i' = 1
    /\ loc' = NoLocals
    /\ UNCHANGED <<tasks, lastSuccess, scripts>>

\* internetStatusChangeEventHandler() once connected, with startCriticalTasks().
InternetConnected ==
    /\ up /\ {"subscribedNw", "listenNw"} \subseteq net
    /\ scripts' = Run(CriticalTasks)
    /\ net' = net \ {"listenNw"}
    /\ UNCHANGED <<sharedVars, callMutex, workerVars>>

\* deviceInitializationContextEventHandler() with a complete context.
ContextUpdated ==
    /\ up /\ {"subscribedCtx", "listenCtx"} \subseteq net
    /\ maintenanceType = "UNSOLICITED"
    /\ net' = net \ {"listenCtx"}
    /\ wpc' = Notified
    /\ UNCHANGED <<sharedVars, callMutex, tasks, i, loc, scripts>>

\* A script dies, or its event is lost on the bus.
ScriptDies(t) ==
    /\ "die" \in Env
    /\ ScriptEnds(t)
    /\ UNCHANGED <<sharedVars, net, callMutex, workerVars>>

-----------------------------------------------------------------------------
Report(t) == TaskEndIgnored(t) \/ \E outcome \in Outcomes(t) : TaskEnded(t, outcome)

Next ==
    \/ WorkerStep \/ WSpurious
    \/ \E t \in Tasks : Report(t) \/ ScriptDies(t)
    \/ \E kind \in InfoEvents, t \in Tasks : InfoEvent(kind, t)
    \/ NewStartTime
    \/ EndCycle
    \/ StartMaintenance \/ StartJoined
    \/ StopMaintenance("stop") \/ StopMaintenance("deinit") \/ StopJoined \/ Initialize
    \/ InternetConnected \/ ContextUpdated

Spec == Init /\ [][Next]_vars

\* The worker and the threads that join it are scheduled, and a script that runs
\* reports in the end.  Nobody owes the worker a spurious wakeup, nor the system a call.
Fairness == /\ WF_vars(WorkerStep)
            /\ WF_vars(EndCycle) /\ WF_vars(StartJoined) /\ WF_vars(StopJoined)
            /\ \A t \in Tasks : WF_vars(Report(t))

FairSpec == Spec /\ Fairness

-----------------------------------------------------------------------------
TypeOK ==
    /\ notifyStatus \in Statuses
    /\ maintenanceType \in {"UNSOLICITED", "SOLICITED"}
    /\ abortFlag \in BOOLEAN
    /\ unsolicitedComplete \in BOOLEAN
    /\ taskStatus \in TaskBits
    /\ taskMap \subseteq Tasks
    /\ flags \subseteq {"reboot", "critical"}
    /\ lastSuccess \in 0..1
    /\ net \subseteq NetFlags
    /\ up \in BOOLEAN
    /\ thread \in BOOLEAN
    /\ statusMutex \in {"free", "event", "start", "stop", "deinit"}
    /\ endStatus \in Statuses
    /\ callMutex \in {"free", "worker", "client"}
    /\ wpc \in Places
    /\ tasks \in Seq(Tasks)
    /\ i \in Nat \ {0}
    /\ loc \in Locals
    /\ scripts \in [Tasks -> 0..MaxInstances]

\* While the worker of a cycle is at its tasks the status is MAINTENANCE_STARTED:
\* no event, call or timeout ends the cycle, and no client can begin another one
\* or change what a cycle is about, under the worker's feet.
TasksOnlyWhileStarted == wpc \in TaskPlaces => notifyStatus = "STARTED"

\* While a worker is active, g_maintenance_type and g_unsolicited_complete tell the
\* same story: the boot cycle is not over before its worker is, and no requested
\* cycle runs before that.
BootCycleFirst ==
    wpc \notin {"none", "done"} => (maintenanceType = "SOLICITED" <=> unsolicitedComplete)

\* MAINTENANCE_COMPLETE and _INCOMPLETE are posted when the worker is gone, and
\* stand until the next one announces itself.
FinishedMeansQuiescent ==
    notifyStatus \in {"COMPLETE", "INCOMPLETE"} => wpc \in {"none", "begin"}

\* The script of task t runs, and its end will be taken for the task's.
Pending(t) == t \in taskMap /\ scripts[t] > 0

\* The code relies on it that whoever waits in a started cycle has somebody to wait for: the
\* worker, blocked in a wait() without a predicate, for the script of its own task, which no
\* thread that joins the worker keeps from reporting; and, when the worker is through, the
\* cycle for a script, or for the handler that has taken the last event.
SomebodyToWaitFor ==
    /\ wpc = "waiting" => statusMutex = "free" /\ Pending(tasks[i])
    /\ wpc = "done" /\ notifyStatus = "STARTED" =>
          statusMutex = "event" \/ \E t \in Tasks : Pending(t)

\* What clients are promised: module MaintenanceCycle.
Cycle == INSTANCE MaintenanceCycle WITH
             Preset    <- {"DCM"},
             status    <- notifyStatus,
             working   <- wpc \in TaskPlaces \ {"build"},
             succeeded <- taskStatus.success

CycleSpec == Cycle!CycleSpec

\* A cycle that was started, at boot or by a call, comes to an end.
StartedCycleEnds == notifyStatus = "STARTED" ~> notifyStatus # "STARTED"

\* A client is let in: boot ends, online or offline, and lets startMaintenance() through.
BootEnds == <>(unsolicitedComplete /\ notifyStatus # "STARTED")
=============================================================================
