-------------------------- MODULE MaintenanceAwaits --------------------------
(***************************************************************************)
(* Nobody waits for nobody in a started cycle, in every build and for every*)
(* number of network checks and script instances, as long as nothing comes *)
(* at the worker before it has reached its wait: no stop, no deactivation, *)
(* no lost event and no early one.  Spurious wakeups, the wakeup that comes*)
(* from the device context or an aborted download, and the scripts that are*)
(* started outside any cycle are all there.                                *)
(*                                                                         *)
(* The argument counts the tasks that the worker has launched: each of them*)
(* is complete or its script is still to report.  The last one, LOGUPLOAD, *)
(* is run by the worker alone, so a cycle whose tasks are all complete has *)
(* no worker left in a wait.                                               *)
(***************************************************************************)
EXTENDS MaintenanceManagerProofs

\* What the environment must not do: the finding of run mm_lost_wakeup is what happens otherwise.
Undisturbed == Env \cap {"stop", "deinit", "die", "early"} = {}

Last == "LOGUPLOAD"

\* The places of the worker once its task list is settled.
ListPlaces == {"lock", "loop", "recheck", "launch", "prewait", "waiting", "woken", "exit"}
LaunchedPlaces == {"prewait", "waiting", "woken"}

\* The worker is at its tasks, or through with them and not yet joined.
Working == wpc \in ListPlaces \/ (wpc = "done" /\ notifyStatus = "STARTED")

\* How many tasks of its list the worker has launched.
Upto == IF wpc \in LaunchedPlaces THEN i
        ELSE IF wpc \in {"exit", "done"} THEN Len(tasks) ELSE i - 1

NoAbort ==
    /\ up /\ ~ abortFlag
    /\ statusMutex \in {"free", "event", "start"}
    /\ statusMutex = "event" => taskStatus.complete = Tasks
    /\ statusMutex = "start" => /\ wpc \in {"none", "offlineTail", "done"} /\ notifyStatus # "STARTED"
                                /\ Last \notin taskStatus.complete

IndexInv ==
    /\ wpc \in {"skipFirmware", "lock"} => i = 1
    /\ wpc = "loop" => i <= Len(tasks) + 1
    /\ wpc \in {"recheck", "launch"} \cup LaunchedPlaces => i <= Len(tasks)
    /\ wpc = "exit" => i > Len(tasks)
    /\ wpc \in {"recheck", "launch"} => tasks[i] \in taskMap
    /\ wpc \in {"prewait", "waiting"} => Pending(tasks[i])

\* LOGUPLOAD ends the list.
LastLast(list) == Len(list) > 0 /\ \A k \in 1..Len(list) : list[k] = Last <=> k = Len(list)

\* What is not in the list is already complete.
Covers(list, bits) == \A t \in Tasks \ bits.complete : \E k \in 1..Len(list) : list[k] = t

ListInv ==
    /\ maintenanceType = "SOLICITED" => "DCM" \in taskStatus.complete
    /\ wpc = "skipFirmware" => /\ LastLast(tasks) /\ Last \notin loc.seen.complete
                               /\ \A t \in Tasks \ ({"SWUPDATE"} \cup loc.seen.complete) :
                                     \E k \in 1..Len(tasks) : tasks[k] = t
                               /\ maintenanceType = "SOLICITED" => "DCM" \in loc.seen.complete
    /\ Working => LastLast(tasks) /\ Covers(tasks, taskStatus)

\* Each task that was launched is complete or will be.
LaunchedInv == Working => \A k \in 1..Upto : tasks[k] \in taskStatus.complete \/ Pending(tasks[k])

\* When the last of them becomes complete, the handler takes m_statusMutex to end the cycle.
HeardInv ==
    Working /\ statusMutex # "event" /\ Upto > 0 /\ taskStatus.complete = Tasks =>
        \E k \in 1..Upto : Pending(tasks[k])

\* The worker has yet to launch LOGUPLOAD, or was told that it need not.
BeforeLast ==
    \/ wpc \in {"begin", "offlineTail", "build", "skipFirmware", "lock"} \cup CheckPlaces
    \/ wpc \in {"loop", "recheck", "launch"} /\ i <= Len(tasks)
    \/ wpc \in LaunchedPlaces /\ i < Len(tasks)

LastInv ==
    /\ scripts[Last] <= 1
    /\ Last \in taskStatus.complete => scripts[Last] = 0
    /\ BeforeLast => scripts[Last] = 0 /\ Last \notin taskStatus.complete
    /\ wpc = "none" \/ (wpc = "done" /\ notifyStatus # "STARTED") => scripts[Last] = 0

\* Only the boot cycle may put off MAINTENANCE_STARTED.
DelayInv == wpc \in CheckPlaces /\ loc.delay => maintenanceType = "UNSOLICITED"

AInv == IInv /\ DelayInv /\ NoAbort /\ IndexInv /\ ListInv /\ LaunchedInv /\ HeardInv /\ LastInv

-----------------------------------------------------------------------------
(* The task lists.                                                         *)

LEMMA Concatenation ==
    ASSUME NEW p \in Seq(Tasks), NEW q \in Seq(Tasks)
    PROVE  /\ p \o q \in Seq(Tasks) /\ Len(p \o q) = Len(p) + Len(q)
           /\ \A k \in 1..Len(p) : (p \o q)[k] = p[k]
           /\ \A k \in 1..Len(q) : (p \o q)[k + Len(p)] = q[k]
  OBVIOUS

LEMMA Concatenations ==
    /\ <<>> \o <<"RFC", "LOGUPLOAD">> = <<"RFC", "LOGUPLOAD">>
    /\ <<>> \o <<"RFC", "SWUPDATE", "LOGUPLOAD">> = <<"RFC", "SWUPDATE", "LOGUPLOAD">>
    /\ <<"DCM">> \o <<"RFC", "LOGUPLOAD">> = <<"DCM", "RFC", "LOGUPLOAD">>
    /\ <<"DCM">> \o <<"RFC", "SWUPDATE", "LOGUPLOAD">> = <<"DCM", "RFC", "SWUPDATE", "LOGUPLOAD">>
    /\ <<"RFC", "SWUPDATE">> \o <<>> \o <<"LOGUPLOAD">> = <<"RFC", "SWUPDATE", "LOGUPLOAD">>
    /\ <<"RFC", "SWUPDATE">> \o <<"DCM">> \o <<"LOGUPLOAD">> = <<"RFC", "SWUPDATE", "DCM", "LOGUPLOAD">>
<1> USE DEF Tasks
<1>1. <<>> \o <<"RFC", "LOGUPLOAD">> = <<"RFC", "LOGUPLOAD">>
  OBVIOUS
<1>2. <<>> \o <<"RFC", "SWUPDATE", "LOGUPLOAD">> = <<"RFC", "SWUPDATE", "LOGUPLOAD">>
  OBVIOUS
<1>3. <<"DCM">> \o <<"RFC", "LOGUPLOAD">> = <<"DCM", "RFC", "LOGUPLOAD">>
  <2> DEFINE q == <<"DCM">> \o <<"RFC", "LOGUPLOAD">>
  <2>1. q \in Seq(Tasks) /\ Len(q) = 3 /\ q[1] = "DCM" /\ q[1 + 1] = "RFC" /\ q[2 + 1] = "LOGUPLOAD"
    BY Concatenation
  <2> HIDE DEF q
  <2>2. q = <<"DCM", "RFC", "LOGUPLOAD">>
    BY <2>1
  <2> QED
    BY <2>2 DEF q
<1>4. <<"DCM">> \o <<"RFC", "SWUPDATE", "LOGUPLOAD">> = <<"DCM", "RFC", "SWUPDATE", "LOGUPLOAD">>
  <2> DEFINE q == <<"DCM">> \o <<"RFC", "SWUPDATE", "LOGUPLOAD">>
  <2>1. /\ q \in Seq(Tasks) /\ Len(q) = 4 /\ q[1] = "DCM" /\ q[1 + 1] = "RFC" /\ q[2 + 1] = "SWUPDATE"
        /\ q[3 + 1] = "LOGUPLOAD"
    BY Concatenation
  <2> HIDE DEF q
  <2>2. q = <<"DCM", "RFC", "SWUPDATE", "LOGUPLOAD">>
    BY <2>1
  <2> QED
    BY <2>2 DEF q
<1>5. <<"RFC", "SWUPDATE">> \o <<>> \o <<"LOGUPLOAD">> = <<"RFC", "SWUPDATE", "LOGUPLOAD">>
  <2> DEFINE q == <<"RFC", "SWUPDATE">> \o <<"LOGUPLOAD">>
  <2>1. /\ q \in Seq(Tasks) /\ Len(q) = 3 /\ q[1] = "RFC" /\ q[2] = "SWUPDATE" /\ q[1 + 2] = "LOGUPLOAD"
    BY Concatenation
  <2>2. <<"RFC", "SWUPDATE">> \o <<>> = <<"RFC", "SWUPDATE">>
    OBVIOUS
  <2> HIDE DEF q
  <2>3. q = <<"RFC", "SWUPDATE", "LOGUPLOAD">>
    BY <2>1
  <2> QED
    BY <2>2, <2>3 DEF q
<1>6. <<"RFC", "SWUPDATE">> \o <<"DCM">> \o <<"LOGUPLOAD">> = <<"RFC", "SWUPDATE", "DCM", "LOGUPLOAD">>
  <2> DEFINE p == <<"RFC", "SWUPDATE">> \o <<"DCM">>
             q == p \o <<"LOGUPLOAD">>
  <2>1. p \in Seq(Tasks) /\ Len(p) = 3 /\ p[1] = "RFC" /\ p[2] = "SWUPDATE" /\ p[1 + 2] = "DCM"
    BY Concatenation
  <2> HIDE DEF p
  <2>2. /\ q \in Seq(Tasks) /\ Len(q) = 4 /\ q[1] = "RFC" /\ q[2] = "SWUPDATE" /\ q[3] = "DCM"
        /\ q[1 + 3] = "LOGUPLOAD"
    <3>1. <<"LOGUPLOAD">> \in Seq(Tasks) /\ Len(<<"LOGUPLOAD">>) = 1 /\ <<"LOGUPLOAD">>[1] = "LOGUPLOAD"
      OBVIOUS
    <3>2. /\ q \in Seq(Tasks) /\ Len(q) = 3 + 1 /\ \A k \in 1..3 : q[k] = p[k]
          /\ \A k \in 1..1 : q[k + 3] = <<"LOGUPLOAD">>[k]
      BY <2>1, <3>1, Concatenation
    <3> QED
      BY <2>1, <3>1, <3>2
  <2> HIDE DEF q
  <2>3. q = <<"RFC", "SWUPDATE", "DCM", "LOGUPLOAD">>
    BY <2>2
  <2> QED
    BY <2>3 DEF p, q
<1> QED
  BY <1>1, <1>2, <1>3, <1>4, <1>5, <1>6

\* A list of four tasks that ends with LOGUPLOAD.
LEMMA FourTasks ==
    ASSUME NEW a \in Tasks \ {Last}, NEW b \in Tasks \ {Last}, NEW c \in Tasks \ {Last},
           NEW q, q = <<a, b, c, Last>>
    PROVE  /\ LastLast(q)
           /\ \A t \in {a, b, c, Last} : \E k \in 1..Len(q) : q[k] = t
<1>1. Len(q) = 4 /\ q[1] = a /\ q[2] = b /\ q[3] = c /\ q[4] = Last
  OBVIOUS
<1>2. \A k \in 1..4 : k = 1 \/ k = 2 \/ k = 3 \/ k = 4
  OBVIOUS
<1>3. 1 \in 1..4 /\ 2 \in 1..4 /\ 3 \in 1..4 /\ 4 \in 1..4
  OBVIOUS
<1>4. LastLast(q)
  BY <1>1, <1>2 DEF LastLast
<1> QED
  BY <1>1, <1>3, <1>4

\* The list of every build and type of cycle ends with LOGUPLOAD, and leaves out nothing but DCM
\* in a requested cycle and SWUPDATE when it is skipped.
LEMMA ListOfCycle ==
    ASSUME TypeOK, NEW skip \in BOOLEAN
    PROVE  /\ LastLast(TaskList(skip))
           /\ \A t \in Tasks :
                 \/ t = "DCM" /\ maintenanceType = "SOLICITED"
                 \/ t = "SWUPDATE" /\ skip
                 \/ \E k \in 1..Len(TaskList(skip)) : TaskList(skip)[k] = t
<1>1. CASE maintenanceType = "UNSOLICITED" /\ WhoAmI
  <2>1. TaskList(skip) = <<"RFC", "SWUPDATE", "DCM", Last>>
    BY <1>1, Concatenations DEF TaskList, Last
  <2> QED
    BY <2>1, FourTasks DEF Last, Tasks
<1>2. CASE maintenanceType = "UNSOLICITED" /\ ~ WhoAmI
  <2>1. CASE skip
    <3> DEFINE q == TaskList(skip)
    <3>1. q = <<"DCM", "RFC", "LOGUPLOAD">>
      BY <1>2, <2>1, Concatenations DEF TaskList
    <3>2. Len(q) = 3 /\ q[1] = "DCM" /\ q[2] = "RFC" /\ q[3] = "LOGUPLOAD"
      BY <3>1
    <3> HIDE DEF q
    <3>3. LastLast(q)
      BY <3>2 DEF LastLast, Last
    <3>4. \A t \in Tasks : t = "SWUPDATE" \/ \E k \in 1..Len(q) : q[k] = t
      BY <3>2 DEF Tasks
    <3> QED
      BY <2>1, <3>3, <3>4 DEF q
  <2>2. CASE ~ skip
    <3>1. TaskList(skip) = <<"DCM", "RFC", "SWUPDATE", Last>>
      BY <1>2, <2>2, Concatenations DEF TaskList, Last
    <3>2. /\ LastLast(TaskList(skip))
          /\ \A t \in {"DCM", "RFC", "SWUPDATE", Last} :
                \E k \in 1..Len(TaskList(skip)) : TaskList(skip)[k] = t
      BY <3>1, FourTasks DEF Last, Tasks
    <3> QED
      BY <3>2 DEF Last, Tasks
  <2> QED
    BY <2>1, <2>2
<1>3. CASE maintenanceType = "SOLICITED" /\ WhoAmI
  <2>1. TaskList(skip) = <<"RFC", "SWUPDATE", "LOGUPLOAD">>
    BY <1>3, Concatenations DEF TaskList
  <2> QED
    BY <1>3, <2>1 DEF LastLast, Last, Tasks
<1>4. CASE maintenanceType = "SOLICITED" /\ ~ WhoAmI
  <2>1. TaskList(skip) = IF skip THEN <<"RFC", "LOGUPLOAD">> ELSE <<"RFC", "SWUPDATE", "LOGUPLOAD">>
    BY <1>4, Concatenations DEF TaskList
  <2> QED
    BY <1>4, <2>1 DEF LastLast, Last, Tasks
<1> QED
  BY <1>1, <1>2, <1>3, <1>4, BuildAssumption DEF TypeOK

-----------------------------------------------------------------------------
LEMMA InitAInv == Init => AInv
  BY InitInv, BoundAssumption
     DEF Init, AInv, DelayInv, NoAbort, IndexInv, ListInv, LaunchedInv, HeardInv, LastInv, BeforeLast, Working,
         ListPlaces, LaunchedPlaces, CheckPlaces, Last, NoBits, Tasks

\* All of the invariant but that of the cycle, which StepInv keeps.
Awaits == DelayInv /\ NoAbort /\ IndexInv /\ ListInv /\ LaunchedInv /\ HeardInv /\ LastInv

\* What the worker's place means to each part of it.
LEMMA PlacesApart ==
    /\ CheckPlaces \cap (ListPlaces \cup {"none", "begin", "offlineTail", "done", "build", "skipFirmware"}) = {}
    /\ LaunchedPlaces \subseteq ListPlaces
    /\ ListPlaces \subseteq TaskPlaces /\ "build" \in TaskPlaces /\ "skipFirmware" \in TaskPlaces
  BY DEF CheckPlaces, ListPlaces, LaunchedPlaces, TaskPlaces

\* On its way to the tasks the worker leaves alone what the invariant is about.
LEMMA ChecksAwait ==
    ASSUME AInv, WorkerStep, wpc \in {"begin", "offlineTail"} \cup CheckPlaces
    PROVE  Awaits'
<1> USE DEF sharedVars, ownerVars
<1>1. UNCHANGED <<abortFlag, taskStatus, taskMap, scripts, statusMutex, up, maintenanceType>>
  <2>1. CASE WBegin \/ WActivation \/ WNetwork \/ WIdentity \/ WKnowWhoAmI \/ WDecide
    BY <2>1 DEF WBegin, WActivation, WNetwork, WIdentity, WKnowWhoAmI, WDecide
  <2>2. CASE WContextWait \/ WAnnounce \/ WOffline \/ WOfflineTail
    BY <2>2 DEF WContextWait, WAnnounce, WOffline, WOfflineTail
  <2>3. CASE WBuild \/ WSkipFirmware \/ WLock \/ WLoop \/ WRecheck \/ WLaunch \/ WWait \/ WWake \/ WExit
    BY <2>3 DEF WBuild, WSkipFirmware, WLock, WLoop, WRecheck, WLaunch, WWait, WWake, WExit, CheckPlaces
  <2> QED
    BY <2>1, <2>2, <2>3 DEF WorkerStep
<1>2. /\ wpc' \in CheckPlaces \cup {"build", "offlineTail", "done"}
      /\ wpc' = "done" => wpc = "offlineTail" /\ notifyStatus' = notifyStatus
      /\ wpc = "offlineTail" => wpc' = "done"
  <2>1. CASE WBegin \/ WActivation \/ WNetwork \/ WIdentity \/ WKnowWhoAmI \/ WDecide
    BY <2>1 DEF WBegin, WActivation, WNetwork, WIdentity, WKnowWhoAmI, WDecide, CheckPlaces
  <2>2. CASE WContextWait \/ WAnnounce \/ WOffline \/ WOfflineTail
    BY <2>2 DEF WContextWait, WAnnounce, WOffline, WOfflineTail, CheckPlaces
  <2>3. CASE WBuild \/ WSkipFirmware \/ WLock \/ WLoop \/ WRecheck \/ WLaunch \/ WWait \/ WWake \/ WExit
    BY <2>3 DEF WBuild, WSkipFirmware, WLock, WLoop, WRecheck, WLaunch, WWait, WWake, WExit, CheckPlaces
  <2> QED
    BY <2>1, <2>2, <2>3 DEF WorkerStep
<1>3. wpc' = "done" => notifyStatus' = "ERROR"
  BY <1>2 DEF AInv, IInv, PlaceInv
<1>4. NoAbort' /\ DelayInv'
  <2>1. wpc # "begin" /\ wpc' \in CheckPlaces => loc'.delay = loc.delay
    <3>1. CASE WActivation \/ WNetwork \/ WIdentity \/ WKnowWhoAmI
      BY <3>1 DEF WActivation, WNetwork, WIdentity, WKnowWhoAmI, AInv, IInv, TypeOK, Locals
    <3>2. CASE ~ (WActivation \/ WNetwork \/ WIdentity \/ WKnowWhoAmI)
      BY <3>2 DEF WorkerStep, WBegin, WDecide, WContextWait, WAnnounce, WOffline, WOfflineTail, WBuild,
                  WSkipFirmware, WLock, WLoop, WRecheck, WLaunch, WWait, WWake, WExit, CheckPlaces
    <3> QED
      BY <3>1, <3>2
  <2>2. wpc = "begin" => (loc'.delay => maintenanceType = "UNSOLICITED")
    BY DEF WorkerStep, WBegin, WActivation, WNetwork, WIdentity, WKnowWhoAmI, WDecide, WContextWait,
           WAnnounce, WOffline, WOfflineTail, WBuild, WSkipFirmware, WLock, WLoop, WRecheck, WLaunch,
           WWait, WWake, WExit, NoLocals
  <2>3. DelayInv'
    BY <1>1, <1>2, <2>1, <2>2, PlacesApart DEF AInv, DelayInv
  <2> QED
    BY <1>1, <1>2, <1>3, <2>3, PlacesApart DEF AInv, NoAbort
<1>5. ~ Working'
  BY <1>2, <1>3 DEF Working, CheckPlaces, ListPlaces
<1>6. IndexInv' /\ ListInv'
  BY <1>1, <1>2, <1>5 DEF AInv, IndexInv, ListInv, CheckPlaces, LaunchedPlaces
<1>7. LastInv'
  BY <1>1, <1>2 DEF AInv, LastInv, BeforeLast, CheckPlaces
<1> QED
  BY <1>4, <1>5, <1>6, <1>7 DEF Awaits, LaunchedInv, HeardInv

\* It chooses the tasks of the cycle, and takes m_callMutex.
LEMMA ListAwaits ==
    ASSUME AInv, WBuild \/ WSkipFirmware \/ WLock
    PROVE  Awaits'
<1> USE DEF sharedVars, ownerVars, recordVars
<1>0. TypeOK /\ scripts[Last] = 0 /\ Last \notin taskStatus.complete /\ statusMutex # "start"
  BY DEF WBuild, WSkipFirmware, WLock, AInv, IInv, LastInv, BeforeLast, NoAbort
<1>1. CASE WBuild
  <2>1. /\ tasks' = TaskList(loc.skip) /\ i' = 1 /\ wpc' \in {"skipFirmware", "lock"}
        /\ wpc' = "skipFirmware" <=> loc.skip
        /\ loc.skip \in BOOLEAN /\ wpc = "build"
        /\ wpc' = "skipFirmware" => loc'.seen = taskStatus
        /\ UNCHANGED <<notifyStatus, abortFlag, taskStatus, taskMap, scripts, statusMutex, up, maintenanceType>>
    BY <1>0, <1>1 DEF WBuild, TypeOK, Locals, NoLocals
  <2>2. /\ LastLast(tasks')
        /\ \A t \in Tasks :
              \/ t = "DCM" /\ maintenanceType = "SOLICITED"
              \/ t = "SWUPDATE" /\ wpc' = "skipFirmware"
              \/ \E k \in 1..Len(tasks') : tasks'[k] = t
    BY <1>0, <2>1, ListOfCycle
  <2>3. DelayInv' /\ NoAbort' /\ IndexInv' /\ LastInv'
    BY <1>0, <2>1 DEF AInv, DelayInv, NoAbort, IndexInv, LastInv, BeforeLast, LaunchedPlaces, CheckPlaces
  <2>4. ListInv'
    BY <1>0, <2>1, <2>2 DEF AInv, ListInv, Covers, Working, ListPlaces
  <2>5. LaunchedInv' /\ HeardInv'
    BY <2>1 DEF LaunchedInv, HeardInv, Upto, Working, ListPlaces, LaunchedPlaces
  <2> QED
    BY <2>3, <2>4, <2>5 DEF Awaits
<1>2. CASE WSkipFirmware
  <2>1. /\ wpc = "skipFirmware" /\ wpc' = "lock"
        /\ taskStatus'.complete = loc.seen.complete \cup {"SWUPDATE"}
        /\ UNCHANGED <<notifyStatus, abortFlag, taskMap, scripts, statusMutex, up, maintenanceType, tasks, i>>
    BY <1>0, <1>2 DEF WSkipFirmware, TypeOK, Locals, TaskBits
  <2>2. Last \in Tasks /\ Last # "SWUPDATE" /\ Last \notin taskStatus'.complete
    BY <2>1 DEF AInv, ListInv, Last, Tasks
  <2>3. DelayInv' /\ NoAbort' /\ IndexInv' /\ LastInv'
    BY <1>0, <2>1, <2>2 DEF AInv, DelayInv, NoAbort, IndexInv, LastInv, BeforeLast, LaunchedPlaces, CheckPlaces
  <2>4. ListInv'
    BY <2>1 DEF AInv, ListInv, Covers
  <2>5. LaunchedInv' /\ HeardInv'
    BY <2>1 DEF AInv, IndexInv, LaunchedInv, HeardInv, Upto, Working, ListPlaces, LaunchedPlaces
  <2> QED
    BY <2>3, <2>4, <2>5 DEF Awaits
<1>3. CASE WLock
  <2>1. /\ wpc = "lock" /\ wpc' = "loop"
        /\ UNCHANGED <<notifyStatus, abortFlag, taskStatus, taskMap, scripts, statusMutex, up,
                       maintenanceType, tasks, i>>
    BY <1>3 DEF WLock
  <2>2. i = 1 /\ Len(tasks) > 0 /\ Len(tasks) \in Nat
    BY <1>0, <2>1 DEF AInv, IndexInv, ListInv, LastLast, Working, ListPlaces, TypeOK
  <2>3. DelayInv' /\ NoAbort' /\ IndexInv' /\ LastInv'
    BY <1>0, <2>1, <2>2 DEF AInv, DelayInv, NoAbort, IndexInv, LastInv, BeforeLast, LaunchedPlaces, CheckPlaces
  <2>4. ListInv'
    BY <2>1 DEF AInv, ListInv, Covers, Working, ListPlaces
  <2>5. LaunchedInv' /\ HeardInv'
    BY <2>1, <2>2 DEF LaunchedInv, HeardInv, Upto, Working, ListPlaces, LaunchedPlaces
  <2> QED
    BY <2>3, <2>4, <2>5 DEF Awaits
<1> QED
  BY <1>1, <1>2, <1>3

\* The loop: what it launches is mapped and runs when the worker waits for it.
LEMMA LoopAwaits ==
    ASSUME AInv, WLoop \/ WRecheck \/ WLaunch \/ WWait \/ WWake \/ WExit
    PROVE  Awaits'
<1> USE DEF sharedVars, ownerVars, recordVars
<1>0. /\ TypeOK /\ Len(tasks) \in Nat /\ i \in Nat \ {0} /\ ~ abortFlag /\ notifyStatus = "STARTED"
      /\ wpc \in ListPlaces
      /\ LastLast(tasks) /\ statusMutex # "start"
      /\ \A k \in 1..Len(tasks) : tasks[k] \in Tasks
  <2>1. wpc \in ListPlaces
    BY DEF WLoop, WRecheck, WLaunch, WWait, WWake, WExit, ListPlaces
  <2>2. TypeOK /\ ~ abortFlag /\ statusMutex # "start" /\ notifyStatus = "STARTED" /\ LastLast(tasks)
    BY <2>1, PlacesApart DEF AInv, IInv, NoAbort, PlaceInv, ListPlaces, ListInv, Working
  <2>3. tasks \in Seq(Tasks)
    BY <2>2 DEF TypeOK
  <2>4. \A k \in 1..Len(tasks) : tasks[k] \in Tasks
    BY <2>3
  <2> QED
    BY <2>1, <2>2, <2>3, <2>4 DEF TypeOK
<1> USE DEF AInv, DelayInv, NoAbort, IndexInv, ListInv, Covers, LaunchedInv, HeardInv, LastInv, Working, Upto, BeforeLast,
            Awaits, ListPlaces, LaunchedPlaces, CheckPlaces
<1>1. CASE WLoop
  <2>1. /\ wpc = "loop" /\ taskMap \subseteq taskMap'
        /\ \/ i <= Len(tasks) /\ wpc' = "recheck" /\ tasks[i] \in taskMap'
           \/ i > Len(tasks) /\ wpc' = "exit"
        /\ UNCHANGED <<notifyStatus, abortFlag, taskStatus, scripts, statusMutex, up, maintenanceType, tasks, i>>
    BY <1>0, <1>1 DEF WLoop
  <2>2. \A t \in Tasks : Pending(t) => Pending(t)'
    BY <2>1 DEF Pending
  <2>3. DelayInv' /\ NoAbort' /\ IndexInv' /\ ListInv' /\ LastInv'
    BY <1>0, <2>1
  <2>4. Upto' = Upto
    BY <1>0, <2>1
  <2>5. LaunchedInv' /\ HeardInv'
    BY <1>0, <2>1, <2>2, <2>4
  <2> QED
    BY <2>3, <2>5
<1>2. CASE WRecheck
  <2>1. /\ wpc = "recheck" /\ wpc' = "launch"
        /\ UNCHANGED <<notifyStatus, abortFlag, taskStatus, taskMap, scripts, statusMutex, up,
                       maintenanceType, tasks, i>>
    BY <1>0, <1>2 DEF WRecheck
  <2> QED
    BY <1>0, <2>1 DEF Pending
<1>3. CASE WLaunch
  <2>1. /\ wpc = "launch" /\ wpc' = "prewait" /\ i <= Len(tasks)
        /\ UNCHANGED <<notifyStatus, abortFlag, taskStatus, taskMap, statusMutex, up, maintenanceType, tasks, i>>
    BY <1>3 DEF WLaunch
  <2>2. tasks[i] \in Tasks /\ tasks[i] \in taskMap
    BY <1>0, <2>1
  <2>3. /\ scripts'[tasks[i]] > 0
        /\ \A t \in Tasks : /\ t # tasks[i] => scripts'[t] = scripts[t]
                            /\ scripts[t] > 0 => scripts'[t] > 0
                            /\ scripts[t] = 0 => scripts'[t] <= 1
    BY <1>0, <1>3, <2>2, BoundAssumption DEF WLaunch, Run, TypeOK
  <2>4. /\ Pending(tasks[i])' /\ \A t \in Tasks : Pending(t) => Pending(t)'
    BY <2>1, <2>2, <2>3 DEF Pending
  <2>5. DelayInv' /\ NoAbort' /\ IndexInv' /\ ListInv'
    BY <1>0, <2>1, <2>4
  <2>6. LastInv'
    <3>1. Last \in Tasks /\ scripts[Last] = 0 /\ Last \notin taskStatus.complete
      BY <2>1 DEF Last, Tasks
    <3>2. i < Len(tasks) => tasks[i] # Last
      BY <1>0 DEF LastLast
    <3> QED
      BY <2>1, <2>3, <3>1, <3>2
  <2>7. LaunchedInv' /\ HeardInv'
    <3>1. Upto = i - 1 /\ Upto' = i
      BY <2>1
    <3>2. \A k \in 1..i : k = i \/ k \in 1..(i - 1)
      BY <1>0
    <3>3. \A k \in 1..(i - 1) : tasks[k] \in Tasks
      BY <1>0, <2>1
    <3>4. LaunchedInv'
      BY <2>1, <2>4, <3>1, <3>2, <3>3
    <3>5. HeardInv'
      BY <1>0, <2>1, <2>4, <3>1
    <3> QED
      BY <3>4, <3>5
  <2> QED
    BY <2>5, <2>6, <2>7
<1>4. CASE WWait
  <2>1. /\ wpc = "prewait" /\ wpc' = "waiting"
        /\ UNCHANGED <<notifyStatus, abortFlag, taskStatus, taskMap, scripts, statusMutex, up,
                       maintenanceType, tasks, i>>
    BY <1>4 DEF WWait
  <2> QED
    BY <1>0, <2>1 DEF Pending
<1>5. CASE WWake
  <2>1. /\ wpc = "woken" /\ wpc' = "loop" /\ i' = i + 1 /\ i <= Len(tasks)
        /\ UNCHANGED <<notifyStatus, abortFlag, taskStatus, taskMap, scripts, statusMutex, up,
                       maintenanceType, tasks>>
    BY <1>5 DEF WWake
  <2>2. Upto' = Upto /\ Upto = i
    BY <1>0, <2>1
  <2>3. DelayInv' /\ NoAbort' /\ IndexInv' /\ ListInv' /\ LastInv'
    BY <1>0, <2>1
  <2>4. LaunchedInv' /\ HeardInv'
    BY <1>0, <2>1, <2>2 DEF Pending
  <2> QED
    BY <2>3, <2>4
<1>6. CASE WExit
  <2>1. /\ wpc = "exit" /\ wpc' = "done" /\ ~ abortFlag'
        /\ UNCHANGED <<notifyStatus, taskStatus, taskMap, scripts, statusMutex, up, maintenanceType, tasks>>
    BY <1>6 DEF WExit
  <2>2. Upto' = Upto
    BY <2>1
  <2>3. DelayInv' /\ NoAbort' /\ IndexInv' /\ ListInv' /\ LastInv'
    BY <1>0, <2>1
  <2>4. LaunchedInv' /\ HeardInv'
    BY <1>0, <2>1, <2>2 DEF Pending
  <2> QED
    BY <2>3, <2>4
<1> QED
  BY <1>1, <1>2, <1>3, <1>4, <1>5, <1>6

\* Where a notification takes the worker, no more and no fewer tasks are launched.
LEMMA NotifiedUpto ==
    ASSUME AInv, wpc' \in {wpc, Notified}, UNCHANGED <<notifyStatus, tasks, i>>
    PROVE  /\ Upto' = Upto /\ Working' = Working /\ (BeforeLast' => BeforeLast)
           /\ wpc' = wpc \/ (wpc = "waiting" /\ wpc' = "woken") \/ (wpc = "ctxWaiting" /\ wpc' = "announce")
<1>1. wpc' = wpc \/ (wpc = "waiting" /\ wpc' = "woken") \/ (wpc = "ctxWaiting" /\ wpc' = "announce")
  BY DEF Notified
<1>2. CASE wpc' = wpc
  BY <1>2 DEF Upto, Working, BeforeLast
<1>3. CASE wpc = "waiting" /\ wpc' = "woken"
  BY <1>3 DEF Upto, Working, BeforeLast, LaunchedPlaces, ListPlaces, CheckPlaces
<1>4. CASE wpc = "ctxWaiting" /\ wpc' = "announce"
  <2>1. Upto = i - 1 /\ Upto' = i - 1
    BY <1>4 DEF Upto, LaunchedPlaces
  <2> QED
    BY <1>4, <2>1 DEF Working, BeforeLast, LaunchedPlaces, ListPlaces, CheckPlaces
<1> QED
  BY <1>1, <1>2, <1>3, <1>4

\* A wakeup, or more scripts, but no news for the handler.
LEMMA WokenAwaits ==
    ASSUME AInv, wpc' \in {wpc, Notified}, scripts'[Last] = scripts[Last],
           UNCHANGED <<notifyStatus, abortFlag, taskStatus, taskMap, statusMutex, up, maintenanceType,
                       tasks, i, loc>>,
           \A t \in Tasks : scripts[t] > 0 => scripts'[t] > 0
    PROVE  Awaits'
<1>0. /\ Len(tasks) \in Nat /\ i \in Nat \ {0}
      /\ \A k \in 1..Len(tasks) : tasks[k] \in Tasks
  <2>1. TypeOK /\ tasks \in Seq(Tasks)
    BY DEF AInv, IInv, TypeOK
  <2> QED
    BY <2>1 DEF TypeOK
<1>1. /\ Upto' = Upto /\ Working' = Working /\ (BeforeLast' => BeforeLast)
      /\ wpc' = wpc \/ (wpc = "waiting" /\ wpc' = "woken") \/ (wpc = "ctxWaiting" /\ wpc' = "announce")
  BY NotifiedUpto
<1>2. \A t \in Tasks : Pending(t) => Pending(t)'
  BY DEF Pending
<1>3. Working => Upto <= Len(tasks)
  BY <1>0 DEF AInv, IndexInv, ListInv, LastLast, Working, Upto, ListPlaces, LaunchedPlaces
<1>4. DelayInv' /\ NoAbort' /\ ListInv' /\ LastInv'
  BY <1>1 DEF AInv, DelayInv, NoAbort, ListInv, LastInv, CheckPlaces
<1>5. IndexInv'
  <2>1. wpc = "prewait" => tasks[i] \in Tasks
    BY <1>0, <1>3 DEF Working, Upto, ListPlaces, LaunchedPlaces
  <2>2. wpc = "waiting" => tasks[i] \in Tasks
    BY <1>0, <1>3 DEF Working, Upto, ListPlaces, LaunchedPlaces
  <2> QED
    BY <1>1, <1>2, <2>1, <2>2 DEF AInv, IndexInv, LaunchedPlaces
<1>6. \A k \in 1..Upto : Working => tasks[k] \in Tasks
  BY <1>0, <1>3 DEF Upto
<1>7. LaunchedInv' /\ HeardInv'
  BY <1>1, <1>2, <1>6 DEF AInv, LaunchedInv, HeardInv
<1> QED
  BY <1>4, <1>5, <1>7 DEF Awaits

\* The handler's completion check: it takes the mutex exactly when the last task is complete.
LEMMA CheckTakes ==
    ASSUME statusMutex = "free", CheckCompleted
    PROVE  /\ statusMutex' \in {"free", "event"}
           /\ statusMutex' = "event" <=> taskStatus'.complete = Tasks
  BY DEF CheckCompleted

\* An event that is none of a script's end: nothing is complete that was not, but the check is made.
LEMMA CheckedAwaits ==
    ASSUME AInv, statusMutex = "free", CheckCompleted, taskMap \subseteq taskMap',
           UNCHANGED <<notifyStatus, abortFlag, taskStatus, up, maintenanceType, workerVars, scripts>>
    PROVE  Awaits'
<1> USE DEF workerVars
<1>0. /\ Len(tasks) \in Nat /\ i \in Nat \ {0}
      /\ \A k \in 1..Len(tasks) : tasks[k] \in Tasks
  <2>1. TypeOK /\ tasks \in Seq(Tasks)
    BY DEF AInv, IInv, TypeOK
  <2> QED
    BY <2>1 DEF TypeOK
<1>1. \A t \in Tasks : Pending(t) => Pending(t)'
  BY DEF Pending
<1>2. DelayInv' /\ NoAbort' /\ ListInv' /\ LastInv'
  BY CheckTakes DEF AInv, DelayInv, NoAbort, ListInv, LastInv, BeforeLast, Working
<1>3. Working => Upto <= Len(tasks)
  BY <1>0 DEF AInv, IndexInv, ListInv, LastLast, Working, Upto, ListPlaces, LaunchedPlaces
<1>4. IndexInv'
  <2>1. wpc \in {"prewait", "waiting"} => tasks[i] \in Tasks
    BY <1>0, <1>3 DEF Working, Upto, ListPlaces, LaunchedPlaces
  <2> QED
    BY <1>1, <2>1 DEF AInv, IndexInv
<1>5. \A k \in 1..Upto : Working => tasks[k] \in Tasks
  BY <1>0, <1>3 DEF Upto
<1>6. LaunchedInv'
  BY <1>1, <1>5 DEF AInv, LaunchedInv, Upto, Working
<1>7. HeardInv'
  BY CheckTakes DEF HeardInv
<1> QED
  BY <1>2, <1>4, <1>6, <1>7 DEF Awaits

\* The end of a script: its task is complete, or it was none the cycle still waits for.
LEMMA EndedAwaits ==
    ASSUME AInv, Undisturbed, NEW t \in Tasks, NEW outcome \in Outcomes(t), TaskEnded(t, outcome)
    PROVE  Awaits'
<1> DEFINE marked == t \in taskMap \/ outcome = "ABORTED"
<1>0. /\ TypeOK /\ Len(tasks) \in Nat /\ i \in Nat \ {0} /\ up /\ ~ abortFlag /\ notifyStatus = "STARTED"
      /\ statusMutex = "free" /\ wpc \notin {"recheck", "launch", "prewait"}
      /\ \A k \in 1..Len(tasks) : tasks[k] \in Tasks
  <2>1. TypeOK /\ tasks \in Seq(Tasks)
    BY DEF AInv, IInv, TypeOK
  <2> QED
    BY <2>1 DEF TypeOK, TaskEnded, Accepting, Listening, Undisturbed
<1>1. UNCHANGED <<notifyStatus, abortFlag, up, maintenanceType, tasks, i, loc>>
  BY DEF TaskEnded
<1>2. /\ scripts[t] > 0 /\ scripts'[t] = scripts[t] - 1
      /\ \A u \in Tasks : u # t => scripts'[u] = scripts[u]
      /\ \A u \in Tasks : scripts[u] \in Nat
  BY <1>0, BoundAssumption DEF TaskEnded, ScriptEnds, TypeOK
<1>3. /\ marked => /\ taskStatus'.complete = taskStatus.complete \cup {t} /\ taskMap' = taskMap \ {t}
                   /\ wpc' = Notified
      /\ ~ marked => UNCHANGED <<taskStatus, taskMap, wpc>>
  BY DEF TaskEnded
<1>4. wpc' \in {wpc, Notified}
  BY <1>3
<1>5. /\ Upto' = Upto /\ Working' = Working /\ (BeforeLast' => BeforeLast)
      /\ wpc' = wpc \/ (wpc = "waiting" /\ wpc' = "woken") \/ (wpc = "ctxWaiting" /\ wpc' = "announce")
  BY <1>1, <1>4, NotifiedUpto
<1>6. /\ statusMutex' \in {"free", "event"}
      /\ statusMutex' = "event" <=> taskStatus'.complete = Tasks
  BY <1>0, CheckTakes DEF TaskEnded
<1> HIDE DEF marked
<1>7. \A u \in Tasks : Pending(u) => Pending(u)' \/ (u = t /\ marked)
  BY <1>2, <1>3 DEF Pending, marked
<1>8. taskStatus.complete \subseteq taskStatus'.complete
  BY <1>3
<1>9. DelayInv' /\ NoAbort' /\ ListInv'
  <2>1. NoAbort'
    BY <1>0, <1>1, <1>6 DEF NoAbort
  <2>2. wpc' = "skipFirmware" => wpc = "skipFirmware"
    BY <1>5
  <2>3. Covers(tasks, taskStatus) => Covers(tasks, taskStatus)'
    BY <1>1, <1>8 DEF Covers
  <2>4. LastLast(tasks)' = LastLast(tasks)
    BY <1>1
  <2>5. DelayInv'
    BY <1>1, <1>5 DEF AInv, DelayInv, CheckPlaces
  <2> QED
    BY <1>1, <1>5, <1>8, <2>1, <2>2, <2>3, <2>4, <2>5 DEF AInv, ListInv
<1>10. Working => Upto <= Len(tasks)
  BY <1>0 DEF AInv, IndexInv, ListInv, LastLast, Working, Upto, ListPlaces, LaunchedPlaces
<1>11. IndexInv'
  <2>1. wpc = "waiting" => tasks[i] \in Tasks /\ Pending(tasks[i])
    BY <1>0, <1>10 DEF Working, Upto, ListPlaces, LaunchedPlaces, AInv, IndexInv
  <2>2. wpc' = "waiting" => ~ marked
    BY <1>3 DEF Notified
  <2>3. wpc' = "waiting" => Pending(tasks[i])'
    BY <1>1, <1>5, <1>7, <2>1, <2>2
  <2> QED
    BY <1>0, <1>1, <1>5, <2>3 DEF AInv, IndexInv, LaunchedPlaces
<1>12. LastInv'
  <2>1. Last \in Tasks
    BY DEF Last, Tasks
  <2>2. CASE t # Last
    BY <1>1, <1>2, <1>3, <1>5, <2>1, <2>2 DEF AInv, LastInv
  <2>3. CASE t = Last
    <3>1. scripts[Last] = 1 /\ scripts'[Last] = 0 /\ ~ BeforeLast
      BY <1>2, <2>3 DEF AInv, LastInv
    <3> QED
      BY <1>5, <3>1 DEF LastInv
  <2> QED
    BY <2>2, <2>3
<1>13. \A k \in 1..Upto : Working => tasks[k] \in Tasks
  BY <1>0, <1>10 DEF Upto
<1>14. LaunchedInv'
  BY <1>1, <1>3, <1>5, <1>7, <1>8, <1>13 DEF AInv, LaunchedInv
<1>15. HeardInv'
  BY <1>6 DEF HeardInv
<1> QED
  BY <1>9, <1>11, <1>12, <1>14, <1>15 DEF Awaits

\* Outside a started cycle the end of a script changes nothing but the scripts that run.
LEMMA IgnoredAwaits ==
    ASSUME AInv, NEW t \in Tasks, TaskEndIgnored(t)
    PROVE  Awaits'
<1>1. /\ notifyStatus # "STARTED" /\ TypeOK
      /\ UNCHANGED <<notifyStatus, abortFlag, taskStatus, taskMap, statusMutex, up, maintenanceType, wpc,
                     tasks, i, loc>>
  BY DEF TaskEndIgnored, Listening, Accepting, AInv, NoAbort, IInv, sharedVars, ownerVars, workerVars
<1>2. wpc \notin TaskPlaces /\ ~ Working
  BY <1>1, PlacesApart DEF AInv, IInv, PlaceInv, Working
<1>3. scripts'[Last] <= scripts[Last] /\ scripts'[Last] \in Nat /\ scripts[Last] \in Nat
  BY <1>1, BoundAssumption DEF TaskEndIgnored, ScriptEnds, TypeOK, Last, Tasks
<1>4. DelayInv' /\ NoAbort' /\ ListInv' /\ IndexInv'
  BY <1>1, <1>2, PlacesApart DEF AInv, DelayInv, NoAbort, ListInv, IndexInv, Working, ListPlaces, LaunchedPlaces
<1>5. LastInv'
  BY <1>1, <1>3 DEF AInv, LastInv, BeforeLast
<1> QED
  BY <1>1, <1>2, <1>4, <1>5 DEF Awaits, LaunchedInv, HeardInv, Working

LEMMA EventAwaits ==
    ASSUME AInv, Undisturbed, EventStep
    PROVE  Awaits'
<1> USE DEF sharedVars, ownerVars, recordVars, workerVars
<1>1. ASSUME NEW t \in Tasks, Report(t) \/ ScriptDies(t) PROVE Awaits'
  BY <1>1, EndedAwaits, IgnoredAwaits DEF Report, ScriptDies, Undisturbed
<1>2. ASSUME NEW kind \in InfoEvents, NEW t \in Tasks, InfoEvent(kind, t) PROVE Awaits'
  BY <1>2, CheckedAwaits DEF InfoEvent, Accepting, Listening
<1>3. CASE NewStartTime
  BY <1>3, CheckedAwaits DEF NewStartTime, Listening
<1>4. CASE InternetConnected
  <2>1. /\ scripts'[Last] = scripts[Last] /\ \A t \in Tasks : scripts[t] > 0 => scripts'[t] > 0
    BY <1>4, BoundAssumption DEF InternetConnected, Run, CriticalTasks, Last, Tasks, AInv, IInv, TypeOK
  <2> QED
    BY <1>4, <2>1, WokenAwaits DEF InternetConnected
<1>5. CASE ContextUpdated
  BY <1>5, WokenAwaits DEF ContextUpdated
<1>6. CASE EndCycle
  <2>1. /\ wpc' = "none" /\ statusMutex = "event" /\ statusMutex' = "free" /\ thread' = FALSE
        /\ UNCHANGED <<abortFlag, taskStatus, taskMap, scripts, maintenanceType, up, tasks, i, loc>>
    BY <1>6 DEF EndCycle
  <2>2. scripts[Last] = 0
    BY <2>1 DEF AInv, NoAbort, LastInv, Last, Tasks
  <2>3. DelayInv' /\ NoAbort' /\ ListInv' /\ IndexInv' /\ LastInv'
    BY <2>1, <2>2 DEF AInv, DelayInv, NoAbort, ListInv, IndexInv, LastInv, BeforeLast, Working, ListPlaces, LaunchedPlaces,
                      CheckPlaces
  <2> QED
    BY <2>1, <2>3 DEF Awaits, LaunchedInv, HeardInv, Working, ListPlaces
<1> QED
  BY <1>1, <1>2, <1>3, <1>4, <1>5, <1>6 DEF EventStep

LEMMA CallAwaits ==
    ASSUME AInv, Undisturbed, CallStep
    PROVE  Awaits'
<1> USE DEF sharedVars, ownerVars, recordVars, workerVars
<1>1. CASE StartMaintenance
  <2>1. /\ notifyStatus # "STARTED" /\ unsolicitedComplete /\ statusMutex' = "start" /\ up /\ ~ abortFlag'
        /\ taskStatus'.complete = {"DCM"}
        /\ wpc # "begin"
        /\ UNCHANGED <<notifyStatus, taskMap, scripts, up, wpc, tasks, i, loc>>
    BY <1>1 DEF StartMaintenance, RequestAccepted, Listening, Undisturbed
  <2>2. TypeOK /\ wpc \in {"none", "offlineTail", "done"}
    <3>1. wpc \notin TaskPlaces
      BY <2>1 DEF AInv, IInv, PlaceInv
    <3>2. wpc \notin CheckPlaces
      <4>1. SUFFICES ASSUME wpc \in CheckPlaces PROVE FALSE
        OBVIOUS
      <4>2. loc.delay /\ maintenanceType = "UNSOLICITED"
        BY <2>1, <4>1 DEF AInv, DelayInv, IInv, PlaceInv
      <4> QED
        BY <2>1, <4>1, <4>2 DEF AInv, IInv, BootCycleFirst, CheckPlaces
    <3> QED
      BY <2>1, <3>1, <3>2 DEF AInv, IInv, TypeOK, Places
  <2>3. Last # "DCM"
    BY DEF Last
  <2>4. DelayInv' /\ NoAbort' /\ ListInv' /\ IndexInv' /\ LastInv'
    BY <2>1, <2>2, <2>3 DEF AInv, DelayInv, NoAbort, ListInv, IndexInv, LastInv, BeforeLast, Working, ListPlaces,
                            LaunchedPlaces, CheckPlaces
  <2> QED
    BY <2>1, <2>2, <2>4 DEF Awaits, LaunchedInv, HeardInv, Working, ListPlaces
<1>2. CASE StartJoined
  <2>1. /\ statusMutex = "start" /\ Joined /\ wpc' = "begin" /\ statusMutex' = "free"
        /\ UNCHANGED <<notifyStatus, abortFlag, taskStatus, taskMap, scripts, up, maintenanceType, tasks, i, loc>>
    BY <1>2 DEF StartJoined
  <2>2. Last \notin taskStatus.complete /\ notifyStatus # "STARTED" /\ wpc \in {"none", "done"}
    BY <2>1 DEF AInv, NoAbort, IInv, ThreadInv, Joined
  <2>3. scripts[Last] = 0
    BY <2>2 DEF AInv, LastInv
  <2>4. DelayInv' /\ NoAbort' /\ ListInv' /\ IndexInv' /\ LastInv'
    BY <2>1, <2>2, <2>3 DEF AInv, DelayInv, NoAbort, ListInv, IndexInv, LastInv, BeforeLast, Working, ListPlaces,
                            LaunchedPlaces, CheckPlaces
  <2> QED
    BY <2>1, <2>4 DEF Awaits, LaunchedInv, HeardInv, Working, ListPlaces
<1>3. CASE StopMaintenance("stop") \/ StopMaintenance("deinit") \/ StopJoined \/ Initialize
  BY <1>3 DEF StopMaintenance, StopJoined, Initialize, Undisturbed, AInv, NoAbort
<1> QED
  BY <1>1, <1>2, <1>3 DEF CallStep

LEMMA StepAInv == Undisturbed /\ AInv /\ [Next]_vars => AInv'
<1> SUFFICES ASSUME Undisturbed, AInv, [Next]_vars PROVE AInv'
  OBVIOUS
<1>1. IInv'
  BY StepInv DEF AInv
<1>2. Awaits'
  <2>1. CASE WorkerStep
    <3>1. CASE WBuild \/ WSkipFirmware \/ WLock
      BY <3>1, ListAwaits
    <3>2. CASE WLoop \/ WRecheck \/ WLaunch \/ WWait \/ WWake \/ WExit
      BY <3>2, LoopAwaits
    <3>3. CASE WBegin \/ WActivation \/ WNetwork \/ WIdentity \/ WKnowWhoAmI \/ WDecide \/ WContextWait
               \/ WAnnounce \/ WOffline \/ WOfflineTail
      <4>1. wpc \in {"begin", "offlineTail"} \cup CheckPlaces
        BY <3>3 DEF WBegin, WActivation, WNetwork, WIdentity, WKnowWhoAmI, WDecide, WContextWait,
                    WAnnounce, WOffline, WOfflineTail, CheckPlaces
      <4> QED
        BY <2>1, <4>1, ChecksAwait
    <3> QED
      BY <2>1, <3>1, <3>2, <3>3 DEF WorkerStep
  <2>2. CASE WSpurious
    BY <2>2, WokenAwaits DEF WSpurious, sharedVars, ownerVars
  <2>3. CASE EventStep
    BY <2>3, EventAwaits
  <2>4. CASE CallStep
    BY <2>4, CallAwaits
  <2>5. CASE UNCHANGED vars
    BY <2>5, WokenAwaits DEF vars, sharedVars, ownerVars, workerVars
  <2> QED
    BY <2>1, <2>2, <2>3, <2>4, <2>5 DEF Next, EventStep, CallStep
<1> QED
  BY <1>1, <1>2 DEF AInv, Awaits

\* The invariant answers for the waits.
LEMMA AInvAnswers == AInv => SomebodyToWaitFor
<1> SUFFICES ASSUME AInv PROVE SomebodyToWaitFor
  OBVIOUS
<1>1. /\ TypeOK /\ tasks \in Seq(Tasks) /\ Len(tasks) \in Nat /\ i \in Nat \ {0}
      /\ \A k \in 1..Len(tasks) : tasks[k] \in Tasks
  <2>1. TypeOK /\ tasks \in Seq(Tasks)
    BY DEF AInv, IInv, TypeOK
  <2> QED
    BY <2>1 DEF TypeOK
<1>2. ASSUME wpc = "waiting" PROVE statusMutex = "free" /\ Pending(tasks[i])
  <2>1. Pending(tasks[i]) /\ i <= Len(tasks) /\ LastLast(tasks)
    BY <1>2 DEF AInv, IndexInv, ListInv, Working, ListPlaces, LaunchedPlaces
  <2>2. statusMutex # "start"
    BY <1>2 DEF AInv, NoAbort
  <2>3. statusMutex # "event"
    <3>1. SUFFICES ASSUME statusMutex = "event" PROVE FALSE
      OBVIOUS
    <3>2. Last \in taskStatus.complete /\ scripts[Last] = 0
      BY <3>1 DEF AInv, NoAbort, LastInv, Last, Tasks
    <3>3. ~ (i < Len(tasks))
      BY <1>2, <3>2 DEF AInv, LastInv, BeforeLast, LaunchedPlaces
    <3>4. tasks[i] = Last
      BY <1>1, <2>1, <3>3 DEF LastLast
    <3> QED
      BY <2>1, <3>2, <3>4 DEF Pending
  <2> QED
    BY <2>1, <2>2, <2>3 DEF AInv, NoAbort
<1>3. ASSUME wpc = "done", notifyStatus = "STARTED", statusMutex # "event"
      PROVE  \E t \in Tasks : Pending(t)
  <2>1. Working /\ Upto = Len(tasks) /\ Len(tasks) > 0 /\ Covers(tasks, taskStatus)
    BY <1>3 DEF Working, Upto, LaunchedPlaces, AInv, ListInv, LastLast
  <2>2. CASE taskStatus.complete = Tasks
    BY <1>1, <1>3, <2>1, <2>2 DEF AInv, HeardInv
  <2>3. CASE taskStatus.complete # Tasks
    <3>1. PICK t \in Tasks : t \notin taskStatus.complete
      BY <1>1, <2>3 DEF TypeOK, TaskBits
    <3>2. PICK k \in 1..Len(tasks) : tasks[k] = t
      BY <2>1, <3>1 DEF Covers
    <3> QED
      BY <2>1, <3>1, <3>2 DEF AInv, LaunchedInv
  <2> QED
    BY <2>2, <2>3
<1> QED
  BY <1>2, <1>3 DEF SomebodyToWaitFor

\* In a started cycle the worker never waits for a script that has reported, nor does a thread
\* join it while it waits; and when it is through there is a script, or the handler, to end the
\* cycle.  This is what task_thread.wait(), without a predicate, relies on.
THEOREM NobodyWaitsInVain ==
    ASSUME Undisturbed
    PROVE  Spec => []SomebodyToWaitFor
<1>1. AInv /\ [Next]_vars => AInv'
  BY StepAInv
<1> QED
  BY <1>1, InitAInv, AInvAnswers, PTL DEF Spec
=============================================================================
