--------------------------- MODULE MaintenanceMode ---------------------------
(***************************************************************************)
(* The maintenance mode on top of the maintenance cycle: setMaintenanceMode*)
(* and the two keys of the record file that it writes.                     *)
(*                                                                         *)
(* setMaintenanceMode() holds m_callMutex, the mutex that the worker gives *)
(* up only while it waits for a script, but it reads m_notify_status       *)
(* without m_statusMutex.  So it is two steps: the check, and the writes.  *)
(***************************************************************************)
EXTENDS MaintenanceManager

CONSTANT Requests  \* the parameters clients send

ASSUME RequestAssumption ==
    Requests \subseteq [mode : {"FOREGROUND", "BACKGROUND"}, optOut : {"NONE", "IGNORE_UPDATE", "invalid"}]

VARIABLES
    mode,     \* g_currentMode
    record,   \* background_flag and softwareoptout in the record file
    request,  \* the call that is being served, or none
    allowed   \* why its mode may be set: there is no cycle ("idle"), the "rfc", or "no"

modeVars == <<mode, record, request, allowed>>

NoRequest == [mode |-> "none", optOut |-> "none"]

\* The record file is new: maintenanceManagerOnBootup() writes the opt-out "NONE".
ModeInit ==
    /\ Init
    /\ mode = "FOREGROUND"
    /\ record = [background |-> FALSE, optOut |-> "NONE"]
    /\ request = NoRequest
    /\ allowed = "no"

\* Mutant: the status is not looked at.
AlwaysAllowed(rfc) == "idle"

\* Why a change of the mode is allowed.
Allowance(rfc) == CASE notifyStatus # "STARTED" -> "idle"
                    [] notifyStatus = "STARTED" /\ rfc -> "rfc"
                    [] OTHER -> "no"

\* Mutant: checkValidOptOutModes() is not asked.
AnyOptOut(optOut) == TRUE

ValidOptOut(optOut) == optOut # "invalid"

\* Up to the check of the status.  In a started cycle the firmware-upgrade RFC may
\* still allow the change, if the application hears of it.
SetModeCheck ==
    /\ up /\ callMutex = "free"
    /\ \E r \in Requests, rfc, broadcast \in BOOLEAN :
          /\ request' = r
          /\ allowed' = Allowance(rfc /\ broadcast)
    /\ callMutex' = "client"
    /\ UNCHANGED <<sharedVars, net, workerVars, scripts, mode, record>>

\* The writes.  An invalid opt-out fails the call after its mode has been set.
SetModeWrite ==
    /\ callMutex = "client"
    /\ mode' = IF allowed # "no" THEN request.mode ELSE mode
    /\ record' = [background |-> IF allowed # "no" THEN request.mode = "BACKGROUND"
                                 ELSE record.background,
                  optOut     |-> IF ValidOptOut(request.optOut) THEN request.optOut ELSE record.optOut]
    /\ request' = NoRequest
    /\ allowed' = "no"
    /\ callMutex' = "free"
    /\ UNCHANGED <<sharedVars, net, workerVars, scripts>>

\* The maintenance cycle.  Only a new activation touches the mode: it becomes
\* FOREGROUND, whatever the record file says.
CycleStep ==
    /\ Next
    /\ mode' = IF ~up /\ up' THEN "FOREGROUND" ELSE mode
    /\ UNCHANGED <<record, request, allowed>>

ModeNext == CycleStep \/ SetModeCheck \/ SetModeWrite

ModeSpec == ModeInit /\ [][ModeNext]_<<vars, modeVars>>

\* A call that was checked goes on to its writes.  The worker shares m_callMutex with
\* calls that may come for ever: it is fair that it gets the mutex at last.
ModeFairSpec ==
    /\ ModeSpec
    /\ Fairness
    /\ WF_<<vars, modeVars>>(SetModeWrite)
    /\ SF_vars(WorkerStep)

-----------------------------------------------------------------------------
ModeTypeOK ==
    /\ mode \in {"FOREGROUND", "BACKGROUND"}
    /\ record \in [background : BOOLEAN, optOut : {"NONE", "IGNORE_UPDATE"}]
    /\ request \in Requests \cup {NoRequest}
    /\ allowed \in {"no", "idle", "rfc"}

\* From a cycle's first task on its mode changes only by the RFC, however long ago
\* the status was looked at: m_callMutex keeps the worker and the writes apart.
ModeFrozenDuringTasks ==
    [][mode' # mode /\ wpc \in TaskPlaces \ {"build", "skipFirmware", "lock"}
       => allowed = "rfc"]_<<vars, modeVars>>
=============================================================================
