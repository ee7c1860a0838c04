-------------------------- MODULE MaintenanceCycle --------------------------
(***************************************************************************)
(* What the MaintenanceManager plugin promises the clients that listen to  *)
(* onMaintenanceStatusChange and call getMaintenanceActivityStatus: a      *)
(* cycle's tasks run only between MAINTENANCE_STARTED and the status that  *)
(* ends the cycle, one cycle at a time, and MAINTENANCE_COMPLETE means     *)
(* that every task of that cycle succeeded.  Module MaintenanceManager     *)
(* implements it.                                                          *)
(***************************************************************************)
CONSTANTS Tasks,   \* the tasks of a cycle
          Preset   \* the tasks that a requested cycle takes as done

VARIABLES status,    \* the last status posted
          working,   \* somebody is running the tasks of a cycle
          succeeded  \* the tasks that succeeded in this cycle

cycleVars == <<status, working, succeeded>>

CycleInit == status = "IDLE" /\ working = FALSE /\ succeeded = {}

Announce ==
    /\ ~working
    /\ status' = "STARTED"
    /\ UNCHANGED <<working, succeeded>>

BeginTasks ==
    /\ ~working /\ status = "STARTED"
    /\ working' = TRUE
    /\ UNCHANGED <<status, succeeded>>

Succeed(t) ==
    /\ status = "STARTED"
    /\ succeeded' = succeeded \cup {t}
    /\ UNCHANGED <<status, working>>

EndTasks ==
    /\ working
    /\ working' = FALSE
    /\ UNCHANGED <<status, succeeded>>

\* A client asks for a cycle, between two cycles.
Request ==
    /\ ~working /\ status # "STARTED"
    /\ succeeded' = Preset
    /\ UNCHANGED <<status, working>>

Finish(s) ==
    /\ ~working
    /\ s = "COMPLETE" => succeeded = Tasks
    /\ status' = s
    /\ UNCHANGED <<working, succeeded>>

\* A new activation of the plugin.
Restart == ~working /\ CycleInit'

CycleNext ==
    \/ Announce \/ BeginTasks \/ EndTasks \/ Request \/ Restart
    \/ \E t \in Tasks : Succeed(t)
    \/ \E s \in {"COMPLETE", "INCOMPLETE", "ERROR"} : Finish(s)

CycleSpec == CycleInit /\ [][CycleNext]_cycleVars
=============================================================================
