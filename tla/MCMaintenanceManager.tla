------------------------ MODULE MCMaintenanceManager ------------------------
(* The instances of MaintenanceManager for TLC, and what the repository's   *)
(* documents and comments claim of the cycle that the code does not keep.   *)
EXTENDS MaintenanceManager

\* Nobody holds m_statusMutex in m_thread.join() while the worker that is joined
\* has to take m_statusMutex: "if there is any active thread, join it before
\* executing the tasks from startMaintenance" (MaintenanceManager.cpp, startMaintenance()).
JoinedWorkerCanFinish ==
    statusMutex # "free" => /\ wpc # "offline"
                            /\ wpc = "begin" => WhoAmI /\ maintenanceType = "UNSOLICITED"
                            /\ wpc = "announce" => ~loc.delay
=============================================================================
