-------------------------- MODULE MCMaintenanceMode --------------------------
(* The instances of MaintenanceMode for TLC.                                 *)
EXTENDS MaintenanceMode

\* One request of each kind: accepted in full, and failed after the mode is set.
const_Requests == {[mode |-> "BACKGROUND", optOut |-> "IGNORE_UPDATE"],
                   [mode |-> "FOREGROUND", optOut |-> "invalid"]}
=============================================================================
