---------------------------- MODULE SiftBackend ----------------------------
(***************************************************************************)
(* The thread of SiftBackend (ActionLoop): it takes events from its queue, *)
(* makes the store and the uploader as soon as their configuration is      *)
(* there, and writes events to the store once everything is valid.         *)
(*                                                                         *)
(* Of SiftConfig only its verdicts are kept: whether GetAttributes() finds *)
(* all it needs and whether the end point's url and key are known.  They   *)
(* come from other plugins and change when those say so.                   *)
(***************************************************************************)
EXTENDS SiftUploader

VARIABLES
    bpc,         \* where ActionLoop() is
    bActions,    \* mActionQueue: events, and shutdown
    bAction,     \* action
    bEvents,     \* mEventQueue
    configValid, \* configValid
    config       \* mConfigPtr and what it would answer

backendVars == <<bpc, bActions, bAction, bEvents, configValid>>

Shutdown == 0  \* ACTION_TYPE_SHUTDOWN; events are numbered from 1
NoAction == [type |-> "none"]

NoConfig == [made |-> FALSE, attributes |-> FALSE, endPoint |-> FALSE]

BackendInit ==
    /\ bpc = "wait" /\ bActions = <<>> /\ bAction = NoAction /\ bEvents = <<>>
    /\ configValid = FALSE /\ config = NoConfig

BackendRestart ==
    /\ bpc' = "wait" /\ bActions' = <<>> /\ bAction' = NoAction /\ bEvents' = <<>>
    /\ configValid' = FALSE /\ config' = NoConfig

\* Configure(): a new SiftConfig, that has to find everything anew.
Configure == config' = [made |-> TRUE, attributes |-> FALSE, endPoint |-> FALSE]

\* The attributes and the end point become known, and attributes may go again: the session
\* id, values of AuthService and of the persistent store.
ConfigChanges ==
    /\ config.made
    /\ \/ config' = [config EXCEPT !.attributes = ~ @]
       \/ config' = [config EXCEPT !.endPoint = TRUE]
    /\ UNCHANGED <<backendVars, uploaderVars, storeVars, historyVars>>

\* The store is opened as soon as there is a configuration, which names its path, and the
\* uploader is made when the end point is known.
MakeParts ==
    /\ upc' = IF upc = "none" /\ config.made /\ config.endPoint THEN "window" ELSE upc
    /\ configValid' = (config.made /\ config.attributes /\ upc' # "none")

\* The first half of a turn, under mQueueMutex: an action, or "populate" when there is none
\* and the wait timed out, which it does only while the configuration is not valid.
Take ==
    /\ bpc = "wait"
    /\ \/ /\ bActions # <<>>
          /\ bAction' = [type |-> IF Head(bActions) = Shutdown THEN "shutdown" ELSE "send",
                         event |-> Head(bActions)]
          /\ bActions' = Tail(bActions)
       \/ /\ bActions = <<>> /\ ~ configValid
          /\ bAction' = [type |-> "populate"]
          /\ UNCHANGED bActions
    /\ MakeParts
    /\ bpc' = "act"
    /\ UNCHANGED <<bEvents, config, startIndex, eventCount, events, retryCount, stop, storeVars, historyVars>>

\* SendEventInternal() of the event, which may fail; or it is queued while the configuration
\* is not valid.
ActSend ==
    /\ bpc = "act" /\ bAction.type = "send"
    /\ IF configValid
       THEN UNCHANGED bEvents /\ (AddEntry(bAction.event) \/ UNCHANGED storeVars)
       ELSE bEvents' = Append(bEvents, bAction.event) /\ UNCHANGED storeVars
    /\ bpc' = "wait" /\ bAction' = NoAction
    /\ UNCHANGED <<bActions, configValid, config, uploaderVars, historyVars>>

\* Mutant: the event stays queued.
FlushOneKept ==
    /\ bpc = "act" /\ bAction.type = "populate"
    /\ configValid /\ bEvents # <<>>
    /\ AddEntry(Head(bEvents))
    /\ UNCHANGED <<bpc, bActions, bAction, bEvents, configValid, config, uploaderVars, historyVars>>

\* One queued event is written.
FlushOne ==
    /\ bpc = "act" /\ bAction.type = "populate"
    /\ configValid /\ bEvents # <<>>
    /\ AddEntry(Head(bEvents))
    /\ bEvents' = Tail(bEvents)
    /\ UNCHANGED <<bpc, bActions, bAction, configValid, config, uploaderVars, historyVars>>

\* All queued events are written, or one of them cannot be: try again in a while.
FlushEnd ==
    /\ bpc = "act" /\ bAction.type = "populate"
    /\ configValid' = (configValid /\ bEvents = <<>>)
    /\ bpc' = "wait" /\ bAction' = NoAction
    /\ UNCHANGED <<bActions, bEvents, config, uploaderVars, storeVars, historyVars>>

ActShutdown ==
    /\ bpc = "act" /\ bAction.type = "shutdown"
    /\ bpc' = "exited" /\ bAction' = NoAction
    /\ UNCHANGED <<bActions, bEvents, configValid, config, uploaderVars, storeVars, historyVars>>

ActionLoop == Take \/ ActSend \/ FlushOne \/ FlushEnd \/ ActShutdown

\* ~SiftBackend(), when the process ends: the thread is told and joined, and then the
\* uploader is told, by ~SiftUploader().
Destroy ==
    \/ /\ bpc # "exited" /\ \A i \in DOMAIN bActions : bActions[i] # Shutdown
       /\ bAction.type # "shutdown"
       /\ bActions' = Append(bActions, Shutdown)
       /\ UNCHANGED <<bpc, bAction, bEvents, configValid, config, uploaderVars, storeVars, historyVars>>
    \/ /\ bpc = "exited" /\ upc # "none" /\ ~ stop
       /\ stop' = TRUE
       /\ UNCHANGED <<backendVars, config, upc, startIndex, eventCount, events, retryCount, storeVars, historyVars>>
=============================================================================
