----------------------------- MODULE Analytics -----------------------------
(***************************************************************************)
(* The Analytics plugin: clients' events pass the thread of                *)
(* AnalyticsImplementation, which holds back those without an epoch time   *)
(* until the system time is ready, then SiftBackend and its store, and are *)
(* uploaded by SiftUploader.                                               *)
(*                                                                         *)
(* The plugin may be deactivated and activated again in one process, which *)
(* keeps SiftBackend (a static object); the process may end, or be killed  *)
(* at any point, and starts again with the store as it was.                *)
(***************************************************************************)
EXTENDS SiftBackend

CONSTANTS
    NumEvents,  \* how many events clients send
    Dated,      \* those that come with an epoch time
    Restarts,   \* how often the process starts again
    Activations \* how often the plugin is activated

ASSUME AnalyticsAssumption ==
    /\ NumEvents \in Nat /\ Restarts \in Nat /\ Activations \in Nat
    /\ Dated \subseteq 1..NumEvents

VARIABLES
    active,     \* mAnalytics # nullptr
    fpc,        \* where AnalyticsImplementation::ActionLoop() is; "none" without one
    actions,    \* mActionQueue
    eventQueue, \* mEventQueue
    timeValid,  \* mSysTimeValid
    sent,       \* events sent so far: 1..sent
    restarts, activations

frontVars == <<active, fpc, actions, eventQueue, timeValid>>
countVars == <<sent, restarts, activations>>
vars == <<storeVars, uploaderVars, historyVars, backendVars, config, frontVars, countVars>>
belowVars == <<storeVars, uploaderVars, historyVars, backendVars, config>>

Events == 1..NumEvents
TimeReady == NumEvents + 1  \* ACTION_TYPE_SET_TIME_READY in the front's queue

\* The object of AnalyticsImplementation, new or gone, and its thread.
FrontFresh(pc) == fpc' = pc /\ actions' = <<>> /\ eventQueue' = <<>> /\ timeValid' = FALSE

Init ==
    /\ StoreInit /\ UploaderInit /\ BackendInit
    /\ active = FALSE /\ fpc = "none" /\ actions = <<>> /\ eventQueue = <<>> /\ timeValid = FALSE
    /\ answered = {} /\ repeatable = {}
    /\ sent = 0 /\ restarts = 0 /\ activations = 0

\* Initialize(): a new AnalyticsImplementation, and Configure() of the backend.
Activate ==
    /\ ~ active /\ fpc = "none" /\ bpc # "exited"
    /\ activations < Activations
    /\ activations' = activations + 1
    /\ active' = TRUE /\ FrontFresh("wait")
    /\ Configure
    /\ UNCHANGED <<storeVars, uploaderVars, historyVars, backendVars, sent, restarts>>

\* Deinitialize(): ~AnalyticsImplementation() queues the shutdown, and joins the thread.
Deactivate ==
    /\ active
    /\ active' = FALSE
    /\ actions' = Append(actions, Shutdown)
    /\ UNCHANGED <<fpc, eventQueue, timeValid, belowVars, countVars>>

SendEvent ==
    /\ active /\ sent < NumEvents
    /\ sent' = sent + 1
    /\ actions' = Append(actions, sent + 1)
    /\ UNCHANGED <<active, fpc, eventQueue, timeValid, belowVars, restarts, activations>>

\* Bound: it is called when the time is not known to be ready; a further call changes nothing.
SetTimeReady ==
    /\ active /\ ~ timeValid /\ \A i \in DOMAIN actions : actions[i] # TimeReady
    /\ actions' = Append(actions, TimeReady)
    /\ UNCHANGED <<active, fpc, eventQueue, timeValid, belowVars, countVars>>

\* Whether an event can go on: it has an epoch time, or one can be computed.
Datable(event) == timeValid \/ event \in Dated

\* SendEventToBackend()
ToBackend(event) == bActions' = Append(bActions, event)

\* An event leaves the queue, for the backend or to wait for the time.
TakeEvent ==
    /\ fpc = "wait" /\ actions # <<>> /\ Head(actions) \in Events
    /\ actions' = Tail(actions)
    /\ IF Datable(Head(actions))
       THEN ToBackend(Head(actions)) /\ UNCHANGED eventQueue
       ELSE eventQueue' = Append(eventQueue, Head(actions)) /\ UNCHANGED bActions
    /\ UNCHANGED <<active, fpc, timeValid, countVars, bpc, bAction, bEvents, configValid, config,
                   storeVars, uploaderVars, historyVars>>

TakeTimeReady ==
    /\ fpc = "wait" /\ actions # <<>> /\ Head(actions) = TimeReady
    /\ actions' = Tail(actions)
    /\ timeValid' = TRUE
    /\ fpc' = "flush"
    /\ UNCHANGED <<active, eventQueue, belowVars, countVars>>

\* Mutant: they go on waiting.
FlushNone ==
    /\ fpc = "flush" /\ fpc' = "wait"
    /\ UNCHANGED <<active, actions, eventQueue, timeValid, countVars, belowVars>>

\* The events that waited go on, one by one.
FlushWaiting ==
    /\ fpc = "flush"
    /\ IF eventQueue # <<>>
       THEN ToBackend(Head(eventQueue)) /\ eventQueue' = Tail(eventQueue) /\ UNCHANGED fpc
       ELSE fpc' = "wait" /\ UNCHANGED <<eventQueue, bActions>>
    /\ UNCHANGED <<active, actions, timeValid, countVars, bpc, bAction, bEvents, configValid, config,
                   storeVars, uploaderVars, historyVars>>

\* The thread ends, and with it the object and the events that waited for the time.
TakeShutdown ==
    /\ fpc = "wait" /\ actions # <<>> /\ Head(actions) = Shutdown
    /\ FrontFresh("none")
    /\ UNCHANGED <<active, belowVars, countVars>>

Front == TakeEvent \/ TakeTimeReady \/ FlushWaiting \/ TakeShutdown

\* The process ends in order: the plugin is gone, and static objects are destroyed.
Exit == ~ active /\ fpc = "none" /\ Destroy /\ UNCHANGED <<frontVars, countVars>>

\* The process is there again, after its end or after it was killed anywhere.
Restart ==
    /\ restarts < Restarts
    /\ restarts' = restarts + 1
    /\ UploaderRestart /\ BackendRestart /\ active' = FALSE /\ FrontFresh("none")
    /\ repeatable' = repeatable \cup (IF upc = "remove" THEN events ELSE {})
    /\ UNCHANGED <<storeVars, answered, sent, activations>>

Next ==
    \/ Activate \/ Deactivate \/ SendEvent \/ SetTimeReady \/ Front
    \/ (ConfigChanges \/ ActionLoop) /\ UNCHANGED <<frontVars, countVars>>
    \/ Uploader /\ UNCHANGED <<backendVars, config, frontVars, countVars>>
    \/ Exit \/ Restart

Spec == Init /\ [][Next]_vars
-----------------------------------------------------------------------------
\* Where events are before they are written.
InFront == {actions[i] : i \in DOMAIN actions} \cup {eventQueue[i] : i \in DOMAIN eventQueue}
InBackend == {bActions[i] : i \in DOMAIN bActions} \cup {bEvents[i] : i \in DOMAIN bEvents}
             \cup (IF bAction.type = "send" THEN {bAction.event} ELSE {})
InMemory == (InFront \cup InBackend) \cap Events

StoreTypeOK ==
    /\ rows \subseteq 1..Len(data) /\ data \in Seq(Events) /\ crowded \in BOOLEAN
    /\ answered \subseteq 1..Len(data) /\ repeatable \subseteq 1..Len(data)

UploaderTypeOK ==
    /\ upc \in UploaderPlaces /\ startIndex \in Nat /\ eventCount \in Nat
    /\ events \subseteq 1..Len(data) /\ retryCount \in 0..MaxRetries /\ stop \in BOOLEAN
    /\ upc = "retry" => retryCount # MaxRetries

BackendTypeOK ==
    /\ bpc \in {"wait", "act", "exited"} /\ bActions \in Seq(Events \cup {Shutdown})
    /\ bAction \in {NoAction, [type |-> "populate"]}
                  \cup [type : {"send"}, event : Events] \cup [type : {"shutdown"}, event : {Shutdown}]
    /\ bEvents \in Seq(Events) /\ configValid \in BOOLEAN
    /\ config \in [made : BOOLEAN, attributes : BOOLEAN, endPoint : BOOLEAN]

FrontTypeOK ==
    /\ active \in BOOLEAN /\ fpc \in {"none", "wait", "flush"} /\ timeValid \in BOOLEAN
    /\ actions \in Seq(Events \cup {Shutdown, TimeReady}) /\ eventQueue \in Seq(Events)
    /\ sent \in 0..NumEvents /\ restarts \in 0..Restarts /\ activations \in 0..Activations

TypeOK == StoreTypeOK /\ UploaderTypeOK /\ BackendTypeOK /\ FrontTypeOK

\* Where each event is, in the places of EventDelivery.
PlaceOf ==
    LET done == {data[i] : i \in answered}
        written == {data[i] : i \in DOMAIN data}
        twice == {data[i] : i \in {j \in DOMAIN data : \E k \in 1..(j - 1) : data[k] = data[j]}}
        kept == InMemory
    IN  [e \in Events |-> IF e \in twice THEN "twice"  \* EventDelivery has no such place
                          ELSE IF e \in done THEN "answered"
                          ELSE IF e \in written THEN "store"
                          ELSE IF e \in kept THEN "memory"
                          ELSE IF e <= sent THEN "lost" ELSE "client"]

Delivery == INSTANCE EventDelivery WITH place <- PlaceOf

\* Events are written at most once and lost only from memory: Analytics implements EventDelivery.
DeliverySpec == Delivery!Spec
\* Two places of a queue, and the same of two queues one behind the other: undated events
\* are there in the order they were sent in.
InOrder(q) ==
    \A i, j \in DOMAIN q : i < j /\ {q[i], q[j]} \subseteq Events \ Dated => q[i] < q[j]
Ahead(q, r) ==
    \A i \in DOMAIN q, j \in DOMAIN r : {q[i], r[j]} \subseteq Events \ Dated => q[i] < r[j]

\* Events without an epoch time do not overtake each other on their way to SiftBackend,
\* whenever the time is ready: not those that wait for it in a queue of their own, and not
\* those that come just after it.
UndatedKeepOrder ==
    /\ \A q \in {bActions, eventQueue, actions} : InOrder(q)
    /\ Ahead(bActions, eventQueue) /\ Ahead(bActions, actions) /\ Ahead(eventQueue, actions)

-----------------------------------------------------------------------------
\* Each thread runs.  Of what may fail, SF says that it does not fail for ever: the queries
\* of the uploader and the end point.
Above == UNCHANGED <<frontVars, countVars>>
Fairness ==
    /\ WF_vars(Front)
    /\ WF_vars(ActionLoop /\ Above) 
    /\ WF_vars(Uploader /\ UNCHANGED <<backendVars, config>> /\ Above)
    /\ SF_vars(PostAnswered /\ UNCHANGED <<backendVars, config>> /\ Above)
    /\ SF_vars(CollectCount /\ upc' = "get" /\ UNCHANGED <<backendVars, config>> /\ Above)
    /\ SF_vars(CollectEvents /\ upc' = "post" /\ UNCHANGED <<backendVars, config>> /\ Above)
    /\ SF_vars(Remove /\ rows' # rows /\ UNCHANGED <<backendVars, config>> /\ Above)

FairSpec == Spec /\ Fairness

\* The same, when the INSERT of a queued event does not fail for ever either.
FairFlushSpec == FairSpec /\ SF_vars(FlushOne /\ Above)

\* Each event in the store is answered while an uploader runs, also those that the window of
\* the latest EventsLimit rows left out when they were many.
StoredIsAnswered ==
    \A i \in Events :
        (i \in rows /\ upc # "none" /\ ~ stop) ~> (i \in answered \/ upc = "none" \/ stop)

\* Once the time is ready no event waits for it, in either queue.
NothingWaitsForTime ==
    \A e \in Events : (timeValid /\ e \in InFront) ~> (e \notin InFront)

\* ~SiftUploader() ends, as the end point answers some day: a stop does not end the posts.
UploaderStops == stop ~> (upc \in {"exited", "none"})

\* What ActionLoop() means with "Try to send the events from the queue": events that waited
\* for the configuration are written once it is there and stays.
QueuedIsWritten ==
    \A e \in Events :
        (\E i \in DOMAIN bEvents : bEvents[i] = e)
        ~> \/ \A i \in DOMAIN bEvents : bEvents[i] # e
           \/ ~ (config.made /\ config.attributes /\ config.endPoint)
           \/ bpc = "exited"
=============================================================================
