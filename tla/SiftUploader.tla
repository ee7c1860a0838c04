---------------------------- MODULE SiftUploader ----------------------------
(***************************************************************************)
(* The thread of SiftUploader: it waits for a random time, collects a batch*)
(* of events from the store, posts it to the end point until it is         *)
(* answered, and removes the batch.                                        *)
(*                                                                         *)
(* mUploaderState and the place inside Run() are the one variable upc.     *)
(* Waiting times are left out: a wait may end whenever it likes.  What is  *)
(* overwritten before it is read again is forgotten after its last use.    *)
(***************************************************************************)
EXTENDS LocalStore

CONSTANTS
    MaxEventsInPost,  \* the size of a batch; 0 is no bound
    MaxRetries        \* posts that fail before the retry count starts again

ASSUME UploaderAssumption == MaxEventsInPost \in Nat /\ MaxRetries \in Nat

VARIABLES
    upc,         \* where Run() is; "none" before there is an uploader
    startIndex,  \* mEventStartIndex, and startIndex in CollectEventsFromAnalyticsStore()
    eventCount,  \* eventCount in CollectEventsFromAnalyticsStore()
    events,      \* mEvents, as the ids of its rows
    retryCount,  \* mCurrentRetryCount
    stop,        \* mStop
    answered,    \* history: the rows that the end point took or refused for good
    repeatable   \* history: those of them that stayed in the table by an accident

uploaderVars == <<upc, startIndex, eventCount, events, retryCount, stop>>
historyVars == <<answered, repeatable>>

UploaderPlaces == {"none", "window", "count", "get", "post", "retry", "remove", "exited"}

UploaderInit ==
    /\ upc = "none" /\ startIndex = 0 /\ eventCount = 0 /\ events = {}
    /\ retryCount = 0 /\ stop = FALSE

\* The same in a process that starts again.
UploaderRestart ==
    /\ upc' = "none" /\ startIndex' = 0 /\ eventCount' = 0 /\ events' = {}
    /\ retryCount' = 0 /\ stop' = FALSE

\* Mutant: the stop is not looked at.
WindowDeaf ==
    /\ upc = "window"
    /\ upc' = "count"
    /\ UNCHANGED <<startIndex, eventCount, events, retryCount, stop, storeVars, historyVars>>

\* RANDOMISATION_WINDOW_WAIT_STATE
Window ==
    /\ upc = "window"
    /\ upc' = IF stop THEN "exited" ELSE "count"
    /\ UNCHANGED <<startIndex, eventCount, events, retryCount, stop, storeVars, historyVars>>

\* The size of the next batch, of n rows that there are.
BatchSize(n) == IF MaxEventsInPost > 0 /\ n > MaxEventsInPost THEN MaxEventsInPost ELSE n

\* COLLECT_ANALYTICS, GetEventCount(): the first of the latest rows, and how many there are.
CollectCount ==
    /\ upc = "count"
    /\ \/ \E first \in Latest(EventsLimit) :
            /\ \A i \in Latest(EventsLimit) : first <= i
            /\ startIndex' = first
            /\ eventCount' = BatchSize(Cardinality(Latest(EventsLimit)))
            /\ upc' = "get"
       \/ upc' = "window" /\ UNCHANGED <<startIndex, eventCount>>  \* no row, or no answer
    /\ UNCHANGED <<events, retryCount, stop, storeVars, historyVars>>

\* COLLECT_ANALYTICS, GetEvents().  Rows may have been added in between.
CollectEvents ==
    /\ upc = "get"
    /\ \/ events' = GetEntries(startIndex, eventCount) /\ upc' = "post" /\ UNCHANGED startIndex
       \/ events' = {} /\ upc' = "window" /\ startIndex' = 0  \* no answer
    /\ eventCount' = 0
    /\ UNCHANGED <<retryCount, stop, storeVars, historyVars>>

\* POST_ANALYTICS: 200, or 400 when the end point refuses the events.
PostAnswered ==
    /\ upc = "post"
    /\ answered' = answered \cup events
    /\ upc' = "remove"
    /\ UNCHANGED <<startIndex, eventCount, events, retryCount, stop, storeVars, repeatable>>

\* Mutant: one retry too many.
RetriesDoneLate == retryCount > MaxRetries

RetriesDone == retryCount = MaxRetries

\* POST_ANALYTICS: any other answer, or none.  When the retries are used up the state
\* is left at POST_ANALYTICS, and the same batch is posted again.
PostFailed ==
    /\ upc = "post"
    /\ IF RetriesDone
       THEN retryCount' = 0 /\ UNCHANGED upc
       ELSE upc' = "retry" /\ UNCHANGED retryCount
    /\ UNCHANGED <<startIndex, eventCount, events, stop, storeVars, historyVars>>

\* PerformWaitIfRetryNeeded(): a stop ends the wait, but not Run().
RetryWait ==
    /\ upc = "retry"
    /\ retryCount' = IF stop THEN retryCount ELSE retryCount + 1
    /\ upc' = "post"
    /\ UNCHANGED <<startIndex, eventCount, events, stop, storeVars, historyVars>>

\* Mutant: one row too many.
LastOfBatchOffByOne == startIndex + Cardinality(events)

\* The last row that RemoveEvents() is told to remove.
LastOfBatch == startIndex + Cardinality(events) - 1

\* RemoveEvents() after an answer.  The batch is posted again if that fails.
Remove ==
    /\ upc = "remove"
    /\ upc' = "window" /\ startIndex' = 0 /\ events' = {}
    /\ \/ RemoveEntries(startIndex, LastOfBatch) /\ UNCHANGED repeatable
       \/ repeatable' = repeatable \cup events /\ UNCHANGED storeVars
    /\ UNCHANGED <<eventCount, retryCount, stop, answered>>

Uploader ==
    \/ Window \/ CollectCount \/ CollectEvents
    \/ PostAnswered \/ PostFailed \/ RetryWait \/ Remove
-----------------------------------------------------------------------------
\* A row leaves the table only after the end point has answered a post with its event:
\* RemoveEvents(), told a place and a number, removes nothing else, whatever was added since
\* the batch was collected or was left over around it.
KeptUntilAnswered == \A i \in 1..Len(data) : i \in rows \/ i \in answered

\* The row of an answered event leaves the table, unless its removal fails or the process
\* ends before.
DeletedWhenAnswered ==
    \A i \in rows \cap answered : i \in repeatable \/ (upc = "remove" /\ i \in events)

\* That is so as long as there never were more rows than the limit: the ids of a batch then
\* have no gap, and RemoveEvents() is told the last of them.
DeletedWithinLimit == ~ crowded => DeletedWhenAnswered
=============================================================================
