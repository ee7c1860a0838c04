-------------------------- MODULE AnalyticsProofs --------------------------
(***************************************************************************)
(* Proofs about Analytics, for every number of events, every limit, size of*)
(* a batch and number of retries, and every number of restarts: types, that*)
(* nothing is deleted before it was answered, and that what was answered is*)
(* deleted while the store keeps within its limit.                         *)
(***************************************************************************)
EXTENDS Analytics, FiniteSetTheorems, TLAPS

(* Types.  The steps come in three groups: those of the plugin and its clients, those of *)
(* the backend's thread, and those of the uploader.                                      *)

FrontSteps == Activate \/ Deactivate \/ SendEvent \/ SetTimeReady \/ Front
BackendSteps == (ConfigChanges \/ ActionLoop) /\ Above
UploaderSteps == Uploader /\ UNCHANGED <<backendVars, config>> /\ Above

LEMMA Steps == Next <=> FrontSteps \/ BackendSteps \/ UploaderSteps \/ Exit \/ Restart
  BY DEF Next, FrontSteps, BackendSteps, UploaderSteps, Above

LEMMA Empty == ASSUME NEW S PROVE <<>> \in Seq(S)
  OBVIOUS

LEMMA Appended == ASSUME NEW S, NEW q \in Seq(S), NEW e \in S PROVE Append(q, e) \in Seq(S)
  OBVIOUS

LEMMA HeadAndTail ==
    ASSUME NEW S, NEW q \in Seq(S), q # <<>>
    PROVE  Head(q) \in S /\ Tail(q) \in Seq(S)
  OBVIOUS

LEMMA EventIds == Events \subseteq Nat /\ NumEvents \in Nat /\ Shutdown \notin Events /\ TimeReady \notin Events
  BY AnalyticsAssumption DEF Events, Shutdown, TimeReady

LEMMA InitTyping == Init => TypeOK
<1> SUFFICES ASSUME Init PROVE TypeOK
  OBVIOUS
<1>1. StoreTypeOK
  <2>1. data \in Seq(Events)
    BY Empty DEF Init, StoreInit
  <2> QED
    BY <2>1 DEF Init, StoreTypeOK, StoreInit
<1>2. UploaderTypeOK
  <2>1. retryCount \in 0..MaxRetries
    BY UploaderAssumption DEF Init, UploaderInit
  <2>2. upc \in UploaderPlaces
    BY DEF Init, UploaderInit, UploaderPlaces
  <2> QED
    BY <2>1, <2>2 DEF Init, UploaderTypeOK, UploaderInit
<1>3. BackendTypeOK
  <2>1. bActions \in Seq(Events \cup {Shutdown}) /\ bEvents \in Seq(Events)
    BY Empty DEF Init, BackendInit
  <2> QED
    BY <2>1 DEF Init, BackendTypeOK, BackendInit, NoConfig
<1>4. FrontTypeOK
  <2>1. actions \in Seq(Events \cup {Shutdown, TimeReady}) /\ eventQueue \in Seq(Events)
    BY Empty DEF Init
  <2>2. sent \in 0..NumEvents /\ restarts \in 0..Restarts /\ activations \in 0..Activations
    BY AnalyticsAssumption DEF Init
  <2>3. fpc \in {"none", "wait", "flush"} /\ active \in BOOLEAN /\ timeValid \in BOOLEAN
    BY DEF Init
  <2> QED
    BY <2>1, <2>2, <2>3 DEF FrontTypeOK
<1> QED
  BY <1>1, <1>2, <1>3, <1>4 DEF TypeOK

LEMMA StoreStutter ==
    ASSUME TypeOK, UNCHANGED <<storeVars, historyVars>>
    PROVE  StoreTypeOK'
  BY DEF TypeOK, StoreTypeOK, storeVars, historyVars

LEMMA UploaderStutter ==
    ASSUME TypeOK, UNCHANGED <<uploaderVars, storeVars>>
    PROVE  UploaderTypeOK'
  BY DEF TypeOK, UploaderTypeOK, uploaderVars, storeVars

LEMMA BackendStutter ==
    ASSUME TypeOK, UNCHANGED <<backendVars, config>>
    PROVE  BackendTypeOK'
  BY DEF TypeOK, BackendTypeOK, backendVars

LEMMA FrontStutter ==
    ASSUME TypeOK, UNCHANGED <<frontVars, countVars>>
    PROVE  FrontTypeOK'
  BY DEF TypeOK, FrontTypeOK, frontVars, countVars

LEMMA RowsFinite == TypeOK => rows \subseteq Nat /\ IsFiniteSet(rows)
<1> SUFFICES ASSUME TypeOK PROVE rows \subseteq Nat /\ IsFiniteSet(rows)
  OBVIOUS
<1>1. Len(data) \in Nat /\ rows \subseteq 1..Len(data)
  BY DEF TypeOK, StoreTypeOK
<1>2. IsFiniteSet(1..Len(data))
  BY <1>1, FS_Interval
<1>3. IsFiniteSet(rows)
  BY <1>1, <1>2, FS_Subset
<1>4. rows \subseteq Nat
  BY <1>1
<1> QED
  BY <1>3, <1>4

\* What goes to the backend's queue keeps its type.
LEMMA ToBackendTyping ==
    ASSUME TypeOK, NEW e \in Events, ToBackend(e),
           UNCHANGED <<bpc, bAction, bEvents, configValid, config>>
    PROVE  BackendTypeOK'
  BY DEF TypeOK, BackendTypeOK, ToBackend

\* An object of AnalyticsImplementation, new or gone, has empty queues.
LEMMA FreshTyping ==
    ASSUME NEW pc \in {"none", "wait", "flush"}, FrontFresh(pc)
    PROVE  /\ fpc' \in {"none", "wait", "flush"} /\ timeValid' \in BOOLEAN
           /\ actions' \in Seq(Events \cup {Shutdown, TimeReady}) /\ eventQueue' \in Seq(Events)
  BY Empty DEF FrontFresh

LEMMA FrontTyping ==
    ASSUME TypeOK, FrontSteps
    PROVE  TypeOK'
<1> USE EventIds
<1>1. CASE Activate
  <2>1. StoreTypeOK' /\ UploaderTypeOK'
    BY <1>1, StoreStutter, UploaderStutter DEF Activate
  <2>2. BackendTypeOK'
    BY <1>1 DEF Activate, Configure, TypeOK, BackendTypeOK, backendVars
  <2>3. FrontTypeOK'
    BY <1>1, FreshTyping, AnalyticsAssumption DEF Activate, TypeOK, FrontTypeOK
  <2> QED
    BY <2>1, <2>2, <2>3 DEF TypeOK
<1>2. CASE Deactivate \/ SendEvent \/ SetTimeReady
  <2>1. StoreTypeOK' /\ UploaderTypeOK' /\ BackendTypeOK'
    BY <1>2, StoreStutter, UploaderStutter, BackendStutter DEF Deactivate, SendEvent, SetTimeReady, belowVars
  <2>2. FrontTypeOK'
    <3>1. CASE Deactivate
      <4>1. actions' \in Seq(Events \cup {Shutdown, TimeReady})
        BY <3>1, Appended DEF Deactivate, TypeOK, FrontTypeOK
      <4> QED
        BY <3>1, <4>1 DEF Deactivate, TypeOK, FrontTypeOK, countVars
    <3>2. CASE SendEvent
      <4>1. sent' \in Events /\ sent' \in 0..NumEvents /\ sent' = sent + 1
        BY <3>2 DEF SendEvent, TypeOK, FrontTypeOK, Events
      <4>2. actions' \in Seq(Events \cup {Shutdown, TimeReady})
        BY <3>2, <4>1, Appended DEF SendEvent, TypeOK, FrontTypeOK
      <4> QED
        BY <3>2, <4>1, <4>2 DEF SendEvent, TypeOK, FrontTypeOK
    <3>3. CASE SetTimeReady
      <4>1. actions' \in Seq(Events \cup {Shutdown, TimeReady})
        BY <3>3, Appended DEF SetTimeReady, TypeOK, FrontTypeOK
      <4> QED
        BY <3>3, <4>1 DEF SetTimeReady, TypeOK, FrontTypeOK, countVars
    <3> QED
      BY <1>2, <3>1, <3>2, <3>3
  <2> QED
    BY <2>1, <2>2 DEF TypeOK
<1>3. CASE TakeEvent
  <2>1. StoreTypeOK' /\ UploaderTypeOK'
    BY <1>3, StoreStutter, UploaderStutter DEF TakeEvent
  <2>2. BackendTypeOK'
    <3>1. CASE Datable(Head(actions))
      BY <1>3, <3>1, ToBackendTyping DEF TakeEvent
    <3>2. CASE ~ Datable(Head(actions))
      BY <1>3, <3>2, BackendStutter DEF TakeEvent, backendVars
    <3> QED
      BY <3>1, <3>2
  <2>3. actions' \in Seq(Events \cup {Shutdown, TimeReady})
    BY <1>3, HeadAndTail DEF TakeEvent, TypeOK, FrontTypeOK
  <2>4. eventQueue' \in Seq(Events)
    BY <1>3, Appended DEF TakeEvent, TypeOK, FrontTypeOK
  <2> QED
    BY <1>3, <2>1, <2>2, <2>3, <2>4 DEF TakeEvent, TypeOK, FrontTypeOK, countVars
<1>4. CASE TakeTimeReady
  <2>1. StoreTypeOK' /\ UploaderTypeOK' /\ BackendTypeOK'
    BY <1>4, StoreStutter, UploaderStutter, BackendStutter DEF TakeTimeReady, belowVars
  <2>2. actions' \in Seq(Events \cup {Shutdown, TimeReady})
    BY <1>4, HeadAndTail DEF TakeTimeReady, TypeOK, FrontTypeOK
  <2> QED
    BY <1>4, <2>1, <2>2 DEF TakeTimeReady, TypeOK, FrontTypeOK, countVars
<1>5. CASE TakeShutdown
  <2>1. StoreTypeOK' /\ UploaderTypeOK' /\ BackendTypeOK'
    BY <1>5, StoreStutter, UploaderStutter, BackendStutter DEF TakeShutdown, belowVars
  <2> QED
    BY <1>5, <2>1, FreshTyping DEF TakeShutdown, TypeOK, FrontTypeOK, countVars
<1>6. CASE FlushWaiting
  <2>1. StoreTypeOK' /\ UploaderTypeOK'
    BY <1>6, StoreStutter, UploaderStutter DEF FlushWaiting
  <2>2. CASE eventQueue = <<>>
    <3>1. BackendTypeOK'
      BY <1>6, <2>2, BackendStutter DEF FlushWaiting, backendVars
    <3> QED
      BY <1>6, <2>1, <2>2, <3>1 DEF FlushWaiting, TypeOK, FrontTypeOK, countVars
  <2>3. CASE eventQueue # <<>>
    <3>1. Head(eventQueue) \in Events /\ Tail(eventQueue) \in Seq(Events)
      BY <2>3, HeadAndTail DEF TypeOK, FrontTypeOK
    <3>2. BackendTypeOK'
      BY <1>6, <2>3, <3>1, ToBackendTyping DEF FlushWaiting
    <3> QED
      BY <1>6, <2>1, <2>3, <3>1, <3>2 DEF FlushWaiting, TypeOK, FrontTypeOK, countVars
  <2> QED
    BY <2>2, <2>3
<1> QED
  BY <1>1, <1>2, <1>3, <1>4, <1>5, <1>6 DEF FrontSteps, Front

\* An INSERT keeps the types of the store, and of the uploader that looks at it.
LEMMA AddEntryTyping ==
    ASSUME TypeOK, NEW e \in Events, AddEntry(e), UNCHANGED <<uploaderVars, historyVars>>
    PROVE  StoreTypeOK' /\ UploaderTypeOK' /\ Len(data') = Len(data) + 1
<1>1. data' \in Seq(Events) /\ Len(data') = Len(data) + 1 /\ Len(data) \in Nat
  BY DEF AddEntry, TypeOK, StoreTypeOK
<1>2. 1..Len(data) \subseteq 1..Len(data') /\ Len(data) + 1 \in 1..Len(data')
  BY <1>1
<1>3. StoreTypeOK'
  BY <1>1, <1>2 DEF AddEntry, TypeOK, StoreTypeOK, historyVars
<1>4. UploaderTypeOK'
  BY <1>2 DEF TypeOK, UploaderTypeOK, uploaderVars
<1> QED
  BY <1>1, <1>3, <1>4

LEMMA BackendTyping ==
    ASSUME TypeOK, BackendSteps
    PROVE  TypeOK'
<1> USE EventIds
<1>0. FrontTypeOK'
  BY FrontStutter DEF BackendSteps, Above
<1>1. CASE ConfigChanges
  <2>1. StoreTypeOK' /\ UploaderTypeOK'
    BY <1>1, StoreStutter, UploaderStutter DEF ConfigChanges
  <2>2. BackendTypeOK'
    BY <1>1 DEF ConfigChanges, TypeOK, BackendTypeOK, backendVars
  <2> QED
    BY <1>0, <2>1, <2>2 DEF TypeOK
<1>2. CASE Take
  <2>1. StoreTypeOK'
    BY <1>2, StoreStutter DEF Take
  <2>2. UploaderTypeOK'
    BY <1>2 DEF Take, MakeParts, TypeOK, UploaderTypeOK, UploaderPlaces, storeVars
  <2>3. bActions' \in Seq(Events \cup {Shutdown})
    <3>1. bActions \in Seq(Events \cup {Shutdown})
      BY DEF TypeOK, BackendTypeOK
    <3>2. bActions # <<>> => Tail(bActions) \in Seq(Events \cup {Shutdown})
      BY <3>1, HeadAndTail
    <3> QED
      BY <1>2, <3>1, <3>2 DEF Take
  <2>4. BackendTypeOK'
    <3>1. CASE bActions # <<>>
      <4>1. Head(bActions) \in Events \cup {Shutdown}
        BY <3>1, HeadAndTail DEF TypeOK, BackendTypeOK
      <4>2. bAction' \in [type : {"send"}, event : Events] \cup [type : {"shutdown"}, event : {Shutdown}]
        BY <1>2, <3>1, <4>1 DEF Take
      <4> QED
        BY <1>2, <2>3, <4>2 DEF Take, MakeParts, TypeOK, BackendTypeOK
    <3>2. CASE bActions = <<>>
      BY <1>2, <2>3, <3>2 DEF Take, MakeParts, TypeOK, BackendTypeOK
    <3> QED
      BY <3>1, <3>2
  <2> QED
    BY <1>0, <2>1, <2>2, <2>4 DEF TypeOK
<1>3. CASE ActSend
  <2>1. bAction.event \in Events
    BY <1>3 DEF ActSend, TypeOK, BackendTypeOK, NoAction
  <2>2. StoreTypeOK' /\ UploaderTypeOK'
    BY <1>3, <2>1, AddEntryTyping, StoreStutter, UploaderStutter DEF ActSend
  <2>3. BackendTypeOK'
    BY <1>3, <2>1 DEF ActSend, TypeOK, BackendTypeOK
  <2> QED
    BY <1>0, <2>2, <2>3 DEF TypeOK
<1>4. CASE FlushOne
  <2>1. Head(bEvents) \in Events /\ Tail(bEvents) \in Seq(Events)
    BY <1>4, HeadAndTail DEF FlushOne, TypeOK, BackendTypeOK
  <2>2. StoreTypeOK' /\ UploaderTypeOK'
    BY <1>4, <2>1, AddEntryTyping DEF FlushOne
  <2>3. BackendTypeOK'
    BY <1>4, <2>1 DEF FlushOne, TypeOK, BackendTypeOK
  <2> QED
    BY <1>0, <2>2, <2>3 DEF TypeOK
<1>5. CASE FlushEnd \/ ActShutdown
  <2>1. StoreTypeOK' /\ UploaderTypeOK'
    BY <1>5, StoreStutter, UploaderStutter DEF FlushEnd, ActShutdown
  <2>2. BackendTypeOK'
    BY <1>5 DEF FlushEnd, ActShutdown, TypeOK, BackendTypeOK
  <2> QED
    BY <1>0, <2>1, <2>2 DEF TypeOK
<1> QED
  BY <1>1, <1>2, <1>3, <1>4, <1>5 DEF BackendSteps, ActionLoop

LEMMA UploaderTyping ==
    ASSUME TypeOK, UploaderSteps
    PROVE  TypeOK'
<1> USE EventIds, UploaderAssumption
<1>0. FrontTypeOK' /\ BackendTypeOK'
  BY FrontStutter, BackendStutter DEF UploaderSteps, Above
<1>1. CASE Window \/ PostFailed \/ RetryWait
  <2>1. StoreTypeOK'
    BY <1>1, StoreStutter DEF Window, PostFailed, RetryWait
  <2>2. upc' \in UploaderPlaces
    BY <1>1 DEF Window, PostFailed, RetryWait, TypeOK, UploaderTypeOK, UploaderPlaces
  <2>3. retryCount' \in 0..MaxRetries
    <3>1. CASE RetryWait
      BY <3>1 DEF RetryWait, TypeOK, UploaderTypeOK
    <3> QED
      BY <1>1, <3>1 DEF Window, PostFailed, TypeOK, UploaderTypeOK
  <2>4. upc' = "retry" => retryCount' # MaxRetries
    BY <1>1 DEF Window, PostFailed, RetryWait, RetriesDone, TypeOK, UploaderTypeOK
  <2>5. UploaderTypeOK'
    BY <1>1, <2>2, <2>3, <2>4 DEF Window, PostFailed, RetryWait, TypeOK, UploaderTypeOK, storeVars
  <2> QED
    BY <1>0, <2>1, <2>5 DEF TypeOK
<1>2. CASE CollectCount
  <2>1. StoreTypeOK'
    BY <1>2, StoreStutter DEF CollectCount
  <2>2. rows \subseteq Nat /\ IsFiniteSet(rows)
    BY RowsFinite
  <2>3. Latest(EventsLimit) \subseteq rows
    BY DEF Latest
  <2>4. startIndex' \in Nat
    BY <1>2, <2>2, <2>3 DEF CollectCount, TypeOK, UploaderTypeOK
  <2>5. eventCount' \in Nat
    <3>1. Cardinality(Latest(EventsLimit)) \in Nat
      BY <2>2, <2>3, FS_Subset, FS_CardinalityType
    <3> QED
      BY <1>2, <3>1 DEF CollectCount, BatchSize, TypeOK, UploaderTypeOK
  <2>6. upc' \in UploaderPlaces
    BY <1>2 DEF CollectCount, UploaderPlaces
  <2>7. UploaderTypeOK'
    BY <1>2, <2>4, <2>5, <2>6 DEF CollectCount, TypeOK, UploaderTypeOK, storeVars
  <2> QED
    BY <1>0, <2>1, <2>7 DEF TypeOK
<1>3. CASE CollectEvents
  <2>1. StoreTypeOK'
    BY <1>3, StoreStutter DEF CollectEvents
  <2>2. events' \subseteq 1..Len(data)'
    BY <1>3 DEF CollectEvents, GetEntries, TypeOK, StoreTypeOK, storeVars
  <2>3. upc' \in UploaderPlaces /\ startIndex' \in Nat
    BY <1>3 DEF CollectEvents, UploaderPlaces, TypeOK, UploaderTypeOK
  <2>4. UploaderTypeOK'
    BY <1>3, <2>2, <2>3 DEF CollectEvents, TypeOK, UploaderTypeOK
  <2> QED
    BY <1>0, <2>1, <2>4 DEF TypeOK
<1>4. CASE PostAnswered
  BY <1>0, <1>4 DEF PostAnswered, TypeOK, StoreTypeOK, UploaderTypeOK, UploaderPlaces, storeVars
<1>5. CASE Remove
  <2>1. CASE RemoveEntries(startIndex, LastOfBatch) /\ UNCHANGED repeatable
    BY <1>0, <1>5, <2>1 DEF Remove, RemoveEntries, TypeOK, StoreTypeOK, UploaderTypeOK, UploaderPlaces
  <2>2. CASE repeatable' = repeatable \cup events /\ UNCHANGED storeVars
    BY <1>0, <1>5, <2>2 DEF Remove, TypeOK, StoreTypeOK, UploaderTypeOK, UploaderPlaces, storeVars
  <2> QED
    BY <1>5, <2>1, <2>2 DEF Remove
<1> QED
  BY <1>1, <1>2, <1>3, <1>4, <1>5 DEF UploaderSteps, Uploader
LEMMA EndTyping ==
    ASSUME TypeOK, Exit \/ Restart
    PROVE  TypeOK'
<1> USE EventIds
<1>1. CASE Exit
  <2>1. StoreTypeOK' /\ FrontTypeOK'
    BY <1>1, StoreStutter, FrontStutter DEF Exit, Destroy
  <2>2. UploaderTypeOK'
    BY <1>1 DEF Exit, Destroy, TypeOK, UploaderTypeOK, uploaderVars, storeVars
  <2>3. BackendTypeOK'
    <3>1. bActions' \in Seq(Events \cup {Shutdown})
      <4>1. bActions \in Seq(Events \cup {Shutdown})
        BY DEF TypeOK, BackendTypeOK
      <4>2. Append(bActions, Shutdown) \in Seq(Events \cup {Shutdown})
        BY <4>1, Appended
      <4> QED
        BY <1>1, <4>1, <4>2 DEF Exit, Destroy, backendVars
    <3> QED
      BY <1>1, <3>1 DEF Exit, Destroy, TypeOK, BackendTypeOK, backendVars
  <2> QED
    BY <2>1, <2>2, <2>3 DEF TypeOK
<1>2. CASE Restart
  <2>1. StoreTypeOK'
    BY <1>2 DEF Restart, TypeOK, StoreTypeOK, UploaderTypeOK, storeVars
  <2>2. UploaderTypeOK'
    <3>1. retryCount' \in 0..MaxRetries
      BY <1>2, UploaderAssumption DEF Restart, UploaderRestart
    <3>2. upc' \in UploaderPlaces /\ upc' # "retry"
      BY <1>2 DEF Restart, UploaderRestart, UploaderPlaces
    <3> QED
      BY <1>2, <3>1, <3>2 DEF Restart, UploaderRestart, UploaderTypeOK
  <2>3. BackendTypeOK'
    <3>1. bActions' \in Seq(Events \cup {Shutdown}) /\ bEvents' \in Seq(Events)
      BY <1>2, Empty DEF Restart, BackendRestart
    <3> QED
      BY <1>2, <3>1 DEF Restart, BackendRestart, BackendTypeOK, NoConfig
  <2>4. FrontTypeOK'
    <3>1. restarts' \in 0..Restarts
      BY <1>2, AnalyticsAssumption DEF Restart, TypeOK, FrontTypeOK
    <3> QED
      BY <1>2, <3>1, FreshTyping DEF Restart, TypeOK, FrontTypeOK
  <2> QED
    BY <2>1, <2>2, <2>3, <2>4 DEF TypeOK
<1> QED
  BY <1>1, <1>2

LEMMA TypeStep == TypeOK /\ [Next]_vars => TypeOK'
<1> SUFFICES ASSUME TypeOK, [Next]_vars PROVE TypeOK'
  OBVIOUS
<1>1. CASE UNCHANGED vars
  <2>1. StoreTypeOK' /\ UploaderTypeOK'
    BY <1>1, StoreStutter, UploaderStutter DEF vars
  <2>2. BackendTypeOK' /\ FrontTypeOK'
    BY <1>1, BackendStutter, FrontStutter DEF vars
  <2> QED
    BY <2>1, <2>2 DEF TypeOK
<1> QED
  BY <1>1, Steps, FrontTyping, BackendTyping, UploaderTyping, EndTyping

\* Every variable keeps its type: SetTimeReady's action is taken for no event, a batch is of
\* rows that were handed out, and a retry is counted only up to MaxRetries.
THEOREM AnalyticsTypes == Spec => []TypeOK
  BY InitTyping, TypeStep, PTL DEF Spec

-----------------------------------------------------------------------------
(* Batches. *)

\* The first rows of the table, as many as there may be in a batch: whatever rows there are,
\* no other row lies between the first of them and as many ids further on.
LEMMA BatchCoversRange ==
    ASSUME rows \subseteq Nat, IsFiniteSet(rows), NEW start \in Nat, NEW count \in Nat,
           NEW i \in rows, start <= i, i <= start + Cardinality(GetEntries(start, count)) - 1
    PROVE  i \in GetEntries(start, count)
<1> DEFINE batch == GetEntries(start, count)
           below(k) == {j \in rows : start <= j /\ j < k}
<1>1. batch \subseteq rows /\ IsFiniteSet(batch) /\ Cardinality(batch) \in Nat
  BY FS_Subset, FS_CardinalityType DEF GetEntries
<1>2. \A k \in Nat : IsFiniteSet(below(k)) /\ Cardinality(below(k)) \in Nat
  <2> TAKE k \in Nat
  <2>1. below(k) \subseteq rows
    OBVIOUS
  <2> QED
    BY <2>1, FS_Subset, FS_CardinalityType
<1>3. i \in Nat /\ Cardinality(batch) \in Nat
  BY <1>1
<1> SUFFICES ASSUME i \notin batch PROVE FALSE
  OBVIOUS
<1>4. ~ (Cardinality(below(i)) < count)
  BY DEF GetEntries
<1>5. ASSUME NEW k \in batch PROVE k \in start..(i - 1)
  <2>1. k \in rows /\ k \in Nat /\ start <= k /\ Cardinality(below(k)) < count
    BY <1>1 DEF GetEntries
  <2>2. ASSUME i <= k PROVE FALSE
    <3>1. \A j \in rows : j < i => j < k
      BY <2>1, <2>2, <1>3
    <3>2. below(i) \subseteq below(k)
      BY <3>1
    <3>3. Cardinality(below(i)) <= Cardinality(below(k))
      BY <3>2, <2>1, <1>2, FS_Subset
    <3> HIDE DEF below
    <3> QED
      BY <1>2, <1>3, <1>4, <2>1, <3>3
  <2> QED
    BY <2>1, <2>2, <1>3
<1>6. Cardinality(batch) <= i - start
  <2>1. batch \subseteq start..(i - 1)
    BY <1>5
  <2>2. IsFiniteSet(start..(i - 1)) /\ Cardinality(start..(i - 1)) = i - start
    <3>1. start \in Int /\ i - 1 \in Int /\ (start > i - 1 => i - start = 0) /\ i - 1 - start + 1 = i - start
      BY <1>3
    <3> QED
      BY <3>1, FS_Interval
  <2> QED
    BY <2>1, <2>2, FS_Subset
<1> HIDE DEF batch
<1> QED
  BY <1>3, <1>6 DEF batch

\* And within the range there is nothing but the batch, when the table has no gap from there on.
LEMMA RangeCoversBatch ==
    ASSUME rows \subseteq Nat, IsFiniteSet(rows), NEW start \in rows, NEW count \in Nat,
           NEW i \in GetEntries(start, count), \A j \in start..i : j \in rows
    PROVE  i <= start + Cardinality(GetEntries(start, count)) - 1
<1> DEFINE batch == GetEntries(start, count)
           below(k) == {j \in rows : start <= j /\ j < k}
<1>1. IsFiniteSet(batch) /\ Cardinality(batch) \in Nat /\ i \in Nat /\ start \in Nat /\ start <= i
  BY FS_Subset, FS_CardinalityType DEF GetEntries
<1>2. \A k \in Nat : IsFiniteSet(below(k)) /\ Cardinality(below(k)) \in Nat
  <2> TAKE k \in Nat
  <2>1. below(k) \subseteq rows
    OBVIOUS
  <2> QED
    BY <2>1, FS_Subset, FS_CardinalityType
<1>3. ASSUME NEW j \in start..i PROVE j \in batch
  <2>1. j \in rows /\ j \in Nat /\ start <= j /\ j <= i
    BY <1>1
  <2>2. \A k \in rows : k < j => k < i
    BY <2>1, <1>1
  <2>3. below(j) \subseteq below(i)
    BY <2>2
  <2>4. Cardinality(below(j)) <= Cardinality(below(i))
    BY <2>3, <1>1, <1>2, FS_Subset
  <2>5. Cardinality(below(i)) < count
    BY DEF GetEntries
  <2>6. Cardinality(below(j)) < count
    <3> HIDE DEF below
    <3> QED
      BY <1>1, <1>2, <2>1, <2>4, <2>5
  <2> QED
    BY <2>1, <2>6 DEF GetEntries
<1>4. start..i \subseteq batch
  BY <1>3
<1>5. Cardinality(start..i) <= Cardinality(batch)
  BY <1>1, <1>4, FS_Subset
<1>6. Cardinality(start..i) = i - start + 1
  <2>1. start \in Int /\ i \in Int /\ ~ (start > i)
    BY <1>1
  <2> QED
    BY <2>1, FS_Interval
<1> HIDE DEF batch
<1> QED
  BY <1>1, <1>5, <1>6 DEF batch

Holding == {"post", "retry", "remove"}

\* What the uploader holds: its range of ids has no row but the events of the batch, and none
\* will be added to it.
BatchInv ==
    /\ upc = "get" => startIndex \in rows
    /\ upc \in Holding => startIndex <= Len(data) /\ LastOfBatch <= Len(data)
    /\ upc \in Holding => \A i \in rows : (startIndex <= i /\ i <= LastOfBatch) => i \in events
    /\ upc = "remove" => events \subseteq answered

\* While there never were too many rows: they are the last ones handed out, they have no gap,
\* and the uploader is at the first of them.
LimitInv ==
    ~ crowded =>
        /\ EventsLimit > 0 => \A i \in rows : i + EventsLimit > Len(data)
        /\ \A i \in rows : \A j \in i..Len(data) : j \in rows
        /\ upc \in Holding \cup {"get"} => \A i \in rows : startIndex <= i
        /\ upc \in Holding => \A i \in events : i <= LastOfBatch

IInv == TypeOK /\ BatchInv /\ LimitInv /\ KeptUntilAnswered /\ DeletedWithinLimit

LEMMA InitInv == Init => IInv
<1> SUFFICES ASSUME Init PROVE IInv
  OBVIOUS
<1>1. rows = {} /\ data = <<>> /\ upc = "none"
  BY DEF Init, StoreInit, UploaderInit
<1>2. BatchInv /\ LimitInv /\ KeptUntilAnswered /\ DeletedWithinLimit
  BY <1>1 DEF BatchInv, LimitInv, KeptUntilAnswered, DeletedWithinLimit, DeletedWhenAnswered, Holding
<1> QED
  BY <1>2, InitTyping DEF IInv

\* A step that leaves the store alone, and the uploader where it is or sends it to a place
\* without a batch.
LEMMA QuietInv ==
    ASSUME IInv, TypeOK', UNCHANGED <<storeVars, historyVars>>,
           \/ UNCHANGED <<upc, startIndex, events>>
           \/ upc # "remove" /\ upc' \notin Holding \cup {"get"}
    PROVE  IInv'
<1>1. KeptUntilAnswered'
  BY DEF IInv, KeptUntilAnswered, storeVars, historyVars
<1>2. DeletedWithinLimit'
  BY DEF IInv, DeletedWithinLimit, DeletedWhenAnswered, storeVars, historyVars, Holding
<1>3. BatchInv'
  BY DEF IInv, BatchInv, storeVars, historyVars, Holding, LastOfBatch
<1>4. LimitInv'
  BY DEF IInv, LimitInv, storeVars, historyVars, Holding, LastOfBatch
<1> QED
  BY <1>1, <1>2, <1>3, <1>4 DEF IInv

LEMMA LastIsInt == TypeOK => LastOfBatch \in Int
<1> SUFFICES ASSUME TypeOK PROVE LastOfBatch \in Int
  OBVIOUS
<1>1. Len(data) \in Nat /\ events \subseteq 1..Len(data) /\ startIndex \in Nat
  BY DEF TypeOK, StoreTypeOK, UploaderTypeOK
<1>2. IsFiniteSet(1..Len(data))
  BY <1>1, FS_Interval
<1>3. Cardinality(events) \in Nat
  BY <1>1, <1>2, FS_Subset, FS_CardinalityType
<1> QED
  BY <1>1, <1>3 DEF LastOfBatch

LEMMA AddEntryInv ==
    ASSUME IInv, TypeOK', NEW e \in Events, AddEntry(e), UNCHANGED <<uploaderVars, historyVars>>
    PROVE  IInv'
<1> DEFINE new == Len(data) + 1
<1>1. /\ Len(data) \in Nat /\ Len(data') = new /\ rows' = rows \cup {new}
      /\ rows \subseteq 1..Len(data) /\ answered \subseteq 1..Len(data) /\ new \notin answered
      /\ startIndex \in Nat /\ EventsLimit \in Nat
  BY LimitAssumption, AddEntryTyping DEF IInv, TypeOK, StoreTypeOK, UploaderTypeOK, AddEntry
<1>2. /\ upc' = upc /\ startIndex' = startIndex /\ events' = events /\ LastOfBatch' = LastOfBatch
      /\ answered' = answered /\ repeatable' = repeatable
  BY DEF uploaderVars, historyVars, LastOfBatch
<1>3. LastOfBatch \in Int
  BY LastIsInt DEF IInv
<1>4. KeptUntilAnswered'
  BY <1>1, <1>2 DEF IInv, KeptUntilAnswered
<1>5. DeletedWithinLimit'
  <2>1. rows' \cap answered' = rows \cap answered
    BY <1>1, <1>2
  <2>2. ~ crowded' => ~ crowded
    BY DEF AddEntry
  <2> QED
    BY <1>2, <2>1, <2>2 DEF IInv, DeletedWithinLimit, DeletedWhenAnswered
<1>6. BatchInv'
  BY <1>1, <1>2, <1>3 DEF IInv, BatchInv
<1>7. LimitInv'
  <2> SUFFICES ASSUME ~ crowded' PROVE LimitInv'
    BY DEF LimitInv
  <2>1. ~ crowded /\ \A i \in rows : ~ (i + EventsLimit <= new)
    BY DEF AddEntry
  <2>2. EventsLimit > 0 => \A i \in rows' : i + EventsLimit > Len(data')
    BY <1>1, <2>1
  <2>3. \A i \in rows' : \A j \in i..Len(data') : j \in rows'
    BY <1>1, <2>1 DEF IInv, LimitInv
  <2>4. upc' \in Holding \cup {"get"} => \A i \in rows' : startIndex' <= i
    <3> SUFFICES ASSUME upc \in Holding \cup {"get"} PROVE \A i \in rows' : startIndex <= i
      BY <1>2
    <3>1. \A i \in rows : startIndex <= i
      BY <2>1 DEF IInv, LimitInv
    <3>2. startIndex <= new
      <4>1. CASE upc = "get"
        BY <4>1, <1>1 DEF IInv, BatchInv
      <4>2. CASE upc \in Holding
        BY <4>2, <1>1 DEF IInv, BatchInv
      <4> QED
        BY <4>1, <4>2
    <3> QED
      BY <1>1, <3>1, <3>2
  <2>5. upc' \in Holding => \A i \in events' : i <= LastOfBatch'
    BY <1>2, <2>1 DEF IInv, LimitInv
  <2> QED
    BY <2>2, <2>3, <2>4, <2>5 DEF LimitInv
<1> QED
  BY <1>4, <1>5, <1>6, <1>7 DEF IInv

LEMMA CollectCountInv ==
    ASSUME IInv, TypeOK', CollectCount
    PROVE  IInv'
<1> USE DEF Holding
<1>1. CASE upc' = "window"
  BY <1>1, QuietInv DEF CollectCount
<1>2. CASE upc' # "window"
  <2>1. PICK first \in Latest(EventsLimit) : /\ \A i \in Latest(EventsLimit) : first <= i
                                            /\ startIndex' = first /\ upc' = "get"
    BY <1>2 DEF CollectCount
  <2>2. first \in rows /\ rows \subseteq Nat /\ Len(data) \in Nat /\ rows \subseteq 1..Len(data)
    BY <2>1, RowsFinite DEF Latest, IInv, TypeOK, StoreTypeOK
  <2>3. KeptUntilAnswered' /\ DeletedWithinLimit' /\ BatchInv'
    BY <2>1, <2>2 DEF CollectCount, IInv, KeptUntilAnswered, DeletedWithinLimit, DeletedWhenAnswered, BatchInv,
                      storeVars, historyVars
  <2>4. ~ crowded => \A i \in rows : first <= i
    <3> SUFFICES ASSUME ~ crowded, NEW i \in rows PROVE first <= i
      OBVIOUS
    <3>1. EventsLimit > 0
      BY <2>1, <2>2, LimitAssumption DEF Latest
    <3>2. \A j \in rows : j < i + EventsLimit
      BY <3>1, <2>2, LimitAssumption DEF IInv, LimitInv
    <3> QED
      BY <2>1, <3>2 DEF Latest
  <2>5. LimitInv'
    BY <2>1, <2>4 DEF CollectCount, IInv, LimitInv, storeVars, historyVars
  <2> QED
    BY <2>3, <2>5 DEF IInv
<1> QED
  BY <1>1, <1>2

LEMMA CollectEventsInv ==
    ASSUME IInv, TypeOK', CollectEvents
    PROVE  IInv'
<1> USE DEF Holding
<1>1. CASE upc' = "window"
  BY <1>1, QuietInv DEF CollectEvents
<1>2. CASE upc' # "window"
  <2>1. /\ upc' = "post" /\ events' = GetEntries(startIndex, eventCount) /\ startIndex' = startIndex
        /\ UNCHANGED <<storeVars, historyVars>>
    BY <1>2 DEF CollectEvents
  <2>2. /\ startIndex \in rows /\ rows \subseteq Nat /\ IsFiniteSet(rows) /\ eventCount \in Nat
        /\ Len(data) \in Nat /\ rows \subseteq 1..Len(data) /\ rows' = rows /\ data' = data
    BY <1>2, <2>1, RowsFinite DEF CollectEvents, IInv, BatchInv, TypeOK, StoreTypeOK, UploaderTypeOK, storeVars
  <2>3. LastOfBatch' = startIndex + Cardinality(GetEntries(startIndex, eventCount)) - 1
    BY <2>1 DEF LastOfBatch
  <2>4. KeptUntilAnswered' /\ DeletedWithinLimit'
    BY <1>2, <2>1 DEF CollectEvents, IInv, KeptUntilAnswered, DeletedWithinLimit, DeletedWhenAnswered,
                      storeVars, historyVars
  <2>5. LastOfBatch' <= Len(data)
    <3>1. GetEntries(startIndex, eventCount) \subseteq startIndex..Len(data)
      <4> SUFFICES ASSUME NEW i \in GetEntries(startIndex, eventCount) PROVE i \in startIndex..Len(data)
        OBVIOUS
      <4>1. i \in rows /\ startIndex <= i
        BY DEF GetEntries
      <4>2. startIndex \in Nat /\ i \in Nat /\ i <= Len(data)
        BY <4>1, <2>2
      <4> QED
        BY <4>1, <4>2, <2>2
    <3>2. /\ IsFiniteSet(startIndex..Len(data))
          /\ Cardinality(startIndex..Len(data)) = Len(data) - startIndex + 1
      <4>1. startIndex \in Int /\ Len(data) \in Int /\ ~ (startIndex > Len(data))
        BY <2>2
      <4> QED
        BY <4>1, FS_Interval
    <3>3. /\ Cardinality(GetEntries(startIndex, eventCount)) <= Len(data) - startIndex + 1
          /\ Cardinality(GetEntries(startIndex, eventCount)) \in Nat
      BY <3>1, <3>2, FS_Subset, FS_CardinalityType
    <3>4. startIndex \in Nat
      BY <2>2
    <3> QED
      BY <2>2, <2>3, <3>3, <3>4
  <2>6. \A i \in rows : (startIndex <= i /\ i <= LastOfBatch') => i \in GetEntries(startIndex, eventCount)
    <3>1. startIndex \in Nat
      BY <2>2
    <3> QED
      BY <2>2, <2>3, <3>1, BatchCoversRange
  <2>7. BatchInv'
    BY <2>1, <2>2, <2>5, <2>6 DEF BatchInv
  <2>8. LimitInv'
    <3> SUFFICES ASSUME ~ crowded PROVE LimitInv'
      BY <2>1 DEF LimitInv, storeVars
    <3>1. \A i \in rows : startIndex <= i
      BY <1>2 DEF CollectEvents, IInv, LimitInv
    <3>2. \A i \in GetEntries(startIndex, eventCount) : i <= LastOfBatch'
      <4> TAKE i \in GetEntries(startIndex, eventCount)
      <4>1. i \in rows /\ i <= Len(data)
        BY <2>2 DEF GetEntries
      <4>2. \A j \in startIndex..i : j \in rows
        BY <2>2, <4>1 DEF IInv, LimitInv
      <4> QED
        BY <2>2, <2>3, <4>2, RangeCoversBatch
    <3> QED
      BY <2>1, <3>1, <3>2 DEF IInv, LimitInv, storeVars
  <2> QED
    BY <2>4, <2>7, <2>8 DEF IInv
<1> QED
  BY <1>1, <1>2

LEMMA PostInv ==
    ASSUME IInv, TypeOK', PostAnswered \/ PostFailed \/ RetryWait
    PROVE  IInv'
<1> USE DEF Holding, LastOfBatch
<1>1. CASE PostAnswered
  BY <1>1 DEF PostAnswered, IInv, BatchInv, LimitInv, KeptUntilAnswered, DeletedWithinLimit, DeletedWhenAnswered,
              storeVars
<1>2. CASE PostFailed \/ RetryWait
  BY <1>2 DEF PostFailed, RetryWait, IInv, BatchInv, LimitInv, KeptUntilAnswered, DeletedWithinLimit,
              DeletedWhenAnswered, storeVars, historyVars
<1> QED
  BY <1>1, <1>2

LEMMA RemoveInv ==
    ASSUME IInv, TypeOK', Remove
    PROVE  IInv'
<1> USE DEF Holding
<1>1. upc = "remove" /\ upc' = "window" /\ answered' = answered
  BY DEF Remove
<1>2. CASE RemoveEntries(startIndex, LastOfBatch) /\ UNCHANGED repeatable
  <2>1. /\ rows' = {i \in rows : ~ (startIndex <= i /\ i <= LastOfBatch)}
        /\ data' = data /\ crowded' = crowded /\ repeatable' = repeatable
    BY <1>2 DEF RemoveEntries
  <2>2. KeptUntilAnswered'
    BY <1>1, <2>1 DEF IInv, BatchInv, KeptUntilAnswered
  <2>3. DeletedWithinLimit'
    <3> SUFFICES ASSUME ~ crowded, NEW i \in rows', i \in answered PROVE i \in repeatable
      BY <1>1, <2>1 DEF DeletedWithinLimit, DeletedWhenAnswered
    <3>1. i \in rows /\ startIndex <= i /\ i \notin events
      BY <1>1, <2>1 DEF IInv, LimitInv
    <3> QED
      BY <3>1 DEF IInv, DeletedWithinLimit, DeletedWhenAnswered
  <2>4. BatchInv'
    BY <1>1 DEF BatchInv
  <2>5. LimitInv'
    <3> SUFFICES ASSUME ~ crowded, NEW i \in rows', NEW j \in i..Len(data) PROVE j \in rows'
      BY <1>1, <2>1 DEF IInv, LimitInv
    <3>1. i \in rows /\ i \in Nat /\ startIndex <= i /\ ~ (i <= LastOfBatch)
      BY <1>1, <2>1, RowsFinite DEF IInv, LimitInv
    <3>2. j \in rows /\ j \in Nat /\ i <= j
      BY <3>1 DEF IInv, LimitInv
    <3>3. LastOfBatch \in Int
      BY <1>1, LastIsInt DEF IInv
    <3> QED
      BY <2>1, <3>1, <3>2, <3>3
  <2> QED
    BY <2>2, <2>3, <2>4, <2>5 DEF IInv
<1>3. CASE repeatable' = repeatable \cup events /\ UNCHANGED storeVars
  BY <1>1, <1>3 DEF IInv, BatchInv, LimitInv, KeptUntilAnswered, DeletedWithinLimit, DeletedWhenAnswered, storeVars
<1> QED
  BY <1>2, <1>3 DEF Remove

\* The end of the process leaves the store, and the rows of an answered batch in it.
LEMMA RestartInv ==
    ASSUME IInv, TypeOK', Restart
    PROVE  IInv'
<1>1. upc' = "none" /\ answered' = answered /\ rows' = rows /\ data' = data /\ crowded' = crowded
  BY DEF Restart, UploaderRestart, storeVars
<1>2. DeletedWithinLimit'
  BY <1>1 DEF Restart, IInv, DeletedWithinLimit, DeletedWhenAnswered
<1> QED
  BY <1>1, <1>2 DEF IInv, BatchInv, LimitInv, KeptUntilAnswered, Holding

LEMMA Invariance == IInv /\ [Next]_vars => IInv'
<1> SUFFICES ASSUME IInv, [Next]_vars PROVE IInv'
  OBVIOUS
<1>0. TypeOK'
  <2>1. TypeOK
    BY DEF IInv
  <2> QED
    BY <2>1, TypeStep
<1>1. CASE UNCHANGED vars
  BY <1>0, <1>1, QuietInv DEF vars, uploaderVars
<1>2. CASE FrontSteps
  <2>1. UNCHANGED <<storeVars, uploaderVars, historyVars>>
    BY <1>2 DEF FrontSteps, Front, Activate, Deactivate, SendEvent, SetTimeReady, TakeEvent, TakeTimeReady,
                FlushWaiting, TakeShutdown, belowVars
  <2> QED
    BY <1>0, <2>1, QuietInv DEF uploaderVars
<1>3. CASE BackendSteps
  <2>1. CASE ConfigChanges \/ FlushEnd \/ ActShutdown
    BY <1>0, <2>1, QuietInv DEF ConfigChanges, FlushEnd, ActShutdown, uploaderVars
  <2>2. CASE Take
    BY <1>0, <2>2, QuietInv DEF Take, MakeParts, Holding
  <2>3. CASE ActSend
    <3>1. bAction.event \in Events
      BY <2>3 DEF ActSend, IInv, TypeOK, BackendTypeOK, NoAction
    <3>2. CASE AddEntry(bAction.event)
      BY <1>0, <2>3, <3>1, <3>2, AddEntryInv DEF ActSend
    <3>3. CASE UNCHANGED storeVars
      BY <1>0, <2>3, <3>3, QuietInv DEF ActSend, uploaderVars
    <3> QED
      BY <2>3, <3>2, <3>3 DEF ActSend
  <2>4. CASE FlushOne
    <3>1. Head(bEvents) \in Events
      BY <2>4, HeadAndTail DEF FlushOne, IInv, TypeOK, BackendTypeOK
    <3> QED
      BY <1>0, <2>4, <3>1, AddEntryInv DEF FlushOne
  <2> QED
    BY <1>3, <2>1, <2>2, <2>3, <2>4 DEF BackendSteps, ActionLoop
<1>4. CASE UploaderSteps
  <2>1. CASE Window
    BY <1>0, <2>1, QuietInv DEF Window, Holding
  <2> QED
    BY <1>0, <1>4, <2>1, CollectCountInv, CollectEventsInv, PostInv, RemoveInv DEF UploaderSteps, Uploader
<1>5. CASE Exit
  BY <1>0, <1>5, QuietInv DEF Exit, Destroy, uploaderVars
<1> QED
  BY <1>0, <1>1, <1>2, <1>3, <1>4, <1>5, RestartInv, Steps

\* Nothing is deleted that the end point has not answered: what RemoveEvents() is told covers
\* no row but those of the batch that was posted.
THEOREM NothingDeletedUnanswered == Spec => []KeptUntilAnswered
<1>1. IInv => KeptUntilAnswered
  BY DEF IInv
<1> QED
  BY <1>1, InitInv, Invariance, PTL DEF Spec

\* What was answered is deleted, as long as there never were more rows than the limit.
THEOREM AnsweredIsDeleted == Spec => []DeletedWithinLimit
<1>1. IInv => DeletedWithinLimit
  BY DEF IInv
<1> QED
  BY <1>1, InitInv, Invariance, PTL DEF Spec
=============================================================================
