-------------------------- MODULE AnalyticsDelivery --------------------------
(***************************************************************************)
(* Analytics keeps what module EventDelivery promises, for every number of *)
(* events, activations and restarts and whatever fails: an event is written*)
(* at most once, is lost only from memory, and leaves the store answered.  *)
(*                                                                         *)
(* An event passes five places in memory, by a step of a thread each.  The *)
(* refinement rests on its being in one of them at a time, once, and in    *)
(* none when it is in the store.  Up to SiftBackend's queue events without *)
(* an epoch time do not overtake each other either.                        *)
(***************************************************************************)
EXTENDS AnalyticsProofs

Elements(q) == {q[i] : i \in DOMAIN q}

\* No event is in a queue twice.  Other actions may be.
Once(q) == \A i, j \in DOMAIN q : q[i] = q[j] /\ q[i] \in Events => i = j

\* No event is in both.
Apart(S, T) == \A e \in Events : e \notin S \/ e \notin T

\* The event that the backend's thread is about to write or to queue.
InHand == IF bAction.type = "send" THEN {bAction.event} ELSE {}

QueuesOnce == Once(actions) /\ Once(eventQueue) /\ Once(bActions) /\ Once(bEvents) /\ Once(data)

\* No event is in two of the places in memory and in the table.
AllApart(front, waiting, back, hand, queued, written) ==
    /\ Apart(front, waiting) /\ Apart(front, back) /\ Apart(front, hand) /\ Apart(front, queued)
    /\ Apart(waiting, back) /\ Apart(waiting, hand) /\ Apart(waiting, queued)
    /\ Apart(back, hand) /\ Apart(back, queued) /\ Apart(hand, queued)
    /\ Apart(front, written) /\ Apart(waiting, written) /\ Apart(back, written)
    /\ Apart(hand, written) /\ Apart(queued, written)

QueuesApart ==
    AllApart(Elements(actions), Elements(eventQueue), Elements(bActions), InHand, Elements(bEvents),
             Elements(data))

OnlySent == InMemory \cup Elements(data) \subseteq 1..sent

OnePlace == QueuesOnce /\ QueuesApart /\ OnlySent

-----------------------------------------------------------------------------
(* Queues. *)

LEMMA ElementsEmpty == Elements(<<>>) = {} /\ Once(<<>>)
  BY DEF Elements, Once

LEMMA ElementsAppend ==
    ASSUME NEW S, NEW q \in Seq(S), NEW e \in S
    PROVE  /\ Elements(Append(q, e)) = Elements(q) \cup {e}
           /\ Once(q) /\ (e \in Events => e \notin Elements(q)) => Once(Append(q, e))
<1>1. /\ DOMAIN q = 1..Len(q) /\ Len(q) \in Nat
      /\ DOMAIN Append(q, e) = 1..(Len(q) + 1)
      /\ \A i \in 1..Len(q) : Append(q, e)[i] = q[i]
      /\ Append(q, e)[Len(q) + 1] = e
  OBVIOUS
<1>2. \A i \in 1..(Len(q) + 1) : i \in 1..Len(q) \/ i = Len(q) + 1
  BY <1>1
<1>3. Elements(Append(q, e)) = Elements(q) \cup {e}
  BY <1>1, <1>2 DEF Elements
<1>4. ASSUME Once(q), e \in Events => e \notin Elements(q),
             NEW i \in DOMAIN Append(q, e), NEW j \in DOMAIN Append(q, e),
             Append(q, e)[i] = Append(q, e)[j], Append(q, e)[i] \in Events
      PROVE  i = j
  BY <1>1, <1>2, <1>4 DEF Once, Elements
<1> QED
  BY <1>3, <1>4 DEF Once

LEMMA ElementsTail ==
    ASSUME NEW S, NEW q \in Seq(S), q # <<>>
    PROVE  /\ Elements(q) = Elements(Tail(q)) \cup {Head(q)}
           /\ Once(q) => Once(Tail(q)) /\ (Head(q) \in Events => Head(q) \notin Elements(Tail(q)))
<1>1. /\ DOMAIN q = 1..Len(q) /\ Len(q) \in Nat /\ Len(q) > 0
      /\ DOMAIN Tail(q) = 1..(Len(q) - 1)
      /\ \A i \in 1..(Len(q) - 1) : Tail(q)[i] = q[i + 1]
      /\ Head(q) = q[1]
  OBVIOUS
<1>2. /\ \A i \in 1..Len(q) : i = 1 \/ i - 1 \in 1..(Len(q) - 1)
      /\ \A i \in 1..(Len(q) - 1) : i \in Int /\ i + 1 \in 1..Len(q) /\ i + 1 # 1 /\ (i + 1) - 1 = i
      /\ \A i \in 1..Len(q) : (i - 1) + 1 = i
      /\ 1 \in 1..Len(q)
  BY <1>1
<1>3. Elements(q) = Elements(Tail(q)) \cup {Head(q)}
  <2>1. ASSUME NEW i \in 1..Len(q), i # 1 PROVE q[i] \in Elements(Tail(q))
    <3>1. i - 1 \in DOMAIN Tail(q) /\ Tail(q)[i - 1] = q[i]
      BY <1>1, <1>2, <2>1
    <3> QED
      BY <3>1 DEF Elements
  <2>2. ASSUME NEW i \in 1..(Len(q) - 1) PROVE Tail(q)[i] \in Elements(q)
    BY <1>1, <1>2 DEF Elements
  <2>3. Elements(q) \subseteq Elements(Tail(q)) \cup {Head(q)}
    BY <2>1, <1>1 DEF Elements
  <2>4. Elements(Tail(q)) \subseteq Elements(q) /\ Head(q) \in Elements(q)
    BY <2>2, <1>1, <1>2 DEF Elements
  <2> QED
    BY <2>3, <2>4
<1>4. ASSUME Once(q) PROVE Once(Tail(q))
  BY <1>1, <1>2, <1>4 DEF Once
<1>5. ASSUME Once(q), Head(q) \in Events PROVE Head(q) \notin Elements(Tail(q))
  <2>1. \A i \in 1..(Len(q) - 1) : q[i + 1] # q[1]
    BY <1>1, <1>2, <1>5 DEF Once
  <2> QED
    BY <2>1, <1>1 DEF Elements
<1> QED
  BY <1>3, <1>4, <1>5

-----------------------------------------------------------------------------
(* Every event stays in one place. *)

LEMMA MemoryIs ==
    /\ InMemory = Events \cap (Elements(actions) \cup Elements(eventQueue) \cup Elements(bActions)
                              \cup InHand \cup Elements(bEvents))
    /\ InMemory' = Events \cap (Elements(actions)' \cup Elements(eventQueue)' \cup Elements(bActions)'
                               \cup InHand' \cup Elements(bEvents)')
  BY DEF InMemory, InFront, InBackend, InHand, Elements

LEMMA QueueTypes ==
    ASSUME TypeOK
    PROVE  /\ actions \in Seq(Events \cup {Shutdown, TimeReady}) /\ eventQueue \in Seq(Events)
           /\ bActions \in Seq(Events \cup {Shutdown}) /\ bEvents \in Seq(Events) /\ data \in Seq(Events)
           /\ sent \in 0..NumEvents
  BY DEF TypeOK, FrontTypeOK, BackendTypeOK, StoreTypeOK

LEMMA InitOnePlace == Init => OnePlace
<1> SUFFICES ASSUME Init PROVE OnePlace
  OBVIOUS
<1>1. actions = <<>> /\ eventQueue = <<>> /\ bActions = <<>> /\ bEvents = <<>> /\ data = <<>> /\ InHand = {}
  BY DEF Init, BackendInit, StoreInit, InHand, NoAction
<1> QED
  BY <1>1, ElementsEmpty, MemoryIs DEF OnePlace, QueuesOnce, QueuesApart, AllApart, Apart, OnlySent

\* What makes a step harmless: no place gets what it had not, but from another one.
HereOrBefore == UNCHANGED <<data, answered, sent>> /\ InMemory' \subseteq InMemory

\* Steps of the plugin's thread hand events on to the backend, keep them, or lose them.
LEMMA FrontHandsOn ==
    ASSUME TypeOK, OnePlace, Front
    PROVE  OnePlace' /\ HereOrBefore
<1> USE EventIds, QueueTypes, MemoryIs
<1> DEFINE A == Elements(actions)
           Q == Elements(eventQueue)
           B == Elements(bActions)
<1>1. CASE TakeEvent
  <2> DEFINE e == Head(actions)
  <2>1. /\ e \in Events /\ A = A' \cup {e} /\ Once(actions') /\ e \notin A'
    BY <1>1, ElementsTail DEF TakeEvent, OnePlace, QueuesOnce
  <2>2. UNCHANGED <<bAction, bEvents, data, answered, sent>>
    BY <1>1 DEF TakeEvent, storeVars, historyVars, countVars
  <2>3. e \notin B /\ e \notin Q
    BY <2>1 DEF OnePlace, QueuesApart, AllApart, Apart
  <2>4. CASE Datable(e)
    <3>1. bActions' = Append(bActions, e) /\ eventQueue' = eventQueue
      BY <1>1, <2>4 DEF TakeEvent, ToBackend
    <3>2. B' = B \cup {e} /\ Once(bActions')
      BY <2>1, <2>3, <3>1, ElementsAppend DEF OnePlace, QueuesOnce
    <3> QED
      BY <2>1, <2>2, <3>1, <3>2 DEF OnePlace, QueuesOnce, QueuesApart, AllApart, Apart, OnlySent, HereOrBefore, InHand
  <2>5. CASE ~ Datable(e)
    <3>1. eventQueue' = Append(eventQueue, e) /\ bActions' = bActions
      BY <1>1, <2>5 DEF TakeEvent
    <3>2. Q' = Q \cup {e} /\ Once(eventQueue')
      BY <2>1, <2>3, <3>1, ElementsAppend DEF OnePlace, QueuesOnce
    <3> QED
      BY <2>1, <2>2, <3>1, <3>2 DEF OnePlace, QueuesOnce, QueuesApart, AllApart, Apart, OnlySent, HereOrBefore, InHand
  <2> QED
    BY <2>4, <2>5
<1>2. CASE TakeTimeReady
  <2>1. /\ A = A' \cup {TimeReady} /\ Once(actions')
        /\ UNCHANGED <<eventQueue, bActions, bAction, bEvents, data, answered, sent>>
    BY <1>2, ElementsTail DEF TakeTimeReady, OnePlace, QueuesOnce, belowVars, backendVars, storeVars,
                              historyVars, countVars
  <2> QED
    BY <2>1 DEF OnePlace, QueuesOnce, QueuesApart, AllApart, Apart, OnlySent, HereOrBefore, InHand
<1>3. CASE FlushWaiting
  <2> DEFINE e == Head(eventQueue)
  <2>1. UNCHANGED <<actions, bAction, bEvents, data, answered, sent>>
    BY <1>3 DEF FlushWaiting, storeVars, historyVars, countVars
  <2>2. CASE eventQueue # <<>>
    <3>0. e \in Events /\ eventQueue' = Tail(eventQueue) /\ bActions' = Append(bActions, e)
      BY <1>3, <2>2, HeadAndTail DEF FlushWaiting, ToBackend
    <3>1. Q = Q' \cup {e} /\ Once(eventQueue') /\ e \notin Q'
      BY <2>2, <3>0, ElementsTail DEF OnePlace, QueuesOnce
    <3>2. e \notin B /\ e \notin A
      BY <3>0, <3>1 DEF OnePlace, QueuesApart, AllApart, Apart
    <3>3. B' = B \cup {e} /\ Once(bActions')
      BY <3>0, <3>2, ElementsAppend DEF OnePlace, QueuesOnce
    <3> QED
      BY <2>1, <3>0, <3>1, <3>2, <3>3 DEF OnePlace, QueuesOnce, QueuesApart, AllApart, Apart, OnlySent, HereOrBefore, InHand
  <2>3. CASE eventQueue = <<>>
    <3>1. UNCHANGED <<eventQueue, bActions>>
      BY <1>3, <2>3 DEF FlushWaiting
    <3> QED
      BY <2>1, <3>1 DEF OnePlace, QueuesOnce, QueuesApart, AllApart, Apart, OnlySent, HereOrBefore, InHand
  <2> QED
    BY <2>2, <2>3
<1>4. CASE TakeShutdown
  <2>1. /\ A' = {} /\ Q' = {} /\ Once(actions') /\ Once(eventQueue')
        /\ UNCHANGED <<bActions, bAction, bEvents, data, answered, sent>>
    BY <1>4, ElementsEmpty DEF TakeShutdown, FrontFresh, belowVars, backendVars, storeVars, historyVars, countVars
  <2> QED
    BY <2>1 DEF OnePlace, QueuesOnce, QueuesApart, AllApart, Apart, OnlySent, HereOrBefore, InHand
<1> QED
  BY <1>1, <1>2, <1>3, <1>4 DEF Front

\* Clients' calls bring no event but SendEvent(), and an activation starts with empty queues.
LEMMA CallsBringNothing ==
    ASSUME TypeOK, OnePlace, Activate \/ Deactivate \/ SetTimeReady
    PROVE  OnePlace' /\ HereOrBefore
<1> USE EventIds, QueueTypes, MemoryIs
<1> DEFINE A == Elements(actions)
           Q == Elements(eventQueue)
<1>1. CASE Activate
  <2>1. /\ A' = {} /\ Q' = {} /\ Once(actions') /\ Once(eventQueue')
        /\ UNCHANGED <<bActions, bAction, bEvents, data, answered, sent>>
    BY <1>1, ElementsEmpty DEF Activate, FrontFresh, backendVars, storeVars, historyVars
  <2> QED
    BY <2>1 DEF OnePlace, QueuesOnce, QueuesApart, AllApart, Apart, OnlySent, HereOrBefore, InHand
<1>2. ASSUME NEW a \in {Shutdown, TimeReady}, actions' = Append(actions, a),
             UNCHANGED <<eventQueue, belowVars, countVars>>
      PROVE  OnePlace' /\ HereOrBefore
  <2>1. /\ A' = A \cup {a} /\ Once(actions')
        /\ UNCHANGED <<eventQueue, bActions, bAction, bEvents, data, answered, sent>>
    BY <1>2, ElementsAppend DEF OnePlace, QueuesOnce, belowVars, backendVars, storeVars, historyVars, countVars
  <2> QED
    BY <1>2, <2>1 DEF OnePlace, QueuesOnce, QueuesApart, AllApart, Apart, OnlySent, HereOrBefore, InHand
<1>3. CASE Deactivate
  BY <1>2, <1>3 DEF Deactivate, countVars
<1>4. CASE SetTimeReady
  BY <1>2, <1>4 DEF SetTimeReady
<1> QED
  BY <1>1, <1>3, <1>4

\* A new event comes to the plugin's queue.
LEMMA SentOnce ==
    ASSUME TypeOK, OnePlace, SendEvent
    PROVE  /\ OnePlace'
           /\ UNCHANGED <<data, answered>> /\ sent' = sent + 1
           /\ sent' \in Events /\ InMemory' = InMemory \cup {sent'}
<1> USE EventIds, QueueTypes, MemoryIs
<1> DEFINE A == Elements(actions)
           e == sent + 1
<1>1. /\ e \in Events /\ sent' = e /\ e \notin 1..sent /\ 1..sent \subseteq 1..e /\ e \in 1..e
        /\ sent' = sent + 1
  BY DEF SendEvent, Events
<1>2. actions' = Append(actions, e) /\ UNCHANGED <<eventQueue, bActions, bAction, bEvents, data, answered>>
  BY DEF SendEvent, belowVars, backendVars, storeVars, historyVars
<1>3. e \notin InMemory \cup Elements(data)
  BY <1>1 DEF OnePlace, OnlySent
<1>4. e \notin A
  BY <1>1, <1>3
<1>5. A' = A \cup {e} /\ Once(actions')
  BY <1>1, <1>2, <1>4, ElementsAppend DEF OnePlace, QueuesOnce
<1>6. InMemory' = InMemory \cup {e}
  BY <1>1, <1>2, <1>5 DEF InHand
<1> HIDE DEF e
<1>7. OnlySent'
  BY <1>1, <1>2, <1>6 DEF OnePlace, OnlySent
<1>8. QueuesOnce' /\ QueuesApart'
  BY <1>1, <1>2, <1>3, <1>5 DEF OnePlace, QueuesOnce, QueuesApart, AllApart, Apart, InHand
<1> QED
  BY <1>1, <1>2, <1>6, <1>7, <1>8 DEF OnePlace

\* Nothing moves.
LEMMA StillOnePlace ==
    ASSUME OnePlace, UNCHANGED <<actions, eventQueue, bActions, bAction, bEvents, data, sent>>
    PROVE  OnePlace' /\ InMemory' = InMemory
  BY MemoryIs DEF OnePlace, QueuesOnce, QueuesApart, AllApart, Apart, OnlySent, HereOrBefore, InHand

\* The backend's thread takes an event to hand, queues it for want of a configuration, or fails
\* to write it; and it ends.
LEMMA BackendHandsOn ==
    ASSUME TypeOK, OnePlace, UNCHANGED <<actions, eventQueue, sent>>,
           Take \/ (ActSend /\ UNCHANGED data) \/ FlushEnd \/ ActShutdown
    PROVE  OnePlace' /\ HereOrBefore
<1> USE EventIds, QueueTypes, MemoryIs
<1> DEFINE B == Elements(bActions)
           D == Elements(bEvents)
<1>1. CASE Take
  <2>1. UNCHANGED <<bEvents, data, answered>>
    BY <1>1 DEF Take, storeVars, historyVars
  <2>2. CASE bActions # <<>>
    <3> DEFINE e == Head(bActions)
    <3>1. /\ bActions' = Tail(bActions)
          /\ bAction' = [type |-> IF e = Shutdown THEN "shutdown" ELSE "send", event |-> e]
      BY <1>1, <2>2 DEF Take
    <3>2. B = B' \cup {e} /\ Once(bActions') /\ (e \in Events => e \notin B') /\ e \in Events \cup {Shutdown}
      BY <2>2, <3>1, HeadAndTail, ElementsTail DEF OnePlace, QueuesOnce
    <3>3. InHand' = IF e = Shutdown THEN {} ELSE {e}
      BY <3>1 DEF InHand
    <3> QED
      BY <2>1, <3>2, <3>3 DEF OnePlace, QueuesOnce, QueuesApart, AllApart, Apart, OnlySent, HereOrBefore
  <2>3. CASE bActions = <<>>
    <3>1. bActions' = bActions /\ InHand' = {}
      BY <1>1, <2>3 DEF Take, InHand
    <3> QED
      BY <2>1, <3>1 DEF OnePlace, QueuesOnce, QueuesApart, AllApart, Apart, OnlySent, HereOrBefore
  <2> QED
    BY <2>2, <2>3
<1>2. CASE ActSend /\ UNCHANGED data
  <2> DEFINE e == bAction.event
  <2>1. e \in Events /\ InHand = {e} /\ InHand' = {} /\ UNCHANGED <<bActions, data, answered>>
    BY <1>2 DEF ActSend, InHand, TypeOK, BackendTypeOK, NoAction, historyVars
  <2>2. e \notin D
    BY <2>1 DEF OnePlace, QueuesApart, AllApart, Apart
  <2>3. Once(bEvents') /\ (D' = D \/ D' = D \cup {e})
    <3>1. bEvents' = bEvents \/ bEvents' = Append(bEvents, e)
      BY <1>2 DEF ActSend
    <3>2. CASE bEvents' = bEvents
      BY <3>2 DEF OnePlace, QueuesOnce
    <3>3. CASE bEvents' = Append(bEvents, e)
      BY <2>1, <2>2, <3>3, ElementsAppend DEF OnePlace, QueuesOnce
    <3> QED
      BY <3>1, <3>2, <3>3
  <2> QED
    BY <2>1, <2>3 DEF OnePlace, QueuesOnce, QueuesApart, AllApart, Apart, OnlySent, HereOrBefore
<1>3. CASE FlushEnd \/ ActShutdown
  <2>1. InHand' = {} /\ UNCHANGED <<bActions, bEvents, data, answered>>
    BY <1>3 DEF FlushEnd, ActShutdown, InHand, NoAction, storeVars, historyVars
  <2> QED
    BY <2>1 DEF OnePlace, QueuesOnce, QueuesApart, AllApart, Apart, OnlySent, HereOrBefore
<1> QED
  BY <1>1, <1>2, <1>3

\* An event is written: it leaves memory, where it was once, for the table, where it was not.
LEMMA WrittenOnce ==
    ASSUME TypeOK, OnePlace, UNCHANGED <<actions, eventQueue, sent>>,
           (ActSend /\ AddEntry(bAction.event)) \/ FlushOne
    PROVE  /\ OnePlace' /\ UNCHANGED <<answered, sent>>
           /\ \E e \in InMemory : data' = Append(data, e) /\ InMemory' = InMemory \ {e}
<1> USE EventIds, QueueTypes, MemoryIs
<1> DEFINE D == Elements(bEvents)
           W == Elements(data)
<1>1. ASSUME NEW e \in InMemory, data' = Append(data, e)
      PROVE  W' = W \cup {e} /\ Once(data')
  <2>1. e \in Events /\ e \notin W
    BY <1>1 DEF OnePlace, QueuesApart, AllApart, Apart
  <2> QED
    BY <1>1, <2>1, ElementsAppend DEF OnePlace, QueuesOnce
<1>2. CASE ActSend /\ AddEntry(bAction.event)
  <2> DEFINE e == bAction.event
  <2>1. e \in Events /\ InHand = {e} /\ InHand' = {} /\ UNCHANGED <<bActions, bEvents, answered>>
    BY <1>2 DEF ActSend, AddEntry, InHand, TypeOK, BackendTypeOK, NoAction, historyVars, storeVars
  <2>2. e \in InMemory /\ data' = Append(data, e)
    BY <1>2, <2>1 DEF AddEntry
  <2>3. W' = W \cup {e} /\ Once(data')
    BY <1>1, <2>2
  <2>4. InMemory' = InMemory \ {e}
    BY <2>1 DEF OnePlace, QueuesApart, AllApart, Apart
  <2>5. QueuesOnce' /\ QueuesApart'
    BY <2>1, <2>3 DEF OnePlace, QueuesOnce, QueuesApart, AllApart, Apart
  <2>6. OnlySent'
    BY <2>2, <2>3, <2>4 DEF OnePlace, OnlySent
  <2> QED
    BY <2>1, <2>2, <2>4, <2>5, <2>6 DEF OnePlace
<1>3. CASE FlushOne
  <2> DEFINE e == Head(bEvents)
  <2>1. /\ e \in Events /\ bEvents' = Tail(bEvents) /\ data' = Append(data, e)
        /\ InHand' = InHand /\ UNCHANGED <<bActions, answered>>
    BY <1>3, HeadAndTail DEF FlushOne, AddEntry, InHand, historyVars
  <2>2. D = D' \cup {e} /\ Once(bEvents') /\ e \notin D'
    BY <1>3, <2>1, ElementsTail DEF FlushOne, OnePlace, QueuesOnce
  <2>3. e \in InMemory
    BY <2>1, <2>2
  <2>4. W' = W \cup {e} /\ Once(data')
    BY <1>1, <2>1, <2>3
  <2>5. InMemory' = InMemory \ {e}
    BY <2>1, <2>2 DEF OnePlace, QueuesApart, AllApart, Apart
  <2>6. QueuesOnce' /\ QueuesApart'
    BY <2>1, <2>2, <2>4 DEF OnePlace, QueuesOnce, QueuesApart, AllApart, Apart
  <2>7. OnlySent'
    BY <2>3, <2>4, <2>5 DEF OnePlace, OnlySent
  <2> QED
    BY <2>1, <2>3, <2>5, <2>6, <2>7 DEF OnePlace
<1> QED
  BY <1>2, <1>3

\* The end of the process, in order or not, brings nothing.
LEMMA EndBringsNothing ==
    ASSUME TypeOK, OnePlace, Exit \/ Restart
    PROVE  OnePlace' /\ HereOrBefore
<1> USE EventIds, QueueTypes, MemoryIs
<1>1. CASE Exit
  <2>1. UNCHANGED <<actions, eventQueue, bAction, bEvents, data, answered, sent>>
    BY <1>1 DEF Exit, Destroy, frontVars, countVars, storeVars, historyVars, backendVars
  <2>2. CASE bActions' = bActions
    BY <2>1, <2>2, StillOnePlace DEF HereOrBefore
  <2>3. CASE bActions' = Append(bActions, Shutdown)
    <3>1. Elements(bActions') = Elements(bActions) \cup {Shutdown} /\ Once(bActions')
      BY <2>3, ElementsAppend DEF OnePlace, QueuesOnce
    <3> QED
      BY <2>1, <3>1 DEF OnePlace, QueuesOnce, QueuesApart, AllApart, Apart, OnlySent, HereOrBefore, InHand
  <2> QED
    BY <1>1, <2>2, <2>3 DEF Exit, Destroy, backendVars
<1>2. CASE Restart
  <2>1. /\ actions' = <<>> /\ eventQueue' = <<>> /\ bActions' = <<>> /\ bEvents' = <<>> /\ InHand' = {}
        /\ UNCHANGED <<data, answered, sent>>
    BY <1>2 DEF Restart, FrontFresh, BackendRestart, InHand, NoAction, storeVars
  <2>2. Elements(<<>>) = {} /\ Once(<<>>)
    BY ElementsEmpty
  <2> QED
    BY <2>1, <2>2 DEF OnePlace, QueuesOnce, QueuesApart, AllApart, Apart, OnlySent, HereOrBefore
<1> QED
  BY <1>1, <1>2

\* Nor do the uploader and the configuration, but rows get answered.
LEMMA UploaderBringsNothing ==
    ASSUME TypeOK, OnePlace, UploaderSteps \/ (ConfigChanges /\ Above)
    PROVE  /\ OnePlace' /\ UNCHANGED <<data, sent>> /\ InMemory' = InMemory
           /\ answered \subseteq answered' /\ answered' \subseteq DOMAIN data
<1>1. UNCHANGED <<actions, eventQueue, bActions, bAction, bEvents, sent>>
  BY DEF UploaderSteps, ConfigChanges, Above, frontVars, countVars, backendVars
<1>2. answered \subseteq DOMAIN data /\ events \subseteq DOMAIN data
  BY QueueTypes DEF TypeOK, StoreTypeOK, UploaderTypeOK
<1>3. UNCHANGED data /\ answered' \in {answered, answered \cup events}
  <2>1. CASE ConfigChanges
    BY <2>1 DEF ConfigChanges, storeVars, historyVars
  <2>2. CASE Window \/ CollectCount \/ CollectEvents \/ PostFailed \/ RetryWait
    BY <2>2 DEF Window, CollectCount, CollectEvents, PostFailed, RetryWait, storeVars, historyVars
  <2>3. CASE PostAnswered \/ Remove
    BY <2>3 DEF PostAnswered, Remove, RemoveEntries, storeVars
  <2> QED
    BY <2>1, <2>2, <2>3 DEF UploaderSteps, Uploader
<1> QED
  BY <1>1, <1>2, <1>3, StillOnePlace

-----------------------------------------------------------------------------
(* The steps of the plugin as those of EventDelivery. *)

\* Where each event is, when it is in one place.
Where(done, written, kept, last) ==
    [e \in Events |-> IF e \in done THEN "answered"
                     ELSE IF e \in written THEN "store"
                     ELSE IF e \in kept THEN "memory"
                     ELSE IF e <= last THEN "lost" ELSE "client"]

\* The events that the end point has dealt with.
Done == {data[i] : i \in answered}

LEMMA NeverTwice ==
    ASSUME NEW q \in Seq(Events), Once(q)
    PROVE  {q[i] : i \in {j \in DOMAIN q : \E k \in 1..(j - 1) : q[k] = q[j]}} = {}
<1> SUFFICES ASSUME NEW j \in DOMAIN q, NEW k \in 1..(j - 1), q[k] = q[j] PROVE FALSE
  OBVIOUS
<1>1. k \in DOMAIN q /\ k # j /\ q[j] \in Events
  OBVIOUS
<1> QED
  BY <1>1 DEF Once

LEMMA PlaceIs ==
    ASSUME data \in Seq(Events), OnePlace
    PROVE  PlaceOf = Where(Done, Elements(data), InMemory, sent)
<1>1. {data[i] : i \in {j \in DOMAIN data : \E k \in 1..(j - 1) : data[k] = data[j]}} = {}
  BY NeverTwice DEF OnePlace, QueuesOnce
<1> QED
  BY <1>1 DEF PlaceOf, Where, Done, Elements

LEMMA PlaceWillBe ==
    ASSUME data' \in Seq(Events), OnePlace'
    PROVE  PlaceOf' = Where(Done', Elements(data'), InMemory', sent')
<1>1. {data'[i] : i \in {j \in DOMAIN data' : \E k \in 1..(j - 1) : data'[k] = data'[j]}} = {}
  BY NeverTwice DEF OnePlace, QueuesOnce
<1> QED
  BY <1>1 DEF PlaceOf, Where, Done, Elements

\* What both states of a step have.
StepOK == TypeOK /\ OnePlace /\ TypeOK' /\ OnePlace'

DeliveryStep == [Delivery!Next]_PlaceOf

LEMMA PlacesOfStep ==
    ASSUME StepOK
    PROVE  /\ PlaceOf = Where(Done, Elements(data), InMemory, sent)
           /\ PlaceOf' = Where(Done', Elements(data'), InMemory', sent')
           /\ InMemory \cap Elements(data) = {} /\ InMemory \subseteq 1..sent
           /\ Elements(data) \subseteq Events /\ Done \subseteq Elements(data)
           /\ sent \in Nat /\ Events \subseteq Nat
<1>1. data \in Seq(Events) /\ data' \in Seq(Events)
  BY DEF StepOK, TypeOK, StoreTypeOK
<1>2. InMemory \cap Elements(data) = {}
  BY MemoryIs DEF StepOK, OnePlace, QueuesApart, AllApart, Apart
<1>3. Elements(data) \subseteq Events /\ Done \subseteq Elements(data)
  <2>1. DOMAIN data = 1..Len(data) /\ \A i \in DOMAIN data : data[i] \in Events
    BY <1>1
  <2>2. answered \subseteq DOMAIN data
    BY <2>1 DEF StepOK, TypeOK, StoreTypeOK
  <2> QED
    BY <2>1, <2>2 DEF Elements, Done
<1> QED
  BY <1>1, <1>2, <1>3, PlaceIs, PlaceWillBe, QueueTypes, EventIds DEF StepOK, OnePlace, OnlySent

\* Events that are no longer in memory, nor anywhere, are lost.
LEMMA LoseImage ==
    ASSUME StepOK, HereOrBefore
    PROVE  DeliveryStep
<1>1. Done' = Done /\ Elements(data') = Elements(data) /\ sent' = sent /\ InMemory' \subseteq InMemory
  BY DEF HereOrBefore, Done
<1>2. ASSUME NEW e \in Events
      PROVE  PlaceOf'[e] = PlaceOf[e] \/ (PlaceOf[e] = "memory" /\ PlaceOf'[e] = "lost")
  BY <1>1, PlacesOfStep DEF Where
<1> QED
  BY <1>2 DEF DeliveryStep, Delivery!Next, Delivery!Lose, Delivery!Move

LEMMA SendImage ==
    ASSUME StepOK, SendEvent
    PROVE  DeliveryStep
<1> DEFINE n == sent'
<1>1. /\ n = sent + 1 /\ n \in Events /\ InMemory' = InMemory \cup {n}
      /\ data' = data /\ answered' = answered
  BY SentOnce DEF StepOK
<1>2. Done' = Done /\ Elements(data') = Elements(data)
  BY <1>1 DEF Done
<1>3. Elements(data) \subseteq 1..sent
  BY DEF StepOK, OnePlace, OnlySent
<1> HIDE DEF n
<1>4. /\ n \notin InMemory /\ n \notin Elements(data) /\ n \notin Done /\ ~ (n <= sent)
      /\ \A e \in Events : e # n => (e <= n <=> e <= sent)
  BY <1>1, <1>3, PlacesOfStep
<1>5. PlaceOf[n] = "client" /\ PlaceOf'[n] = "memory"
  BY <1>1, <1>2, <1>4, PlacesOfStep DEF Where, n
<1>6. ASSUME NEW e \in Events, e # n
      PROVE  PlaceOf'[e] = PlaceOf[e]
  BY <1>1, <1>2, <1>4, <1>6, PlacesOfStep DEF Where, n
<1> QED
  BY <1>5, <1>6 DEF DeliveryStep, Delivery!Next, Delivery!Send, Delivery!MoveOne, Delivery!Move

LEMMA WriteImage ==
    ASSUME StepOK, answered' = answered, sent' = sent,
           NEW n \in InMemory, data' = Append(data, n), InMemory' = InMemory \ {n}
    PROVE  DeliveryStep
<1>1. n \in Events /\ data \in Seq(Events)
  BY MemoryIs DEF StepOK, TypeOK, StoreTypeOK
<1>2. Elements(data') = Elements(data) \cup {n}
  BY <1>1, ElementsAppend
<1>3. Done' = Done
  <2>1. answered \subseteq DOMAIN data /\ DOMAIN data = 1..Len(data)
    BY <1>1 DEF StepOK, TypeOK, StoreTypeOK
  <2>2. \A i \in DOMAIN data : data'[i] = data[i]
    BY <1>1
  <2> QED
    BY <2>1, <2>2 DEF Done
<1>4. n \notin Elements(data) /\ n \notin Done
  BY PlacesOfStep
<1>5. PlaceOf[n] = "memory" /\ PlaceOf'[n] = "store"
  BY <1>1, <1>2, <1>3, <1>4, PlacesOfStep DEF Where
<1>6. ASSUME NEW e \in Events, e # n
      PROVE  PlaceOf'[e] = PlaceOf[e]
  BY <1>2, <1>3, <1>6, PlacesOfStep DEF Where
<1> QED
  BY <1>5, <1>6 DEF DeliveryStep, Delivery!Next, Delivery!Write, Delivery!MoveOne, Delivery!Move

LEMMA AnswerImage ==
    ASSUME StepOK, UNCHANGED <<data, sent>>, InMemory' = InMemory,
           answered \subseteq answered', answered' \subseteq DOMAIN data
    PROVE  DeliveryStep
<1>1. /\ Elements(data') = Elements(data) /\ Done \subseteq Done' /\ Done' \subseteq Elements(data)
  BY DEF Elements, Done
<1>2. ASSUME NEW e \in Events
      PROVE  PlaceOf'[e] = PlaceOf[e] \/ (PlaceOf[e] = "store" /\ PlaceOf'[e] = "answered")
  BY <1>1, PlacesOfStep DEF Where
<1> QED
  BY <1>2 DEF DeliveryStep, Delivery!Next, Delivery!Answer, Delivery!Move

-----------------------------------------------------------------------------
(* The invariant, and the refinement. *)

\* What each step does to the places.
LEMMA StepPlaces ==
    ASSUME TypeOK, OnePlace, [Next]_vars
    PROVE  /\ OnePlace'
           /\ \/ HereOrBefore
              \/ SendEvent
              \/ /\ UNCHANGED <<answered, sent>>
                 /\ \E e \in InMemory : data' = Append(data, e) /\ InMemory' = InMemory \ {e}
              \/ /\ UNCHANGED <<data, sent>> /\ InMemory' = InMemory
                 /\ answered \subseteq answered' /\ answered' \subseteq DOMAIN data
<1>1. CASE FrontSteps
  BY <1>1, FrontHandsOn, CallsBringNothing, SentOnce DEF FrontSteps
<1>2. CASE BackendSteps
  <2>1. UNCHANGED <<actions, eventQueue, sent>>
    BY <1>2 DEF BackendSteps, Above, frontVars, countVars
  <2>2. CASE ConfigChanges
    BY <1>2, <2>2, UploaderBringsNothing DEF BackendSteps
  <2>3. CASE ActSend
    <3>1. CASE AddEntry(bAction.event)
      BY <2>1, <2>3, <3>1, WrittenOnce
    <3>2. CASE UNCHANGED storeVars
      BY <2>1, <2>3, <3>2, BackendHandsOn DEF storeVars
    <3> QED
      BY <2>3, <3>1, <3>2 DEF ActSend
  <2>4. CASE FlushOne
    BY <2>1, <2>4, WrittenOnce
  <2>5. CASE Take \/ FlushEnd \/ ActShutdown
    BY <2>1, <2>5, BackendHandsOn
  <2> QED
    BY <1>2, <2>2, <2>3, <2>4, <2>5 DEF BackendSteps, ActionLoop
<1>3. CASE UploaderSteps
  BY <1>3, UploaderBringsNothing
<1>4. CASE Exit \/ Restart
  BY <1>4, EndBringsNothing
<1>5. CASE UNCHANGED vars
  <2>1. UNCHANGED <<actions, eventQueue, bActions, bAction, bEvents, data, sent, answered>>
    BY <1>5 DEF vars, frontVars, countVars, backendVars, storeVars, historyVars
  <2> QED
    BY <2>1, StillOnePlace DEF HereOrBefore
<1> QED
  BY <1>1, <1>2, <1>3, <1>4, <1>5, Steps

LEMMA InitImage == Init => Delivery!Init
<1> SUFFICES ASSUME Init PROVE Delivery!Init
  OBVIOUS
<1>1. data = <<>> /\ answered = {} /\ sent = 0
  BY DEF Init, StoreInit
<1>2. OnePlace /\ Elements(data) = {} /\ Done = {} /\ data \in Seq(Events)
  BY <1>1, InitOnePlace, ElementsEmpty DEF Done
<1>3. InMemory \subseteq 1..0 /\ \A e \in Events : ~ (e <= sent)
  BY <1>1, <1>2 DEF OnePlace, OnlySent, Events
<1>4. PlaceOf = [e \in Events |-> "client"]
  BY <1>2, <1>3, PlaceIs DEF Where
<1> QED
  BY <1>4 DEF Delivery!Init

LEMMA StepImage ==
    ASSUME TypeOK, OnePlace, [Next]_vars
    PROVE  DeliveryStep
<1>1. StepOK
  BY TypeStep, StepPlaces DEF StepOK
<1> QED
  BY <1>1, StepPlaces, LoseImage, SendImage, WriteImage, AnswerImage

\* An event is in one of the queues in memory at a time, there once, and in none of them when it
\* is in the store: what a client sends is neither doubled on its way nor kept beside its row.
THEOREM EventsAreInOnePlace == Spec => []OnePlace
<1>1. Init => TypeOK /\ OnePlace
  BY InitTyping, InitOnePlace
<1>2. TypeOK /\ OnePlace /\ [Next]_vars => TypeOK' /\ OnePlace'
  BY TypeStep, StepPlaces
<1> QED
  BY <1>1, <1>2, PTL DEF Spec

\* Analytics implements EventDelivery: an event is written to the store at most once, is lost only
\* from memory, and leaves the store only as answered, whatever fails or is killed and however
\* often the plugin is activated again.
THEOREM DeliveryImplemented == Spec => DeliverySpec
<1>1. Init => Delivery!Init
  BY InitImage
<1>2. TypeOK /\ OnePlace /\ [Next]_vars => [Delivery!Next]_PlaceOf
  BY StepImage DEF DeliveryStep
<1> QED
  BY <1>1, <1>2, AnalyticsTypes, EventsAreInOnePlace, PTL DEF Spec, DeliverySpec, Delivery!Spec
-----------------------------------------------------------------------------
(* Undated events keep their order. *)

Undated == Events \ Dated

\* All undated events of the queue were sent before e, or after it.
Older(q, e) == \A i \in DOMAIN q : {q[i], e} \subseteq Undated => q[i] < e
Newer(e, q) == \A i \in DOMAIN q : {e, q[i]} \subseteq Undated => e < q[i]

LEMMA OrderAppend ==
    ASSUME NEW S, NEW q \in Seq(S), NEW e \in S, NEW r
    PROVE  /\ InOrder(q) /\ Older(q, e) => InOrder(Append(q, e))
           /\ Ahead(r, q) /\ Older(r, e) => Ahead(r, Append(q, e))
           /\ Ahead(q, r) /\ Newer(e, r) => Ahead(Append(q, e), r)
<1>1. /\ DOMAIN q = 1..Len(q) /\ Len(q) \in Nat
      /\ DOMAIN Append(q, e) = 1..(Len(q) + 1)
      /\ \A i \in 1..Len(q) : Append(q, e)[i] = q[i]
      /\ Append(q, e)[Len(q) + 1] = e
  OBVIOUS
<1>2. \A i \in 1..(Len(q) + 1) : i \in 1..Len(q) \/ i = Len(q) + 1
  BY <1>1
<1>3. \A i, j \in 1..(Len(q) + 1) : i < j => i \in 1..Len(q)
  BY <1>1
<1>4. ASSUME InOrder(q), Older(q, e), NEW i \in DOMAIN Append(q, e), NEW j \in DOMAIN Append(q, e),
             i < j, {Append(q, e)[i], Append(q, e)[j]} \subseteq Undated
      PROVE  Append(q, e)[i] < Append(q, e)[j]
  BY <1>1, <1>2, <1>3, <1>4 DEF InOrder, Older, Undated
<1>5. ASSUME Ahead(r, q), Older(r, e), NEW i \in DOMAIN r, NEW j \in DOMAIN Append(q, e),
             {r[i], Append(q, e)[j]} \subseteq Undated
      PROVE  r[i] < Append(q, e)[j]
  BY <1>1, <1>2, <1>5 DEF Ahead, Older, Undated
<1>6. ASSUME Ahead(q, r), Newer(e, r), NEW i \in DOMAIN Append(q, e), NEW j \in DOMAIN r,
             {Append(q, e)[i], r[j]} \subseteq Undated
      PROVE  Append(q, e)[i] < r[j]
  BY <1>1, <1>2, <1>6 DEF Ahead, Newer, Undated
<1> QED
  BY <1>4, <1>5, <1>6 DEF InOrder, Ahead, Undated

LEMMA OrderTail ==
    ASSUME NEW S, NEW q \in Seq(S), q # <<>>, NEW r
    PROVE  /\ InOrder(q) => InOrder(Tail(q)) /\ Newer(Head(q), Tail(q))
           /\ Ahead(r, q) => Ahead(r, Tail(q)) /\ Older(r, Head(q))
           /\ Ahead(q, r) => Ahead(Tail(q), r) /\ Newer(Head(q), r)
<1>1. /\ DOMAIN q = 1..Len(q) /\ Len(q) \in Nat /\ Len(q) > 0
      /\ DOMAIN Tail(q) = 1..(Len(q) - 1)
      /\ \A i \in 1..(Len(q) - 1) : Tail(q)[i] = q[i + 1]
      /\ Head(q) = q[1]
  OBVIOUS
<1>2. /\ \A i \in 1..(Len(q) - 1) : i + 1 \in 1..Len(q) /\ 1 < i + 1
      /\ \A i, j \in 1..(Len(q) - 1) : i < j => i + 1 < j + 1
      /\ 1 \in 1..Len(q)
  BY <1>1
<1>3. ASSUME InOrder(q) PROVE InOrder(Tail(q)) /\ Newer(Head(q), Tail(q))
  BY <1>1, <1>2, <1>3 DEF InOrder, Newer, Undated
<1>4. ASSUME Ahead(r, q) PROVE Ahead(r, Tail(q)) /\ Older(r, Head(q))
  BY <1>1, <1>2, <1>4 DEF Ahead, Older, Undated
<1>5. ASSUME Ahead(q, r) PROVE Ahead(Tail(q), r) /\ Newer(Head(q), r)
  BY <1>1, <1>2, <1>5 DEF Ahead, Newer, Undated
<1> QED
  BY <1>3, <1>4, <1>5

LEMMA OrderEmpty == ASSUME NEW r PROVE InOrder(<<>>) /\ Ahead(<<>>, r) /\ Ahead(r, <<>>)
  BY DEF InOrder, Ahead

\* What is no undated event has no place in the order.
LEMMA OrderOther == ASSUME NEW e, e \notin Undated, NEW q PROVE Older(q, e) /\ Newer(e, q)
  BY DEF Older, Newer

\* Events wait only for the time.
WaitInv == timeValid /\ fpc # "flush" => eventQueue = <<>>

OrderInv == UndatedKeepOrder /\ WaitInv

LEMMA InitOrder == Init => OrderInv
  BY OrderEmpty DEF Init, BackendInit, OrderInv, UndatedKeepOrder, WaitInv

\* What matters of a step that leaves the order alone.
LEMMA OrderKept ==
    ASSUME OrderInv, UNCHANGED <<bActions, eventQueue, actions, fpc, timeValid>>
    PROVE  OrderInv'
  BY DEF OrderInv, UndatedKeepOrder, WaitInv, InOrder, Ahead

\* What a call queues is the newest event, or none.
LEMMA CallsKeepOrder ==
    ASSUME TypeOK, OnePlace, OrderInv, Activate \/ Deactivate \/ SendEvent \/ SetTimeReady
    PROVE  OrderInv'
<1> USE EventIds, QueueTypes
<1>1. CASE Activate
  BY <1>1, OrderEmpty DEF Activate, FrontFresh, backendVars, OrderInv, UndatedKeepOrder, WaitInv
<1>2. CASE ~ Activate
  <2>1. PICK a \in Events \cup {Shutdown, TimeReady} :
           /\ actions' = Append(actions, a)
           /\ a \in Events => a = sent + 1
    <3>1. CASE SendEvent
      <4>1. sent + 1 \in Events
        BY <3>1 DEF SendEvent, Events
      <4> QED
        BY <3>1, <4>1 DEF SendEvent
    <3>2. CASE Deactivate
      BY <3>2 DEF Deactivate
    <3>3. CASE SetTimeReady
      BY <3>3 DEF SetTimeReady
    <3> QED
      BY <1>2, <3>1, <3>2, <3>3
  <2>2. UNCHANGED <<bActions, eventQueue, fpc, timeValid>>
    BY <1>2 DEF Deactivate, SendEvent, SetTimeReady, belowVars, backendVars
  <2>3. ASSUME NEW q, Elements(q) \cap Events \subseteq 1..sent PROVE Older(q, a)
    BY <2>1, <2>3 DEF Older, Elements, Undated
  <2>4. Older(actions, a) /\ Older(eventQueue, a) /\ Older(bActions, a)
    BY <2>3, MemoryIs DEF OnePlace, OnlySent
  <2> QED
    BY <2>1, <2>2, <2>4, OrderAppend DEF OrderInv, UndatedKeepOrder, WaitInv
<1> QED
  BY <1>1, <1>2

\* An undated event goes from the head of a queue to the end of the next one, which is behind
\* all that was sent before.
LEMMA FrontKeepsOrder ==
    ASSUME TypeOK, OrderInv, Front
    PROVE  OrderInv'
<1> USE EventIds, QueueTypes
<1>1. CASE TakeEvent
  <2> DEFINE e == Head(actions)
  <2>1. /\ e \in Events /\ actions # <<>> /\ actions' = Tail(actions)
        /\ fpc = "wait" /\ UNCHANGED <<fpc, timeValid>>
    BY <1>1 DEF TakeEvent
  <2>2. /\ InOrder(actions') /\ Newer(e, actions')
        /\ Older(eventQueue, e) /\ Ahead(eventQueue, actions')
        /\ Older(bActions, e) /\ Ahead(bActions, actions')
    BY <2>1, OrderTail DEF OrderInv, UndatedKeepOrder
  <2>3. CASE Datable(e)
    <3>1. bActions' = Append(bActions, e) /\ eventQueue' = eventQueue
      BY <1>1, <2>3 DEF TakeEvent, ToBackend
    <3>2. Newer(e, eventQueue)
      <4>1. CASE timeValid
        BY <2>1, <4>1 DEF OrderInv, WaitInv, Newer
      <4>2. CASE e \in Dated
        BY <4>2, OrderOther DEF Undated
      <4> QED
        BY <2>3, <4>1, <4>2 DEF Datable
    <3>3. InOrder(bActions') /\ Ahead(bActions', eventQueue) /\ Ahead(bActions', actions')
      BY <2>1, <2>2, <3>1, <3>2, OrderAppend DEF OrderInv, UndatedKeepOrder
    <3> QED
      BY <2>1, <2>2, <3>1, <3>3 DEF OrderInv, UndatedKeepOrder, WaitInv
  <2>4. CASE ~ Datable(e)
    <3>1. eventQueue' = Append(eventQueue, e) /\ bActions' = bActions /\ ~ timeValid
      BY <1>1, <2>4 DEF TakeEvent, Datable
    <3>2. InOrder(eventQueue') /\ Ahead(bActions, eventQueue') /\ Ahead(eventQueue', actions')
      BY <2>1, <2>2, <3>1, OrderAppend DEF OrderInv, UndatedKeepOrder
    <3> QED
      BY <2>1, <2>2, <3>1, <3>2 DEF OrderInv, UndatedKeepOrder, WaitInv
  <2> QED
    BY <2>3, <2>4
<1>2. CASE TakeTimeReady
  <2>1. /\ actions # <<>> /\ actions' = Tail(actions) /\ fpc' = "flush"
        /\ UNCHANGED <<eventQueue, bActions>>
    BY <1>2 DEF TakeTimeReady, belowVars, backendVars
  <2> QED
    BY <2>1, OrderTail DEF OrderInv, UndatedKeepOrder, WaitInv
<1>3. CASE FlushWaiting
  <2> DEFINE e == Head(eventQueue)
  <2>1. CASE eventQueue # <<>>
    <3>1. /\ e \in Events /\ eventQueue' = Tail(eventQueue) /\ bActions' = Append(bActions, e)
          /\ fpc' = "flush" /\ UNCHANGED actions
      BY <1>3, <2>1, HeadAndTail DEF FlushWaiting, ToBackend
    <3>2. /\ InOrder(eventQueue') /\ Newer(e, eventQueue')
          /\ Older(bActions, e) /\ Ahead(bActions, eventQueue')
          /\ Newer(e, actions) /\ Ahead(eventQueue', actions)
      BY <2>1, <3>1, OrderTail DEF OrderInv, UndatedKeepOrder
    <3>3. InOrder(bActions') /\ Ahead(bActions', eventQueue') /\ Ahead(bActions', actions)
      BY <3>1, <3>2, OrderAppend DEF OrderInv, UndatedKeepOrder
    <3> QED
      BY <3>1, <3>2, <3>3 DEF OrderInv, UndatedKeepOrder, WaitInv
  <2>2. CASE eventQueue = <<>>
    BY <1>3, <2>2 DEF FlushWaiting, OrderInv, UndatedKeepOrder, WaitInv
  <2> QED
    BY <2>1, <2>2
<1>4. CASE TakeShutdown
  BY <1>4, OrderEmpty DEF TakeShutdown, FrontFresh, belowVars, backendVars, OrderInv, UndatedKeepOrder, WaitInv
<1> QED
  BY <1>1, <1>2, <1>3, <1>4 DEF Front

\* The backend's queue loses its head, or the shutdown comes to its end.
LEMMA BelowKeepsOrder ==
    ASSUME TypeOK, OrderInv, BackendSteps \/ UploaderSteps \/ Exit
    PROVE  OrderInv'
<1> USE EventIds, QueueTypes
<1>1. UNCHANGED <<eventQueue, actions, fpc, timeValid>>
  BY DEF BackendSteps, UploaderSteps, Exit, Above, frontVars
<1>2. \/ bActions' = bActions
      \/ bActions # <<>> /\ bActions' = Tail(bActions)
      \/ bActions' = Append(bActions, Shutdown)
  BY DEF BackendSteps, ConfigChanges, ActionLoop, Take, ActSend, FlushOne, FlushEnd, ActShutdown,
         UploaderSteps, Exit, Destroy, backendVars
<1>3. CASE bActions' = bActions
  BY <1>1, <1>3, OrderKept
<1>4. CASE bActions # <<>> /\ bActions' = Tail(bActions)
  <2>1. /\ InOrder(bActions') /\ Ahead(bActions', eventQueue) /\ Ahead(bActions', actions)
    BY <1>4, OrderTail DEF OrderInv, UndatedKeepOrder
  <2> QED
    BY <1>1, <1>4, <2>1 DEF OrderInv, UndatedKeepOrder, WaitInv
<1>5. CASE bActions' = Append(bActions, Shutdown)
  <2>1. /\ Older(bActions, Shutdown)
        /\ Newer(Shutdown, eventQueue) /\ Newer(Shutdown, actions)
    BY OrderOther DEF Undated
  <2>2. /\ InOrder(bActions') /\ Ahead(bActions', eventQueue) /\ Ahead(bActions', actions)
    BY <1>5, <2>1, OrderAppend DEF OrderInv, UndatedKeepOrder
  <2> QED
    BY <1>1, <2>2 DEF OrderInv, UndatedKeepOrder, WaitInv
<1> QED
  BY <1>2, <1>3, <1>4, <1>5

LEMMA StepOrder == TypeOK /\ OnePlace /\ OrderInv /\ [Next]_vars => OrderInv'
<1> SUFFICES ASSUME TypeOK, OnePlace, OrderInv, [Next]_vars PROVE OrderInv'
  OBVIOUS
<1>1. CASE UNCHANGED vars
  BY <1>1, OrderKept DEF vars, backendVars, frontVars
<1>2. CASE Restart
  BY <1>2, OrderEmpty DEF Restart, BackendRestart, FrontFresh, OrderInv, UndatedKeepOrder, WaitInv
<1> QED
  BY <1>1, <1>2, CallsKeepOrder, FrontKeepsOrder, BelowKeepsOrder, Steps DEF FrontSteps

\* Events without an epoch time reach SiftBackend in the order in which they were sent, however
\* the time's arrival falls between them.
THEOREM UndatedEventsKeepOrder == Spec => []UndatedKeepOrder
<1>1. TypeOK /\ OnePlace /\ OrderInv /\ [Next]_vars => OrderInv'
  BY StepOrder
<1>2. OrderInv => UndatedKeepOrder
  BY DEF OrderInv
<1> QED
  BY <1>1, <1>2, InitOrder, AnalyticsTypes, EventsAreInOnePlace, PTL DEF Spec
=============================================================================
