------------------------ MODULE HdmiCecSinkArcProofs ------------------------
(***************************************************************************)
(* What holds of HdmiCecSinkArc for any number of calls, events and        *)
(* messages.  Each invariant is inductive, given the types.                *)
(***************************************************************************)
EXTENDS HdmiCecSinkArc, TLAPS

\* The steps that a thread takes by itself, and those that come from outside.
Outside ==
    ApiCall \/ PowerChange \/ Unplug \/ SystemAudioModeOff \/ AnswerComes \/ CECEnable \/ CECDisable

\* The threads and their places, and a thread's move.
LEMMA ThreadsAre == {"api", "iarm", "cec", "enable", "timer"} \subseteq Threads
BY DEF Threads

LEMMA PlacesAre ==
    /\ {"idle", "start", "stop", "stopWrite", "signal"} \subseteq Places
    /\ {"isActive", "revoke", "clear", "restart", "schedule", "activate", "fired"} \subseteq Places
    /\ {"power", "initiated", "terminated", "answer"} \subseteq Places
    /\ {"disable", "await", "disabled", "exit", "exitSignal", "join", "gone"} \subseteq Places
BY DEF Places, Stopping

LEMMA ReturnsAre ==
    {"idle", "restart", "power", "terminated"} \subseteq Returns /\ Returns \subseteq Places
BY DEF Places, Returns

LEMMA GoTypes ==
    ASSUME pc \in [Threads -> Places], NEW t \in Threads, NEW place \in Places, Go(t, place)
    PROVE  pc' \in [Threads -> Places]
BY DEF Go

LEMMA StopTimerTypes ==
    ASSUME pc \in [Threads -> Places], back \in [Threads -> Returns], NEW t \in Threads, NEW place \in Returns,
           StopTimerAndGo(t, place)
    PROVE  pc' \in [Threads -> Places] /\ back' \in [Threads -> Returns]
BY GoTypes, PlacesAre, ReturnsAre DEF StopTimerAndGo

LEMMA GoBackTypes ==
    ASSUME pc \in [Threads -> Places], back \in [Threads -> Returns], NEW t \in Threads, GoBack(t)
    PROVE  pc' \in [Threads -> Places] /\ back' \in [Threads -> Returns]
BY GoTypes, PlacesAre, ReturnsAre DEF GoBack

LEMMA TypeInit == ASSUME Init PROVE TypeOK
<1>1. pc \in [Threads -> Places] /\ back \in [Threads -> Returns] BY PlacesAre, ReturnsAre DEF Init
<1>2. PlaceTypeOK BY <1>1, MaxOpsAssumption DEF Init, PlaceTypeOK, ArcStates, Requests
<1>3. FlagTypeOK BY Zenon DEF Init, FlagTypeOK
<1>4. QED BY <1>2, <1>3 DEF TypeOK

LEMMA PlacesOutside == ASSUME PlaceTypeOK, Outside PROVE PlaceTypeOK'
<1> USE MaxOpsAssumption, GoTypes, StopTimerTypes, GoBackTypes, ThreadsAre, PlacesAre, ReturnsAre DEF PlaceTypeOK, ArcStates, Requests, Comes, Write, stateVars, timerVars,
        modeVars, placeVars, routingVars
<1>1. CASE ApiCall BY <1>1 DEF ApiCall
<1>2. CASE PowerChange BY <1>2 DEF PowerChange
<1>3. CASE Unplug BY <1>3 DEF Unplug
<1>4. CASE SystemAudioModeOff BY <1>4 DEF SystemAudioModeOff
<1>5. CASE AnswerComes BY <1>5 DEF AnswerComes
<1>6. CASE CECEnable BY <1>6 DEF CECEnable
<1>7. CASE CECDisable BY <1>7 DEF CECDisable
<1>8. QED BY <1>1, <1>2, <1>3, <1>4, <1>5, <1>6, <1>7 DEF Outside

LEMMA FlagsOutside == ASSUME FlagTypeOK, Outside PROVE FlagTypeOK'
<1> USE DEF FlagTypeOK, Write, stateVars, timerVars, modeVars, placeVars, routingVars
<1>1. CASE ApiCall BY <1>1, Zenon DEF ApiCall
<1>2. CASE PowerChange BY <1>2, Zenon DEF PowerChange
<1>3. CASE Unplug BY <1>3, Zenon DEF Unplug
<1>4. CASE SystemAudioModeOff BY <1>4, Zenon DEF SystemAudioModeOff
<1>5. CASE AnswerComes BY <1>5, Zenon DEF AnswerComes
<1>6. CASE CECEnable BY <1>6, Zenon DEF CECEnable
<1>7. CASE CECDisable BY <1>7, Zenon DEF CECDisable
<1>8. QED BY <1>1, <1>2, <1>3, <1>4, <1>5, <1>6, <1>7 DEF Outside

LEMMA PlacesStep == ASSUME PlaceTypeOK, NEW t \in Threads, Step(t) PROVE PlaceTypeOK'
<1> USE GoTypes, StopTimerTypes, GoBackTypes, ThreadsAre, PlacesAre, ReturnsAre DEF PlaceTypeOK, ArcStates, Requests, Write, After, Release, stateVars, timerVars,
        modeVars, placeVars, routingVars
<1>1. CASE StopCheck(t) BY <1>1 DEF StopCheck
<1>2. CASE RequestWrite(t) BY <1>2 DEF RequestWrite
<1>3. CASE RequestSignal(t) BY <1>3 DEF RequestSignal
<1>4. CASE IsActive(t) BY <1>4 DEF IsActive
<1>5. CASE TimerStop(t) BY <1>5 DEF TimerStop
<1>6. CASE TimerStart(t) BY <1>6 DEF TimerStart
<1>7. QED BY <1>1, <1>2, <1>3, <1>4, <1>5, <1>6 DEF Step

LEMMA FlagsStep == ASSUME FlagTypeOK, NEW t \in Threads, Step(t) PROVE FlagTypeOK'
<1> USE DEF FlagTypeOK, Write, stateVars, timerVars, modeVars, placeVars, routingVars
<1>1. CASE StopCheck(t) BY <1>1, Zenon DEF StopCheck
<1>2. CASE RequestWrite(t) BY <1>2, Zenon DEF RequestWrite
<1>3. CASE RequestSignal(t) BY <1>3, Zenon DEF RequestSignal
<1>4. CASE IsActive(t) BY <1>4, Zenon DEF IsActive
<1>5. CASE TimerStop(t) BY <1>5, Zenon DEF TimerStop
<1>6. CASE TimerStart(t) BY <1>6, Zenon DEF TimerStart
<1>7. QED BY <1>1, <1>2, <1>3, <1>4, <1>5, <1>6 DEF Step

LEMMA PlacesCec == ASSUME PlaceTypeOK, CecStep PROVE PlaceTypeOK'
<1> USE GoTypes, StopTimerTypes, GoBackTypes, ThreadsAre, PlacesAre, ReturnsAre DEF PlaceTypeOK, ArcStates, Requests, Write, Release, stateVars, timerVars,
        modeVars, placeVars, routingVars
<1>1. CASE AnswerPower BY <1>1 DEF AnswerPower
<1>2. CASE AnswerWrite BY <1>2 DEF AnswerWrite
<1>3. CASE AnswerSignal BY <1>3 DEF AnswerSignal
<1>4. QED BY <1>1, <1>2, <1>3 DEF CecStep

LEMMA FlagsCec == ASSUME FlagTypeOK, CecStep PROVE FlagTypeOK'
<1> USE DEF FlagTypeOK, Write, stateVars, timerVars, modeVars, placeVars, routingVars
<1>1. CASE AnswerPower BY <1>1, Zenon DEF AnswerPower
<1>2. CASE AnswerWrite BY <1>2, Zenon DEF AnswerWrite
<1>3. CASE AnswerSignal BY <1>3, Zenon DEF AnswerSignal
<1>4. QED BY <1>1, <1>2, <1>3 DEF CecStep

LEMMA PlacesEnable == ASSUME PlaceTypeOK, EnableStep PROVE PlaceTypeOK'
<1> USE GoTypes, StopTimerTypes, GoBackTypes, ThreadsAre, PlacesAre, ReturnsAre DEF PlaceTypeOK, ArcStates, Requests, Write, Release, Disabled, stateVars, timerVars,
        modeVars, placeVars, routingVars
<1>1. CASE DisableCheck BY <1>1 DEF DisableCheck
<1>2. CASE DisableStatus BY <1>2 DEF DisableStatus
<1>3. CASE DisableWrite BY <1>3 DEF DisableWrite
<1>4. CASE ExitStep BY <1>4 DEF ExitStep, Exit
<1>5. QED BY <1>1, <1>2, <1>3, <1>4 DEF EnableStep

LEMMA FlagsEnable == ASSUME FlagTypeOK, EnableStep PROVE FlagTypeOK'
<1> USE DEF FlagTypeOK, Write, stateVars, timerVars, modeVars, placeVars, routingVars
<1>1. CASE DisableCheck BY <1>1, Zenon DEF DisableCheck
<1>2. CASE DisableStatus BY <1>2, Zenon DEF DisableStatus
<1>3. CASE DisableWrite BY <1>3, Zenon DEF DisableWrite
<1>4. CASE ExitStep BY <1>4, Zenon DEF ExitStep, Exit
<1>5. QED BY <1>1, <1>2, <1>3, <1>4 DEF EnableStep

LEMMA PlacesTimer == ASSUME PlaceTypeOK, TimerFires \/ TimerCallback PROVE PlaceTypeOK'
<1> USE GoTypes, StopTimerTypes, GoBackTypes, ThreadsAre, PlacesAre, ReturnsAre DEF PlaceTypeOK, ArcStates, Requests, Write, stateVars, timerVars,
        modeVars, placeVars, routingVars
<1>1. CASE TimerFires BY <1>1 DEF TimerFires
<1>2. CASE TimerCallback BY <1>2 DEF TimerCallback
<1>3. QED BY <1>1, <1>2

LEMMA FlagsTimer == ASSUME FlagTypeOK, TimerFires \/ TimerCallback PROVE FlagTypeOK'
<1> USE DEF FlagTypeOK, Write, stateVars, timerVars, modeVars, placeVars, routingVars
<1>1. CASE TimerFires BY <1>1, Zenon DEF TimerFires
<1>2. CASE TimerCallback BY <1>2, Zenon DEF TimerCallback
<1>3. QED BY <1>1, <1>2

LEMMA PlacesRouting == ASSUME PlaceTypeOK, Routing PROVE PlaceTypeOK'
<1> USE GoTypes, StopTimerTypes, GoBackTypes, ThreadsAre, PlacesAre, ReturnsAre DEF PlaceTypeOK, ArcStates, Requests, stateVars, timerVars,
        modeVars, placeVars, routingVars
<1>1. CASE RoutingAcquire BY <1>1 DEF RoutingAcquire
<1>2. CASE RoutingRead BY <1>2 DEF RoutingRead
<1>3. CASE RoutingAct BY <1>3 DEF RoutingAct
<1>4. QED BY <1>1, <1>2, <1>3 DEF Routing

LEMMA FlagsRouting == ASSUME FlagTypeOK, Routing PROVE FlagTypeOK'
<1> USE DEF FlagTypeOK, stateVars, timerVars, modeVars, placeVars, routingVars
<1>1. CASE RoutingAcquire BY <1>1, Zenon DEF RoutingAcquire
<1>2. CASE RoutingRead BY <1>2, Zenon DEF RoutingRead
<1>3. CASE RoutingAct BY <1>3, Zenon DEF RoutingAct
<1>4. QED BY <1>1, <1>2, <1>3 DEF Routing

LEMMA TypeStutter == ASSUME TypeOK, UNCHANGED vars PROVE TypeOK'
BY DEF TypeOK, PlaceTypeOK, FlagTypeOK, vars, stateVars, timerVars, modeVars, placeVars, routingVars

\* Every member keeps its type, and a scheduled timer is active (TpTimer), whatever comes.
THEOREM ArcTypes == Spec => []TypeOK
<1>1. Init => TypeOK BY TypeInit
<1>2. TypeOK /\ [Next]_vars => TypeOK'
  <2>1. PlaceTypeOK /\ Next => PlaceTypeOK'
    BY PlacesOutside, PlacesStep, PlacesCec, PlacesEnable, PlacesTimer, PlacesRouting DEF Next, Outside
  <2>2. FlagTypeOK /\ Next => FlagTypeOK'
    BY FlagsOutside, FlagsStep, FlagsCec, FlagsEnable, FlagsTimer, FlagsRouting DEF Next, Outside
  <2>3. QED BY <2>1, <2>2, TypeStutter DEF TypeOK
<1>3. QED BY <1>1, <1>2, PTL DEF Spec
-----------------------------------------------------------------------------

\* The state was written, and its signal is on its way; or it has been received.
LEMMA ForgottenOutside ==
    ASSUME PlaceTypeOK, NoStateForgotten, Outside PROVE NoStateForgotten'
<1> USE DEF PlaceTypeOK, NoStateForgotten, Threads, Comes, Go, StopTimerAndGo, Write, stateVars, timerVars, modeVars, placeVars, routingVars
<1>1. CASE ApiCall BY <1>1 DEF ApiCall
<1>2. CASE PowerChange BY <1>2 DEF PowerChange
<1>3. CASE Unplug BY <1>3 DEF Unplug
<1>4. CASE SystemAudioModeOff BY <1>4 DEF SystemAudioModeOff
<1>5. CASE AnswerComes BY <1>5 DEF AnswerComes
<1>6. CASE CECEnable BY <1>6 DEF CECEnable
<1>7. CASE CECDisable BY <1>7 DEF CECDisable
<1>8. QED BY <1>1, <1>2, <1>3, <1>4, <1>5, <1>6, <1>7 DEF Outside

LEMMA ForgottenStep ==
    ASSUME PlaceTypeOK, NoStateForgotten, NEW t \in Threads, Step(t) PROVE NoStateForgotten'
<1> USE DEF PlaceTypeOK, NoStateForgotten, Threads, Go, StopTimerAndGo, GoBack, Write, Release, After,
        stateVars, timerVars, modeVars, placeVars, routingVars
<1>1. CASE StopCheck(t) BY <1>1 DEF StopCheck
<1>2. CASE RequestWrite(t) BY <1>2 DEF RequestWrite
<1>3. CASE RequestSignal(t) BY <1>3 DEF RequestSignal
<1>4. CASE IsActive(t) BY <1>4 DEF IsActive
<1>5. CASE TimerStop(t) BY <1>5 DEF TimerStop
<1>6. CASE TimerStart(t) BY <1>6 DEF TimerStart
<1>7. QED BY <1>1, <1>2, <1>3, <1>4, <1>5, <1>6 DEF Step

LEMMA ForgottenCec ==
    ASSUME PlaceTypeOK, NoStateForgotten, CecStep PROVE NoStateForgotten'
<1> USE DEF PlaceTypeOK, NoStateForgotten, Threads, Go, Write, Release,
        stateVars, timerVars, modeVars, placeVars, routingVars
<1>1. CASE AnswerPower BY <1>1 DEF AnswerPower
<1>2. CASE AnswerWrite BY <1>2 DEF AnswerWrite
<1>3. CASE AnswerSignal BY <1>3 DEF AnswerSignal
<1>4. QED BY <1>1, <1>2, <1>3 DEF CecStep

LEMMA ForgottenEnable ==
    ASSUME PlaceTypeOK, NoStateForgotten, EnableStep PROVE NoStateForgotten'
<1> USE DEF PlaceTypeOK, NoStateForgotten, Threads, Go, Write, Release,
        stateVars, timerVars, modeVars, placeVars, routingVars
<1>1. CASE DisableCheck BY <1>1 DEF DisableCheck
<1>2. CASE DisableStatus BY <1>2 DEF DisableStatus
<1>3. CASE DisableWrite BY <1>3 DEF DisableWrite
<1>4. CASE ExitStep BY <1>4 DEF ExitStep, Exit
<1>5. QED BY <1>1, <1>2, <1>3, <1>4 DEF EnableStep

\* The semaphore is taken before the state is read, so that a write after the read finds it
\* at 0 and leaves it at 1.
LEMMA ForgottenRouting ==
    ASSUME PlaceTypeOK, NoStateForgotten, Routing PROVE NoStateForgotten'
<1> USE DEF PlaceTypeOK, NoStateForgotten, stateVars, timerVars, modeVars, placeVars, routingVars
<1>1. CASE RoutingAcquire BY <1>1 DEF RoutingAcquire
<1>2. CASE RoutingRead BY <1>2 DEF RoutingRead
<1>3. CASE RoutingAct BY <1>3 DEF RoutingAct
<1>4. QED BY <1>1, <1>2, <1>3 DEF Routing

\* The timer writes "terminated" only.
LEMMA ForgottenTimer ==
    ASSUME PlaceTypeOK, NoStateForgotten, TimerFires \/ TimerCallback PROVE NoStateForgotten'
BY DEF NoStateForgotten, TimerFires, TimerCallback, Write, Go, StopTimerAndGo, Threads, PlaceTypeOK,
       stateVars, timerVars, modeVars, placeVars, routingVars

\* Every state that a thread writes and signals is acted upon by the routing thread, or will
\* be, whatever the binary semaphore merges.
THEOREM NothingForgotten == Spec => []NoStateForgotten
<1>1. Init => NoStateForgotten BY DEF Init, NoStateForgotten
<1>2. PlaceTypeOK /\ NoStateForgotten /\ [Next]_vars => NoStateForgotten'
  <2>1. ASSUME NoStateForgotten, UNCHANGED vars PROVE NoStateForgotten'
    BY <2>1 DEF NoStateForgotten, vars, stateVars, timerVars, modeVars, placeVars, routingVars
  <2>2. QED BY <2>1, ForgottenOutside, ForgottenStep, ForgottenCec, ForgottenEnable,
               ForgottenRouting, ForgottenTimer DEF Next, Outside
<1>3. TypeOK => PlaceTypeOK BY DEF TypeOK
<1>4. QED BY <1>1, <1>2, <1>3, ArcTypes, PTL DEF Spec
-----------------------------------------------------------------------------
LEMMA TimedOutside ==
    ASSUME PlaceTypeOK, RequestIsTimed, Outside PROVE RequestIsTimed'
<1> USE DEF PlaceTypeOK, RequestIsTimed, AtTimer, Stopping, Requests, Threads, Comes, Go, StopTimerAndGo, Write, stateVars, timerVars,
        modeVars, placeVars, routingVars
<1>1. CASE ApiCall BY <1>1 DEF ApiCall
<1>2. CASE PowerChange BY <1>2 DEF PowerChange
<1>3. CASE Unplug BY <1>3 DEF Unplug
<1>4. CASE SystemAudioModeOff BY <1>4 DEF SystemAudioModeOff
<1>5. CASE AnswerComes BY <1>5 DEF AnswerComes
<1>6. CASE CECEnable BY <1>6 DEF CECEnable
<1>7. CASE CECDisable BY <1>7 DEF CECDisable
<1>8. QED BY <1>1, <1>2, <1>3, <1>4, <1>5, <1>6, <1>7 DEF Outside

LEMMA TimedStep ==
    ASSUME PlaceTypeOK, RequestIsTimed, NEW t \in Threads, Step(t) PROVE RequestIsTimed'
<1> USE DEF PlaceTypeOK, RequestIsTimed, AtTimer, Stopping, Requests, Threads, Go, StopTimerAndGo, GoBack, Returns, Write, After, stateVars,
        timerVars, modeVars, placeVars, routingVars
<1>1. CASE StopCheck(t) BY <1>1 DEF StopCheck
<1>2. CASE RequestWrite(t) BY <1>2 DEF RequestWrite
<1>3. CASE RequestSignal(t) BY <1>3 DEF RequestSignal
<1>4. CASE IsActive(t) BY <1>4 DEF IsActive
<1>5. CASE TimerStop(t)
  <2>1. CASE pc[t] = "revoke"
    <3>1. CASE back[t] # "idle" BY <1>5, <2>1, <3>1 DEF TimerStop
    <3>2. CASE back[t] = "idle" /\ jobs = 0 BY <1>5, <2>1, <3>2 DEF TimerStop
    <3>3. CASE back[t] = "idle" /\ jobs > 0
      <4>1. arcState \in Requests => untimed' BY <1>5, <2>1, <3>3, Zenon DEF TimerStop
      <4>2. UNCHANGED arcState BY <1>5 DEF TimerStop
      <4>3. QED BY <4>1, <4>2, Zenon
    <3>4. QED BY <3>1, <3>2, <3>3
  <2>2. CASE pc[t] = "clear" BY <1>5, <2>2 DEF TimerStop
  <2>3. QED BY <1>5, <2>1, <2>2 DEF TimerStop
<1>6. CASE TimerStart(t) BY <1>6 DEF TimerStart
<1>7. QED BY <1>1, <1>2, <1>3, <1>4, <1>5, <1>6 DEF Step

\* Only a message in standby leaves a request without a timer.
LEMMA TimedCec ==
    ASSUME PlaceTypeOK, RequestIsTimed, CecStep PROVE RequestIsTimed'
<1> USE DEF PlaceTypeOK, RequestIsTimed, AtTimer, Stopping, Requests, Threads, Go, Write, stateVars, timerVars,
        modeVars, placeVars, routingVars
<1>1. CASE AnswerPower
  <2>1. CASE powerOn \/ jobs > 0 BY <1>1, <2>1 DEF AnswerPower
  <2>2. CASE ~ powerOn /\ jobs = 0
    <3>1. arcState \in Requests => untimed' BY <1>1, <2>2, Zenon DEF AnswerPower
    <3>2. UNCHANGED arcState BY <1>1 DEF AnswerPower
    <3>3. QED BY <3>1, <3>2, Zenon
  <2>3. QED BY <2>1, <2>2
<1>2. CASE AnswerWrite BY <1>2 DEF AnswerWrite
<1>3. CASE AnswerSignal BY <1>3 DEF AnswerSignal
<1>4. QED BY <1>1, <1>2, <1>3 DEF CecStep

LEMMA TimedEnable ==
    ASSUME PlaceTypeOK, RequestIsTimed, EnableStep PROVE RequestIsTimed'
<1> USE DEF PlaceTypeOK, RequestIsTimed, AtTimer, Stopping, Requests, Threads, Go, Write, Disabled, stateVars, timerVars,
        modeVars, placeVars, routingVars
<1>1. CASE DisableCheck BY <1>1 DEF DisableCheck
<1>2. CASE DisableStatus BY <1>2 DEF DisableStatus
<1>3. CASE DisableWrite BY <1>3 DEF DisableWrite
<1>4. CASE ExitStep BY <1>4 DEF ExitStep, Exit
<1>5. QED BY <1>1, <1>2, <1>3, <1>4 DEF EnableStep

\* So does the end of an expiry.
LEMMA TimedTimer ==
    ASSUME PlaceTypeOK, RequestIsTimed, TimerFires \/ TimerCallback PROVE RequestIsTimed'
<1> USE DEF PlaceTypeOK, RequestIsTimed, AtTimer, Stopping, Requests, Threads, Go, StopTimerAndGo, Write, stateVars, timerVars,
        modeVars, placeVars, routingVars
<1>1. CASE TimerFires BY <1>1 DEF TimerFires
<1>2. CASE TimerCallback BY <1>2 DEF TimerCallback
<1>3. QED BY <1>1, <1>2

LEMMA TimedRouting ==
    ASSUME RequestIsTimed, Routing \/ UNCHANGED vars PROVE RequestIsTimed'
BY DEF RequestIsTimed, AtTimer, Routing, RoutingAcquire, RoutingRead, RoutingAct, vars,
       stateVars, timerVars, modeVars, placeVars, routingVars

\* While a request stands its timer runs, has just expired, or is about to be started, or its
\* answer is at work; but for the two cases that RequestIsTimed names.
THEOREM RequestsAreTimed == Spec => []RequestIsTimed
<1>1. Init => RequestIsTimed BY DEF Init, RequestIsTimed, Requests
<1>2. PlaceTypeOK /\ RequestIsTimed /\ [Next]_vars => RequestIsTimed'
  BY TimedOutside, TimedStep, TimedCec, TimedEnable, TimedTimer, TimedRouting DEF Next, Outside
<1>3. TypeOK => PlaceTypeOK BY DEF TypeOK
<1>4. QED BY <1>1, <1>2, <1>3, ArcTypes, PTL DEF Spec
=============================================================================
