--------------------------- MODULE HdmiCecSinkArc ---------------------------
(***************************************************************************)
(* The Audio Return Channel in HdmiCecSink: m_currentArcRoutingState, which*)
(* clients, power and hot-plug events, the audio device's CEC messages, the*)
(* 3 s timer and CECDisable() write from threads of their own, and the     *)
(* thread that tells the audio device of what they wrote.                  *)
(*                                                                         *)
(* m_arcRoutingStateMutex guards single writes and the routing thread's    *)
(* read; the tests of the state are made without it.  An operation is      *)
(* therefore split wherever another thread may come in between: pc says    *)
(* where a thread is.  TpTimer has no mutex either: its start(), its stop() *)
(* and the test of isActive() before it are split as the operations are.   *)
(* Events for DisplaySettings, and m_arcstarting, which only chooses one,  *)
(* are left out.                                                           *)
(***************************************************************************)
EXTENDS Naturals

CONSTANTS
    MaxOps,  \* bound: how many calls, events and messages come
    Env      \* which of them do

Inputs == {"setup", "power", "unplug", "audioOff", "initiate", "terminate",
           "enable", "setEnabled", "deinitialize"}

ASSUME MaxOpsAssumption == MaxOps \in Nat
ASSUME EnvAssumption == Env \subseteq Inputs

VARIABLES
    arcState,       \* m_currentArcRoutingState
    sem,            \* m_semSignaltoArcRoutingThread
    jobs,           \* how many times the job of m_arcStartStopTimer is scheduled
    timerActive,    \* its m_isActive
    powerOn,        \* powerState = DEVICE_POWER_STATE_ON
    settingEnabled, \* cecSettingEnabled
    cecEnabled,     \* cecEnableStatus
    leaving,        \* Deinitialize() has begun
    pc,             \* where each thread but the next is
    back,           \* where it goes on after TpTimer's stop()
    rpc,            \* where threadArcRouting() is
    routed,         \* currentArcRoutingState in threadArcRouting()
    ops,            \* how many calls, events and messages came
    reported,       \* history: the routing thread has acted on arcState since it was written,
                    \* or need not, as "terminated" is mostly written without a signal
    untimed         \* history: the timer of the standing request was revoked by someone else

stateVars == <<arcState, reported>>
timerVars == <<jobs, timerActive, untimed>>
modeVars == <<powerOn, settingEnabled, cecEnabled, leaving>>
placeVars == <<pc, back>>
routingVars == <<rpc, routed>>
vars == <<stateVars, sem, timerVars, modeVars, placeVars, routingVars, ops>>

\* ARC_STATE_REQUEST_ARC_INITIATION, ARC_INITIATED, ...
Requests == {"reqInitiation", "reqTermination"}
ArcStates == Requests \cup {"initiated", "terminated", "exit"}

\* setupARCRouting calls; IARM events; CEC messages; setEnabled() and Deinitialize(); and
\* TpTimer's thread.
Threads == {"api", "iarm", "cec", "enable", "timer"}
Stopping == {"isActive", "revoke", "clear"}
Returns == {"idle", "restart", "power", "terminated"}
Places == Stopping \cup
          {"idle", "start", "stop", "stopWrite", "signal", "restart", "schedule", "activate",
           "fired", "power", "initiated", "terminated", "answer",
           "disable", "await", "disabled", "exit", "exitSignal", "join", "gone"}

Init ==
    /\ arcState = "terminated" /\ reported = TRUE /\ sem = 0
    /\ jobs = 0 /\ timerActive = FALSE /\ untimed = FALSE
    /\ powerOn \in BOOLEAN /\ settingEnabled = TRUE /\ cecEnabled = TRUE /\ leaving = FALSE
    /\ pc = [t \in Threads |-> "idle"] /\ back = [t \in Threads |-> "idle"]
    /\ rpc = "acquire" /\ routed = "terminated" /\ ops = 0

Go(t, place) == pc' = [pc EXCEPT ![t] = place]

\* CEC messages come as long as the connection is there: CECDisable() closes it after it
\* has cleared cecEnableStatus.
Connected == cecEnabled \/ pc["enable"] = "disabled"

\* Something from outside: it comes when its thread has nothing else to do.
Comes(t) == pc[t] = "idle" /\ ops < MaxOps /\ ops' = ops + 1

\* if (isActive()) stop(), and on to place.
StopTimerAndGo(t, place) ==
    /\ Go(t, "isActive")
    /\ back' = [back EXCEPT ![t] = place]

GoBack(t) ==
    /\ Go(t, back[t])
    /\ back' = [back EXCEPT ![t] = "idle"]  \* forgotten

\* m_currentArcRoutingState is written.
Write(state) == arcState' = state /\ reported' = (state = "terminated")

\* Mutant: it counts without a limit.
ReleaseCounts == sem' = sem + 1

\* Mutant: only a waiting thread is woken.
ReleaseIfWaiting == sem' = IF rpc = "acquire" THEN 1 ELSE sem

\* m_semSignaltoArcRoutingThread.release(): a binary semaphore.
Release == sem' = 1

\* Where stopArc() returns to.
After(t) == IF t = "enable" THEN "await" ELSE "idle"
-----------------------------------------------------------------------------
\* setupARCRouting(true): startArc(), which needs CEC, and setupARCRouting(false).
ApiCall ==
    /\ Comes("api") /\ "setup" \in Env /\ ~ leaving
    /\ \/ cecEnabled /\ Go("api", "start")
       \/ Go("api", "stop")
    /\ UNCHANGED <<stateVars, sem, timerVars, modeVars, back, routingVars>>

\* The power state changes, or one standby state follows another.  Standby stops ARC.
PowerChange ==
    /\ Comes("iarm") /\ "power" \in Env
    /\ powerOn' \in BOOLEAN /\ (powerOn' => ~ powerOn)
    /\ IF ~ powerOn' /\ arcState \in {"reqInitiation", "initiated"} THEN Go("iarm", "stop") ELSE UNCHANGED pc
    /\ UNCHANGED <<stateVars, sem, timerVars, settingEnabled, cecEnabled, leaving, back, routingVars>>

\* updateArcState(), when nothing is plugged in the ARC port.
Unplug ==
    /\ Comes("iarm") /\ "unplug" \in Env /\ arcState # "terminated"
    /\ Write("terminated")
    /\ UNCHANGED <<sem, timerVars, modeVars, placeVars, routingVars>>

\* SetSystemAudioMode(off) from the audio device.
SystemAudioModeOff ==
    /\ Comes("cec") /\ Connected /\ "audioOff" \in Env
    /\ settingEnabled /\ arcState = "initiated"
    /\ Go("cec", "stop")
    /\ UNCHANGED <<stateVars, sem, timerVars, modeVars, back, routingVars>>

\* The first checks of stopArc().
StopCheck(t) ==
    /\ pc[t] = "stop"
    /\ Go(t, IF cecEnabled /\ arcState \notin {"reqTermination", "terminated"}
             THEN "stopWrite" ELSE After(t))
    /\ UNCHANGED <<stateVars, sem, timerVars, modeVars, back, routingVars, ops>>

\* requestArcInitiation() and requestArcTermination(), up to the write.
RequestWrite(t) ==
    /\ \/ pc[t] = "start" /\ Write("reqInitiation")
       \/ pc[t] = "stopWrite" /\ Write("reqTermination")
    /\ untimed' = FALSE
    /\ Go(t, "signal")
    /\ UNCHANGED <<sem, jobs, timerActive, modeVars, back, routingVars, ops>>

\* startArc() and stopArc() go on with the timer.
RequestSignal(t) ==
    /\ pc[t] = "signal"
    /\ Release
    /\ StopTimerAndGo(t, "restart")
    /\ UNCHANGED <<stateVars, timerVars, modeVars, routingVars, ops>>
-----------------------------------------------------------------------------
\* Mutant: a request leaves a timer alone that is active.
IsActiveSkips(t) ==
    /\ pc[t] = "isActive"
    /\ back' = [back EXCEPT ![t] = "idle"]
    /\ Go(t, IF timerActive /\ back[t] = "restart" THEN After(t) ELSE back[t])
    /\ UNCHANGED <<stateVars, sem, timerVars, modeVars, routingVars, ops>>

\* TpTimer's isActive(), before a stop()
IsActive(t) ==
    /\ pc[t] = "isActive"
    /\ IF timerActive THEN Go(t, "revoke") /\ UNCHANGED back ELSE GoBack(t)
    /\ UNCHANGED <<stateVars, sem, timerVars, modeVars, routingVars, ops>>

\* TpTimer's stop()
TimerStop(t) ==
    /\ \/ /\ pc[t] = "revoke"
          /\ jobs' = 0
          /\ untimed' = (untimed \/ (arcState \in Requests /\ jobs > 0 /\ back[t] = "idle"))
          /\ Go(t, "clear")
          /\ UNCHANGED <<timerActive, back>>
       \/ /\ pc[t] = "clear"
          /\ timerActive' = FALSE
          /\ GoBack(t)
          /\ UNCHANGED <<jobs, untimed>>
    /\ UNCHANGED <<stateVars, sem, modeVars, routingVars, ops>>

\* TpTimer's start(): Revoke(), Schedule() and m_isActive = true
TimerStart(t) ==
    /\ \/ /\ pc[t] = "restart"
          /\ jobs' = 0
          /\ Go(t, "schedule")
          /\ UNCHANGED <<timerActive, untimed>>
       \/ /\ pc[t] = "schedule"
          /\ jobs' = jobs + 1 /\ untimed' = FALSE
          /\ Go(t, "activate")
          /\ UNCHANGED timerActive
       \/ /\ pc[t] = "activate"
          /\ timerActive' = TRUE
          /\ Go(t, After(t))
          /\ UNCHANGED <<jobs, untimed>>
    /\ UNCHANGED <<back, stateVars, sem, modeVars, routingVars, ops>>
-----------------------------------------------------------------------------
\* Process_InitiateArc() and Process_TerminateArc() begin with the timer.
AnswerComes ==
    /\ Comes("cec") /\ Connected
    /\ \/ "initiate" \in Env /\ settingEnabled /\ StopTimerAndGo("cec", "power")
       \/ "terminate" \in Env /\ StopTimerAndGo("cec", "terminated")
    /\ UNCHANGED <<stateVars, sem, timerVars, modeVars, routingVars>>

\* Process_InitiateArc() goes on only when the power is on; the timer stays stopped.
AnswerPower ==
    /\ pc["cec"] = "power"
    /\ Go("cec", IF powerOn THEN "initiated" ELSE "idle")
    /\ untimed' = (untimed \/ (arcState \in Requests /\ ~ powerOn /\ jobs = 0))
    /\ UNCHANGED <<jobs, timerActive, stateVars, sem, modeVars, back, routingVars, ops>>

AnswerWrite ==
    /\ pc["cec"] \in {"initiated", "terminated"}
    /\ Write(pc["cec"])
    /\ Go("cec", "answer")
    /\ UNCHANGED <<sem, timerVars, modeVars, back, routingVars, ops>>

AnswerSignal ==
    /\ pc["cec"] = "answer"
    /\ Release
    /\ Go("cec", "idle")
    /\ UNCHANGED <<stateVars, timerVars, modeVars, back, routingVars, ops>>
-----------------------------------------------------------------------------
\* The timer expires: TpTimer's Timed().
TimerFires ==
    /\ pc["timer"] = "idle" /\ jobs > 0
    /\ jobs' = jobs - 1
    /\ Go("timer", "fired")
    /\ UNCHANGED <<timerActive, untimed, stateVars, sem, modeVars, back, routingVars, ops>>

\* Mutant: it only tells.
TimerCallbackTells ==
    /\ pc["timer"] = "fired"
    /\ StopTimerAndGo("timer", "idle")
    /\ UNCHANGED <<stateVars, sem, timerVars, modeVars, routingVars, ops>>

\* arcStartStopTimerFunction() tells of the failure, and ends the request.  Timed() then
\* stops the timer, which is single-shot, even when it has been started again meanwhile.
TimerCallback ==
    /\ pc["timer"] = "fired"
    /\ Write("terminated")
    /\ StopTimerAndGo("timer", "idle")
    /\ UNCHANGED <<sem, timerVars, modeVars, routingVars, ops>>
-----------------------------------------------------------------------------
RoutingAcquire ==
    /\ rpc = "acquire" /\ sem = 1
    /\ sem' = 0
    /\ rpc' = "read"
    /\ UNCHANGED <<stateVars, timerVars, modeVars, placeVars, routed, ops>>

RoutingRead ==
    /\ rpc = "read"
    /\ routed' = arcState
    /\ rpc' = "act"
    /\ UNCHANGED <<stateVars, sem, timerVars, modeVars, placeVars, ops>>

\* The message for the state is sent, if there is a connection; or the thread ends.
RoutingAct ==
    /\ rpc = "act"
    /\ rpc' = IF routed = "exit" THEN "exited" ELSE "acquire"
    /\ routed' = "terminated"  \* forgotten
    /\ reported' = (reported \/ routed = arcState)
    /\ UNCHANGED <<arcState, sem, timerVars, modeVars, placeVars, ops>>

Routing == RoutingAcquire \/ RoutingRead \/ RoutingAct
-----------------------------------------------------------------------------
\* setEnabled(true), with CECEnable().  Bound: one call of setEnabled() at a time.
CECEnable ==
    /\ Comes("enable") /\ "enable" \in Env
    /\ ~ (settingEnabled /\ cecEnabled)  \* it would change nothing
    /\ settingEnabled' = TRUE /\ cecEnabled' = TRUE
    /\ UNCHANGED <<stateVars, sem, timerVars, powerOn, leaving, placeVars, routingVars>>

\* setEnabled(false), or Deinitialize(), which leaves the setting alone: CECDisable().
CECDisable ==
    /\ Comes("enable")
    /\ \/ "setEnabled" \in Env /\ settingEnabled' = FALSE /\ UNCHANGED leaving
       \/ "deinitialize" \in Env /\ leaving' = TRUE /\ UNCHANGED settingEnabled
    /\ Go("enable", "disable")
    /\ UNCHANGED <<stateVars, sem, timerVars, powerOn, cecEnabled, back, routingVars>>

\* Where CECDisable() returns to.
Disabled == IF leaving THEN "exit" ELSE "idle"

\* The first checks of CECDisable().  It stops ARC, if it is there.
DisableCheck ==
    /\ pc["enable"] = "disable"
    /\ ~ cecEnabled \/ arcState # "terminated"
    /\ Go("enable", IF cecEnabled THEN "stop" ELSE Disabled)
    /\ UNCHANGED <<stateVars, sem, timerVars, modeVars, back, routingVars, ops>>

\* It goes on when ARC is terminated, and waits for that if it had to stop it.
DisableStatus ==
    /\ pc["enable"] \in {"disable", "await"}
    /\ cecEnabled /\ arcState = "terminated"
    /\ cecEnabled' = FALSE
    /\ Go("enable", "disabled")
    /\ UNCHANGED <<stateVars, sem, timerVars, powerOn, settingEnabled, leaving, back, routingVars, ops>>

\* The connection is closed and deleted, and the state written, whatever it was.
DisableWrite ==
    /\ pc["enable"] = "disabled"
    /\ Write("terminated")
    /\ Go("enable", Disabled)
    /\ UNCHANGED <<sem, timerVars, modeVars, back, routingVars, ops>>

\* Deinitialize() tells the routing thread to end, and joins it.
Exit ==
    \/ /\ pc["enable"] = "exit" /\ Write("exit") /\ Go("enable", "exitSignal")
       /\ UNCHANGED sem
    \/ /\ pc["enable"] = "exitSignal" /\ Release /\ Go("enable", "join")
       /\ UNCHANGED stateVars
    \/ /\ pc["enable"] = "join" /\ rpc = "exited" /\ Go("enable", "gone")
       /\ UNCHANGED <<stateVars, sem>>

ExitStep == Exit /\ UNCHANGED <<timerVars, modeVars, back, routingVars, ops>>
-----------------------------------------------------------------------------
\* A thread goes on with what it has begun.
Step(t) ==
    \/ StopCheck(t) \/ RequestWrite(t) \/ RequestSignal(t)
    \/ IsActive(t) \/ TimerStop(t) \/ TimerStart(t)
CecStep == AnswerPower \/ AnswerWrite \/ AnswerSignal
EnableStep == DisableCheck \/ DisableStatus \/ DisableWrite \/ ExitStep

Next ==
    \/ ApiCall \/ PowerChange \/ Unplug \/ SystemAudioModeOff \/ AnswerComes
    \/ CECEnable \/ CECDisable
    \/ \E t \in Threads : Step(t)
    \/ CecStep \/ EnableStep \/ TimerFires \/ TimerCallback \/ Routing

Spec == Init /\ [][Next]_vars

\* Threads run and the timer expires; nobody has to call, and no message has to come.
Fairness ==
    /\ \A t \in {"api", "iarm"} : WF_vars(Step(t))
    /\ WF_vars(Step("cec") \/ CecStep) /\ WF_vars(Step("enable") \/ EnableStep)
    /\ WF_vars(Step("timer") \/ TimerFires \/ TimerCallback) /\ WF_vars(Routing)

FairSpec == Spec /\ Fairness
-----------------------------------------------------------------------------
PlaceTypeOK ==
    /\ arcState \in ArcStates /\ sem \in 0..1
    /\ pc \in [Threads -> Places] /\ back \in [Threads -> Returns]
    /\ rpc \in {"acquire", "read", "act", "exited"} /\ routed \in ArcStates
    /\ ops \in 0..MaxOps /\ jobs \in Nat

FlagTypeOK ==
    /\ timerActive \in BOOLEAN /\ untimed \in BOOLEAN
    /\ powerOn \in BOOLEAN /\ settingEnabled \in BOOLEAN /\ cecEnabled \in BOOLEAN
    /\ leaving \in BOOLEAN /\ reported \in BOOLEAN

\* Every member keeps its type, and the semaphore that several threads release counts to 1.
TypeOK == PlaceTypeOK /\ FlagTypeOK

\* Nobody's state is forgotten by the routing thread, though the semaphore counts to 1 and
\* the thread reads the state after it: a written state (but "terminated", which the timer
\* and others write without a signal) has been acted upon, or will be.
NoStateForgotten ==
    ~ reported =>
        \/ sem = 1 \/ rpc = "read" \/ (rpc = "act" /\ routed = arcState)
        \/ \E t \in Threads : pc[t] \in {"signal", "answer", "exitSignal"}

\* A request is on its way to the timer, or an answer from the timer to its write.
AtTimer(t) ==
    \/ pc[t] \in {"signal", "restart", "schedule", "power", "initiated", "terminated"}
    \/ pc[t] \in Stopping /\ back[t] # "idle"

\* A request never stands without the timer that ends it, but in two cases: an InitiateArc
\* message in standby has stopped it, or the end of an expiry of the timer before it.
RequestIsTimed ==
    arcState \in Requests =>
        jobs > 0 \/ pc["timer"] = "fired" \/ untimed \/ \E t \in Threads : AtTimer(t)

\* But for those, requests end, the last of several too: by the audio device's answer, by
\* the cable or by the timer "to get the desired ARC_STATE_ARC_TERMINATED".
RequestEnds == arcState \in Requests ~> (arcState \notin Requests \/ untimed)

\* The last of what was written is told to the audio device, whatever it follows.
StateIsReported == ~ reported ~> (reported \/ rpc = "exited")

\* CECDisable() comes to an end: "Check cecSettingEnabled to prevent race conditions [...]
\* Initiate ARC message may come from AVR/Soundbar while CEC disable is in-progress"
\* (Process_InitiateArc()).
DisableEnds == (pc["enable"] = "await") ~> (pc["enable"] # "await")
=============================================================================
