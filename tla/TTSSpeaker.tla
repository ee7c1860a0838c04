----------------------------- MODULE TTSSpeaker -----------------------------
(***************************************************************************)
(* The speaker of the TextToSpeech plugin (TextToSpeech/impl/TTSSpeaker    *)
(* .cpp), with the calls TTSManager and TextToSpeechImplementation make.   *)
(*                                                                         *)
(* Threads that meet here:                                                 *)
(*   - the GStreamer thread, GStreamerThreadFunc(): pc is its place;       *)
(*   - one client at a time, under _adminLock of the implementation:       *)
(*     client is what it has still to do of its call;                      *)
(*   - the bus thread, handleMessage(): bus is the message it handles;     *)
(*   - the pipeline, which plays, ends and fails when it likes: stream.    *)
(*                                                                         *)
(* m_queueMutex covers only the queue.  It matters at one place, the       *)
(* predicate of the wait for text (pc = "blocking"): a notification under  *)
(* the mutex cannot come between the predicate and the sleep, one without  *)
(* the mutex can.  m_stateMutex is held by the bus thread across the       *)
(* callbacks started(), resumed() and paused(): telling is their speech.   *)
(* A NULL dereference or the front() of an empty list ends the process.    *)
(***************************************************************************)
EXTENDS Naturals, Sequences

CONSTANTS
    MaxSpeeches,    \* bound: the ids handed out
    MaxCalls,       \* bound: the calls other than speak
    LocalEndpoint,  \* m_defaultConfig.hasValidLocalEndpoint()
    MaxFailures     \* m_maxPipelineConstructionFailures

ASSUME SpeakerAssumption ==
    /\ MaxSpeeches \in Nat \ {0}
    /\ MaxCalls \in Nat
    /\ LocalEndpoint \in BOOLEAN
    /\ MaxFailures \in 1..255

VARIABLES
    asked,     \* the id nextSpeechId() handed out last
    calls,     \* how many other calls were made
    client,    \* what the client has still to do
    enabled,   \* m_defaultConfiguration.enabled()
    queue,     \* m_queue, the ids
    speaking,  \* m_isSpeaking, and m_clientSpeaking # NULL
    current,   \* m_currentSpeech, 0 if NULL
    flushed,   \* m_flushed
    paused,    \* m_isPaused
    ensure,    \* m_ensurePipeline
    run,       \* m_runThread
    pipeline,  \* m_pipeline: "none", or the state it was told to go to
    type,      \* m_pipelinetype
    failures,  \* m_pipelineConstructionFailures
    errors,    \* m_pipelineError, m_networkError and m_remoteError: those that are true
    eos,       \* m_isEOS
    pc,        \* where the GStreamer thread is
    data,      \* the speech that it dequeued last, 0 if none
    attempt,   \* the first or the second speakText() of that speech
    stream,    \* what the pipeline does, and its messages on the bus
    bus,       \* the message handleMessage() is handling
    telling,   \* the speech of the callback made under m_stateMutex, 0 if none
    told       \* the terminal event of each speech

clientVars == <<asked, calls, client, enabled>>
flagVars   == <<flushed, paused, ensure, run>>
buildVars  == <<pipeline, type, failures, errors, eos, stream>>
busVars    == <<bus, telling>>
threadVars == <<data, attempt, told>>
vars == <<clientVars, queue, speaking, current, flagVars, buildVars, pc, threadVars, busVars>>

-----------------------------------------------------------------------------
Speeches == 1..MaxSpeeches
Ends == {"complete", "interrupted", "networkerror", "playbackerror"}
PipelineTypes == {"MP3", "PCM"}

\* The steps of a call that come after its first reads of shared state.
SpeakSteps == {"speakFlush", "speakClear", "speakQueue"}
ClientPlaces == {"idle", "cancelFlush", "disableFlush", "ensuring", "pausing", "resuming", "gone"}
               \cup SpeakSteps

Places == {"top", "created", "drop", "dropped", "idle", "blocking", "blocked", "ready",
           "dequeue", "set", "will", "speak", "switched", "waiting", "clear", "after", "report",
           "unset", "reset", "exited", "crashed"}

Messages == {"playing", "paused", "eos", "error", "neterror"}
Stopped == [state |-> "stopped", over |-> FALSE, posted |-> <<>>]

\* Configure() of the implementation calls enableTTS() with the stored setting
\* while the thread already runs.  m_pipelinetype is not initialized.
Init ==
    /\ asked = 0 /\ calls = 0 /\ client = "ensuring" /\ enabled \in BOOLEAN
    /\ queue = <<>> /\ speaking = FALSE /\ current = 0
    /\ flushed = FALSE /\ paused = FALSE /\ ensure = FALSE /\ run = TRUE
    /\ pipeline = "none" /\ type \in PipelineTypes /\ failures = 0
    /\ errors = {} /\ eos = FALSE /\ stream = Stopped
    /\ pc = "top" /\ data = 0 /\ attempt = 1
    /\ bus = "none" /\ telling = 0
    /\ told = [s \in Speeches |-> "none"]

\* Mutant: the notification is forgotten.
NotNotified == pc

\* m_condition.notify_one(): nothing is remembered when nobody waits.
Notified == IF pc = "blocked" THEN "idle" ELSE pc

\* The thread is not between the predicate of its wait and the sleep.
QueueMutexFree == pc # "blocking"

NeedsPipelineUpdate ==
    /\ failures < MaxFailures \/ queue # <<>>
    /\ \/ ensure /\ pipeline = "none"
       \/ ~ensure /\ pipeline # "none"

\* The process is gone, with its threads.
Crash ==
    /\ pc' = "crashed" /\ client' = "gone"
    /\ pipeline' = "none" /\ stream' = Stopped /\ bus' = "none" /\ telling' = 0
    /\ UNCHANGED <<asked, calls, enabled, queue, speaking, current, flagVars, type, failures,
                   errors, eos, threadVars>>

-----------------------------------------------------------------------------
(* The pipeline. *)

\* gst_element_set_state(NULL) also empties the pipeline's bus.
Stop ==
    /\ pipeline' = IF pipeline = "none" THEN "none" ELSE "null"
    /\ stream' = Stopped

\* g_source_remove() does not wait for a handler.  A state change of a pipeline that is
\* no longer m_pipeline is ignored unless the handler is past that test.
HandlerAfterDestroy ==
    bus' \in {bus} \cup (IF bus \in {"playing", "paused"} /\ telling = 0 THEN {"none"} ELSE {})

\* createPipeline(t) when there is none and nf constructions and the errors errs are
\* recorded: a success calls resetPipeline(), which builds another one if an error is recorded.
Create(t, nf, errs, was) ==
    /\ eos' = FALSE
    /\ stream' = Stopped
    /\ \/ /\ ~ensure
          /\ pipeline' = "none" /\ failures' = nf /\ errors' = errs /\ paused' = was
          /\ UNCHANGED type
       \/ /\ ensure
          /\ type' \in {type, IF LocalEndpoint THEN t ELSE type}
          /\ pipeline' = "none" /\ failures' = (nf + 1) % 256 /\ errors' = errs /\ paused' = was
       \/ /\ ensure
          /\ type' = IF LocalEndpoint THEN t ELSE type
          /\ errors' = {} /\ paused' = FALSE
          /\ \/ pipeline' = "null" /\ failures' = 0
             \/ "pipeline" \in errs /\ pipeline' = "none" /\ failures' = 1

\* destroyPipeline()
Destroy ==
    /\ pipeline' = "none"
    /\ failures' = 0
    /\ stream' = Stopped
    /\ HandlerAfterDestroy

\* resetPipeline() of the main loop, which ends with the pipeline in state NULL, if it has one.
Reset ==
    IF "pipeline" \in errors \/ pipeline = "none"
    THEN /\ Create(type, IF "pipeline" \in errors THEN 0 ELSE failures, {}, FALSE)
         /\ HandlerAfterDestroy
    ELSE /\ Stop
         /\ errors' = {} /\ paused' = FALSE /\ eos' = FALSE
         /\ UNCHANGED <<type, failures, bus>>

\* The pipeline gets where it was told to go.
StreamMoves ==
    /\ pipeline \in {"playing", "paused"}
    /\ stream.state # pipeline
    /\ stream' = [stream EXCEPT !.state = pipeline,
                                !.posted = IF pipeline = "playing" \/ stream.state = "playing"
                                           THEN Append(@, pipeline) ELSE @]
    /\ UNCHANGED <<clientVars, queue, speaking, current, flagVars, pipeline, type, failures,
                   errors, eos, pc, threadVars, busVars>>

\* The audio is over, or the source or another element fails.
StreamEnds ==
    /\ pipeline \in {"playing", "paused"}
    /\ ~stream.over
    /\ \E m \in {"error", "neterror"} \cup (IF stream.state = "playing" THEN {"eos"} ELSE {}) :
          stream' = [stream EXCEPT !.over = TRUE, !.posted = Append(@, m)]
    /\ UNCHANGED <<clientVars, queue, speaking, current, flagVars, pipeline, type, failures,
                   errors, eos, pc, threadVars, busVars>>

-----------------------------------------------------------------------------
(* The bus thread. *)

BusTake ==
    /\ bus = "none"
    /\ stream.posted # <<>>
    /\ bus' = Head(stream.posted)
    /\ stream' = [stream EXCEPT !.posted = Tail(@)]
    /\ UNCHANGED <<clientVars, queue, speaking, current, flagVars, pipeline, type, failures,
                   errors, eos, pc, threadVars, telling>>

\* handleMessage() of an EOS or an error.  An error of the source is the remote's
\* end point when there is a local one to turn to.
BusEnd ==
    /\ bus \in {"eos", "error", "neterror"}
    /\ bus' = "none"
    /\ IF pipeline = "none"
       THEN UNCHANGED <<errors, eos, pc>>
       ELSE /\ pc' = Notified
            /\ IF bus = "eos"
               THEN eos' = TRUE /\ UNCHANGED errors
               ELSE /\ errors' = errors \cup {"pipeline"} \cup
                          (IF bus = "error" THEN {}
                           ELSE IF LocalEndpoint /\ type = "MP3" THEN {"remote"} ELSE {"network"})
                    /\ UNCHANGED eos
    /\ UNCHANGED <<clientVars, queue, speaking, current, flagVars, pipeline, type, failures,
                   stream, threadVars, telling>>

\* handleMessage() of a state change: the current speech is read under m_stateMutex ...
BusState ==
    /\ bus \in {"playing", "paused"}
    /\ telling = 0
    /\ LET matters == pipeline # "none" /\ speaking /\ (bus = "paused" => paused)
       IN  IF matters /\ current = 0
           THEN Crash
           ELSE /\ telling' = IF matters THEN current ELSE 0
                /\ bus' = IF matters THEN bus ELSE "none"
                /\ paused' = IF matters THEN bus = "paused" ELSE paused
                /\ UNCHANGED <<clientVars, queue, speaking, current, flushed, ensure, run,
                               buildVars, pc, threadVars>>

\* ... and its client's callback made.
BusTell ==
    /\ telling # 0
    /\ telling' = 0
    /\ bus' = "none"
    /\ UNCHANGED <<clientVars, queue, speaking, current, flagVars, buildVars, pc, threadVars>>

BusThread == BusTake \/ BusEnd \/ BusState \/ BusTell

-----------------------------------------------------------------------------
(* The client. *)

\* cancelSpeech(id), up to its writes: is there anything to cancel?
Hits(id) == speaking /\ current # 0 /\ id \in {0, current}

\* What a call leaves alone besides its own step.
Unspoken == UNCHANGED <<speaking, current, stream, type, failures, errors, eos, threadVars,
                        busVars>>

Call(step) ==
    /\ client = "idle"
    /\ calls < MaxCalls
    /\ calls' = calls + 1
    /\ client' = step
    /\ UNCHANGED <<asked, queue, flagVars, pipeline, pc>>
    /\ Unspoken

\* speak(), whose reset() first looks for a speech to cancel.  m_preemptiveSpeaking is
\* never cleared.
Speak ==
    /\ client = "idle"
    /\ asked < MaxSpeeches
    /\ asked' = asked + 1
    /\ client' = IF Hits(0) THEN "speakFlush" ELSE "speakClear"
    /\ UNCHANGED <<calls, enabled, queue, flagVars, pipeline, pc>>
    /\ Unspoken

\* shut(id), and setACL() with id 0.
Cancel(id) ==
    /\ Call(IF Hits(id) THEN "cancelFlush" ELSE "idle")
    /\ UNCHANGED enabled

\* enableTTS(): nothing but for a change.  Disabling cancels what is spoken.
Enable(on) ==
    /\ enabled # on
    /\ Call(IF ~on /\ Hits(0) THEN "disableFlush" ELSE "ensuring")
    /\ enabled' = on

\* pause(id) and resume(id), up to the test that the speech is the current one.
Pause(id)  == id # 0 /\ Hits(id) /\ Call("pausing") /\ UNCHANGED enabled
Resume(id) == id # 0 /\ Hits(id) /\ Call("resuming") /\ UNCHANGED enabled

\* Mutant: cancelSpeech() empties the queue, too.
FlushAll ==
    /\ client \in {"speakFlush", "cancelFlush", "disableFlush"}
    /\ QueueMutexFree
    /\ client' = CASE client = "speakFlush"   -> "speakClear"
                   [] client = "cancelFlush"  -> "idle"
                   [] client = "disableFlush" -> "ensuring"
    /\ paused' = FALSE
    /\ flushed' = TRUE
    /\ queue' = <<>>
    /\ pc' = Notified
    /\ UNCHANGED <<asked, calls, enabled, ensure, run, pipeline>>
    /\ Unspoken

\* The writes of cancelSpeech(); its notification is without m_queueMutex.
Flush ==
    /\ client \in {"speakFlush", "cancelFlush", "disableFlush"}
    /\ client' = CASE client = "speakFlush"   -> "speakClear"
                   [] client = "cancelFlush"  -> "idle"
                   [] client = "disableFlush" -> "ensuring"
    /\ paused' = FALSE
    /\ flushed' = TRUE
    /\ pc' = Notified
    /\ UNCHANGED <<asked, calls, enabled, queue, ensure, run, pipeline>>
    /\ Unspoken

\* flushQueue()
ClearQueue ==
    /\ client = "speakClear"
    /\ QueueMutexFree
    /\ queue' = <<>>
    /\ client' = "speakQueue"
    /\ UNCHANGED <<asked, calls, enabled, flagVars, pipeline, pc>>
    /\ Unspoken

\* queueData()
QueueData ==
    /\ client = "speakQueue"
    /\ QueueMutexFree
    /\ queue' = Append(queue, asked)
    /\ client' = "idle"
    /\ pc' = Notified
    /\ UNCHANGED <<asked, calls, enabled, flagVars, pipeline>>
    /\ Unspoken

\* Mutant: ensurePipeline() does not notify.
EnsureQuietly ==
    /\ client = "ensuring"
    /\ QueueMutexFree
    /\ ensure' = enabled
    /\ client' = "idle"
    /\ UNCHANGED <<asked, calls, enabled, queue, flushed, paused, run, pipeline, pc>>
    /\ Unspoken

\* ensurePipeline()
EnsurePipeline ==
    /\ client = "ensuring"
    /\ QueueMutexFree
    /\ ensure' = enabled
    /\ client' = "idle"
    /\ pc' = Notified
    /\ UNCHANGED <<asked, calls, enabled, queue, flushed, paused, run, pipeline>>
    /\ Unspoken

\* The rest of pause() and of resume(): the speech may be over by now.
PausePipeline ==
    /\ client = "pausing"
    /\ client' = "idle"
    /\ IF pipeline # "none" /\ ~paused
       THEN paused' = TRUE /\ pipeline' = "paused"
       ELSE UNCHANGED <<paused, pipeline>>
    /\ UNCHANGED <<asked, calls, enabled, queue, flushed, ensure, run, pc>>
    /\ Unspoken

ResumePipeline ==
    /\ client = "resuming"
    /\ client' = "idle"
    /\ pipeline' = IF pipeline # "none" /\ paused THEN "playing" ELSE pipeline
    /\ UNCHANGED <<asked, calls, enabled, queue, flagVars, pc>>
    /\ Unspoken

\* ~TTSSpeaker(), up to the join: it notifies without m_queueMutex.
Destructor ==
    /\ client = "idle"
    /\ client' = "gone"
    /\ flushed' = (flushed \/ speaking)
    /\ run' = FALSE
    /\ pc' = Notified
    /\ UNCHANGED <<asked, calls, enabled, queue, paused, ensure, pipeline>>
    /\ Unspoken

ClientCalls ==
    \/ Speak
    \/ \E id \in Speeches : Cancel(id) \/ Pause(id) \/ Resume(id)
    \/ Cancel(0)
    \/ \E on \in BOOLEAN : Enable(on)
    \/ Destructor

\* The rest of a call that was made.
ClientGoesOn == Flush \/ ClearQueue \/ QueueData \/ EnsurePipeline \/ PausePipeline \/ ResumePipeline

-----------------------------------------------------------------------------
(* The GStreamer thread. *)

\* What the thread never writes.
Untouched == UNCHANGED <<clientVars, ensure, run, telling>>

ThreadGoes(from, to) == pc = from /\ pc' = to /\ Untouched

\* The loop condition, and the update of the pipeline.
TTop ==
    /\ pc = "top"
    /\ \/ /\ run /\ NeedsPipelineUpdate /\ ensure
          /\ Create(type, failures, errors, paused)
          /\ pc' = "created"
          /\ UNCHANGED bus
       \/ /\ run => NeedsPipelineUpdate /\ ~ensure
          /\ Destroy
          /\ pc' = IF run THEN "idle" ELSE "exited"
          /\ UNCHANGED <<type, errors, eos, paused>>
       \/ /\ run /\ ~NeedsPipelineUpdate
          /\ pc' = "idle"
          /\ UNCHANGED <<buildVars, paused, bus>>
    /\ Untouched
    /\ UNCHANGED <<queue, speaking, current, flushed, threadVars>>

TCreated ==
    /\ ThreadGoes("created", IF pipeline = "none" /\ queue # <<>> THEN "drop" ELSE "idle")
    /\ UNCHANGED <<queue, speaking, current, flushed, paused, buildVars, bus, threadVars>>

\* Mutant: the speech stays in the queue.
DequeuePeek(from, to) ==
    /\ pc = from
    /\ IF queue = <<>>
       THEN Crash
       ELSE /\ ThreadGoes(from, to)
            /\ data' = Head(queue)
            /\ flushed' = FALSE
            /\ UNCHANGED <<queue, speaking, current, paused, buildVars, bus, attempt, told>>

\* dequeueData()
Dequeue(from, to) ==
    /\ pc = from
    /\ IF queue = <<>>
       THEN Crash
       ELSE /\ ThreadGoes(from, to)
            /\ data' = Head(queue)
            /\ queue' = Tail(queue)
            /\ flushed' = FALSE
            /\ UNCHANGED <<speaking, current, paused, buildVars, bus, attempt, told>>

TDrop == Dequeue("drop", "dropped")

TDropped ==
    /\ ThreadGoes("dropped", "idle")
    /\ told' = [told EXCEPT ![data] = "playbackerror"]
    /\ failures' = 0
    /\ UNCHANGED <<queue, speaking, current, flushed, paused, pipeline, type, errors, eos, stream,
                   bus, data, attempt>>

\* The predicate of the wait for text, under m_queueMutex.
TIdle ==
    /\ ThreadGoes("idle", IF run /\ queue = <<>> /\ ~NeedsPipelineUpdate
                          THEN "blocking" ELSE "ready")
    /\ UNCHANGED <<queue, speaking, current, flushed, paused, buildVars, bus, threadVars>>

TBlock ==
    /\ ThreadGoes("blocking", "blocked")
    /\ UNCHANGED <<queue, speaking, current, flushed, paused, buildVars, bus, threadVars>>

TReady ==
    /\ pc = "ready"
    /\ pc' = IF ~run THEN "exited" ELSE IF NeedsPipelineUpdate THEN "top" ELSE "dequeue"
    /\ IF run THEN UNCHANGED <<pipeline, stream>> ELSE Stop
    /\ Untouched
    /\ UNCHANGED <<queue, speaking, current, flushed, paused, type, failures, errors, eos, bus,
                   threadVars>>

TDequeue == Dequeue("dequeue", "set")

\* setSpeakingState(true)
TSet ==
    /\ telling = 0
    /\ ThreadGoes("set", "will")
    /\ speaking' = TRUE
    /\ attempt' = 1
    /\ UNCHANGED <<queue, current, flushed, paused, buildVars, bus, data, told>>

\* willSpeak(), and the tests of m_flushed around it.
TWill ==
    /\ ThreadGoes("will", IF flushed THEN "after" ELSE "speak")
    /\ UNCHANGED <<queue, speaking, current, flushed, paused, buildVars, bus, threadVars>>

\* constructURL(), which builds another pipeline when the end point is of the other type.
SwitchPipeline ==
    \/ UNCHANGED <<pipeline, type, failures, errors, stream, paused, bus>> /\ eos' = FALSE
    \/ /\ LocalEndpoint
       /\ \E t \in PipelineTypes \ {type} : Create(t, 0, errors, paused)
       /\ HandlerAfterDestroy

\* speakText() up to the PLAYING of play().  Without a pipeline, play() writes to the
\* elements of the one that is gone.
TSpeak ==
    /\ pc = "speak"
    /\ IF pipeline = "none" \/ flushed
       THEN /\ pc' = "after"
            /\ eos' = FALSE
            /\ UNCHANGED <<current, pipeline, type, failures, errors, stream, paused, bus>>
       ELSE /\ pc' = "switched"
            /\ SwitchPipeline
            /\ UNCHANGED current
    /\ Untouched
    /\ UNCHANGED <<queue, speaking, flushed, threadVars>>

TPlay ==
    \/ pc = "switched" /\ pipeline = "none" /\ Crash
    \/ /\ ThreadGoes("switched", "waiting")
       /\ current' = data
       /\ pipeline' = IF pipeline = "none" THEN "none" ELSE "playing"
       /\ UNCHANGED <<queue, speaking, flushed, paused, type, failures, errors, eos, stream, bus,
                      threadVars>>

\* waitForAudioToFinishTimeout(), and the NULL after it: interrupted, completed, or
\* timed out, which a paused speech does not.
TWait ==
    /\ \/ pipeline = "none" \/ "pipeline" \in errors \/ flushed
       \/ eos
       \/ ~paused
    /\ ThreadGoes("waiting", "clear")
    /\ Stop
    /\ eos' = FALSE
    /\ UNCHANGED <<queue, speaking, current, flushed, paused, type, failures, errors, bus,
                   threadVars>>

TClear ==
    /\ ThreadGoes("clear", "after")
    /\ current' = 0
    /\ UNCHANGED <<queue, speaking, flushed, paused, buildVars, bus, threadVars>>

\* The second speakText(), when the remote end point is down.
TAfter ==
    /\ LET again == attempt = 1 /\ ~flushed /\ "remote" \in errors
       IN  /\ ThreadGoes("after", IF again THEN "speak" ELSE "report")
           /\ attempt' = IF again THEN 2 ELSE attempt
    /\ UNCHANGED <<queue, speaking, current, flushed, paused, buildVars, bus, data, told>>

\* Mutant: a flushed speech is reported with another event.
OutcomeCancelled ==
    IF flushed THEN "cancelled"
    ELSE IF "network" \in errors THEN "networkerror"
    ELSE "complete"

Outcome ==
    IF flushed THEN "interrupted"
    ELSE IF "network" \in errors THEN "networkerror"
    ELSE IF pipeline = "none" \/ "pipeline" \in errors THEN "playbackerror"
    ELSE "complete"

\* Inform the client after speaking.
TReport ==
    /\ ThreadGoes("report", "unset")
    /\ told' = [told EXCEPT ![data] = Outcome]
    /\ UNCHANGED <<queue, speaking, current, flushed, paused, buildVars, bus, data, attempt>>

\* Mutant: setSpeakingState(false) without m_stateMutex.
UnsetUnlocked ==
    /\ ThreadGoes("unset", "reset")
    /\ speaking' = FALSE
    /\ flushed' = FALSE
    /\ UNCHANGED <<queue, current, paused, buildVars, bus, threadVars>>

\* setSpeakingState(false)
TUnset ==
    /\ telling = 0
    /\ ThreadGoes("unset", "reset")
    /\ speaking' = FALSE
    /\ flushed' = FALSE
    /\ UNCHANGED <<queue, current, paused, buildVars, bus, threadVars>>

TReset ==
    /\ ThreadGoes("reset", "top")
    /\ Reset
    /\ UNCHANGED <<queue, speaking, current, flushed, threadVars>>

GStreamerThread ==
    \/ TTop \/ TCreated \/ TDrop \/ TDropped \/ TIdle \/ TBlock \/ TReady \/ TDequeue \/ TSet
    \/ TWill \/ TSpeak \/ TPlay \/ TWait \/ TClear \/ TAfter \/ TReport \/ TUnset \/ TReset

Next == ClientCalls \/ ClientGoesOn \/ GStreamerThread \/ BusThread \/ StreamMoves \/ StreamEnds

Spec == Init /\ [][Next]_vars

\* A call that was made is completed, and the thread, the bus and the pipeline go on:
\* nothing in them waits for a client but a paused speech.  No call has to be made.
Fairness ==
    /\ WF_vars(ClientGoesOn)
    /\ WF_vars(GStreamerThread)
    /\ WF_vars(BusThread)
    /\ WF_vars(StreamMoves \/ StreamEnds)

FairSpec == Spec /\ Fairness

-----------------------------------------------------------------------------
(* What the speaker promises. *)

Alive == pc # "crashed"

TypeOK ==
    /\ asked \in 0..MaxSpeeches /\ calls \in 0..MaxCalls
    /\ client \in ClientPlaces /\ enabled \in BOOLEAN
    /\ queue \in Seq(Speeches)
    /\ speaking \in BOOLEAN /\ current \in 0..MaxSpeeches
    /\ flushed \in BOOLEAN /\ paused \in BOOLEAN /\ ensure \in BOOLEAN /\ run \in BOOLEAN
    /\ pipeline \in {"none", "null", "playing", "paused"} /\ type \in PipelineTypes
    /\ failures \in 0..255 /\ errors \subseteq {"pipeline", "network", "remote"} /\ eos \in BOOLEAN
    /\ pc \in Places /\ data \in 0..MaxSpeeches /\ attempt \in {1, 2}
    /\ stream \in [state : {"stopped", "playing", "paused"}, over : BOOLEAN, posted : Seq(Messages)]
    /\ bus \in Messages \cup {"none"} /\ telling \in 0..MaxSpeeches
    /\ told \in [Speeches -> Ends \cup {"none"}]

\* Speeches have their turns in order, one at a time, and each turn ends with one terminal
\* event, although calls flush the queue and errors, EOS and flushes race: SpeechTurns.
Turns == INSTANCE SpeechTurns
         WITH turn <- IF data \in Speeches /\ told[data] = "none" THEN data ELSE 0
TurnsSpec == Turns!Spec

\* A callback of the bus thread (started, resumed, paused) is made for the speech that the
\* GStreamer thread is at, and setSpeakingState(false) waits for it: m_stateMutex orders
\* it before the end of the speech and the next willSpeak.
CallbackSpeechAlive ==
    telling # 0 => /\ speaking
                   /\ telling = data
                   /\ pc \in {"waiting", "clear", "after", "report", "unset", "speak", "switched"}

\* The speech asked for last waits in the queue or has its turn, or had it: no flush of
\* an earlier call, of a racing thread or of a failed pipeline drops it before its turn.
LatestNotLost ==
    Alive /\ asked > 0 /\ client \notin SpeakSteps => queue = <<asked>> \/ data = asked

\* No wakeup is lost, although texts, disabling, the bus and cancelSpeech() share one
\* condition variable, two of them without m_queueMutex: the thread never sleeps, nor is on
\* its way to, with a text in the queue or a pipeline to be built or let go.
AsleepMeansNothingToDo ==
    run /\ pc \in {"blocking", "blocked"} => queue = <<>> /\ ~NeedsPipelineUpdate

\* The speech asked for last ends, with an event to its client, unless a newer one comes, a
\* client pauses it, or the speaker is destroyed.
LatestSpeechEnds ==
    \A s \in Speeches :
       asked = s ~> told[s] # "none" \/ asked > s \/ paused \/ ~run \/ ~Alive

\* A speaker that is disabled lets its pipeline, and with it the audio device, go.
DisabledReleases ==
    ~ensure ~> pipeline = "none" \/ ensure \/ paused \/ ~run \/ ~Alive
=============================================================================
