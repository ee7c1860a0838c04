-------------------------- MODULE TTSSpeakerProofs --------------------------
(***************************************************************************)
(* Proofs about TTSSpeaker, for every number of speeches and calls, every  *)
(* failure threshold, and with or without a local end point.               *)
(***************************************************************************)
EXTENDS TTSSpeaker, TLAPS

\* The places at which the thread has a speech to end ...
TurnPlaces == {"dropped", "set", "will", "speak", "switched", "waiting", "clear", "after", "report"}

\* ... and those at which it has announced that it speaks.
SpeakingPlaces == {"will", "speak", "switched", "waiting", "clear", "after", "report", "unset"}

\* The thread has a speech to end exactly at these places, and no later one was ended.
TurnInv ==
    /\ pc \in TurnPlaces => data \in Speeches /\ told[data] = "none"
    /\ pc \notin TurnPlaces \cup {"crashed"} => data = 0 \/ told[data] # "none"
    /\ \A r \in Speeches : r > data => told[r] = "none"
    /\ data <= asked

\* Everybody waits behind the speech at its turn, and nobody behind the one that is asked for.
QueueInv ==
    /\ \/ queue = <<>>
       \/ \E s \in Speeches : /\ queue = <<s>>
                              /\ data < s
                              /\ s <= asked
                              /\ client \in SpeakSteps => s < asked
    /\ client = "speakQueue" => queue = <<>>
    /\ client \in SpeakSteps => data < asked

\* m_currentSpeech and m_isSpeaking follow the thread, except in a crashed process.
SpeechInv ==
    /\ Alive => /\ speaking <=> pc \in SpeakingPlaces
                /\ current # 0 => current = data /\ pc \in {"waiting", "clear"}
    /\ ~Alive => pipeline = "none"

IInv == TypeOK /\ TurnInv /\ QueueInv /\ SpeechInv /\ CallbackSpeechAlive /\ LatestNotLost

-----------------------------------------------------------------------------
(* Types. *)

Streams == [state : {"stopped", "playing", "paused"}, over : BOOLEAN, posted : Seq(Messages)]

LEMMA StoppedTyping == Stopped \in Streams
<1>1. <<>> \in Seq(Messages)
  OBVIOUS
<1> QED
  BY <1>1 DEF Stopped, Streams

LEMMA InitTyping == Init => TypeOK
<1> SUFFICES ASSUME Init PROVE TypeOK
  OBVIOUS
<1>1. /\ asked \in 0..MaxSpeeches /\ calls \in 0..MaxCalls
      /\ current \in 0..MaxSpeeches /\ data \in 0..MaxSpeeches /\ telling \in 0..MaxSpeeches
  BY SpeakerAssumption DEF Init
<1>2. told \in [Speeches -> Ends \cup {"none"}]
  BY DEF Init
<1>3. queue \in Seq(Speeches)
  BY DEF Init
<1>4. stream \in Streams
  BY StoppedTyping DEF Init
<1>5. client \in ClientPlaces /\ pc \in Places
  BY DEF Init, ClientPlaces, Places
<1>6. failures \in 0..255 /\ errors \subseteq {"pipeline", "network", "remote"}
  BY DEF Init
<1>7. /\ enabled \in BOOLEAN /\ speaking \in BOOLEAN /\ flushed \in BOOLEAN /\ paused \in BOOLEAN
      /\ ensure \in BOOLEAN /\ run \in BOOLEAN /\ eos \in BOOLEAN
      /\ pipeline \in {"none", "null", "playing", "paused"} /\ type \in PipelineTypes
      /\ attempt \in {1, 2} /\ bus \in Messages \cup {"none"}
  BY DEF Init
<1> QED
  BY <1>1, <1>2, <1>3, <1>4, <1>5, <1>6, <1>7 DEF TypeOK, Streams

LEMMA NotifiedTyping == pc \in Places => Notified \in Places
  BY DEF Notified, Places

\* The variables a client's step leaves alone.
LEMMA UnspokenTyping ==
    ASSUME TypeOK, Unspoken
    PROVE  /\ speaking' \in BOOLEAN /\ current' \in 0..MaxSpeeches
           /\ stream' \in Streams /\ type' \in PipelineTypes /\ failures' \in 0..255
           /\ errors' \subseteq {"pipeline", "network", "remote"} /\ eos' \in BOOLEAN
           /\ data' \in 0..MaxSpeeches /\ attempt' \in {1, 2}
           /\ told' \in [Speeches -> Ends \cup {"none"}]
           /\ bus' \in Messages \cup {"none"} /\ telling' \in 0..MaxSpeeches
  BY DEF TypeOK, Unspoken, threadVars, busVars, Streams

LEMMA CallTyping ==
    ASSUME TypeOK, NEW step \in ClientPlaces, Call(step), enabled' \in BOOLEAN
    PROVE  TypeOK'
<1>1. calls' \in 0..MaxCalls
  BY SpeakerAssumption DEF Call, TypeOK
<1> QED
  BY <1>1, UnspokenTyping DEF Call, TypeOK, flagVars, Streams

LEMMA ClientTyping == TypeOK /\ QueueInv /\ (ClientCalls \/ ClientGoesOn) => TypeOK'
<1> SUFFICES ASSUME TypeOK, QueueInv, ClientCalls \/ ClientGoesOn PROVE TypeOK'
  OBVIOUS
<1>a. Notified \in Places
  BY NotifiedTyping DEF TypeOK
<1>1. CASE Speak
  <2>1. asked' \in 0..MaxSpeeches
    BY <1>1, SpeakerAssumption DEF Speak, TypeOK
  <2> QED
    BY <1>1, <2>1, UnspokenTyping DEF Speak, TypeOK, ClientPlaces, SpeakSteps, flagVars, Streams
<1>2. ASSUME NEW id, Cancel(id) PROVE TypeOK'
  BY <1>2, CallTyping DEF Cancel, ClientPlaces, TypeOK
<1>3. ASSUME NEW id, Pause(id) \/ Resume(id) PROVE TypeOK'
  BY <1>3, CallTyping DEF Pause, Resume, ClientPlaces, TypeOK
<1>4. ASSUME NEW on \in BOOLEAN, Enable(on) PROVE TypeOK'
  BY <1>4, CallTyping DEF Enable, ClientPlaces, TypeOK
<1>5. CASE Destructor
  <2>1. flushed' \in BOOLEAN /\ run' \in BOOLEAN
    BY <1>5 DEF Destructor, TypeOK
  <2>2. client' \in ClientPlaces
    BY <1>5 DEF Destructor, ClientPlaces
  <2>3. /\ pc' = Notified /\ Unspoken
        /\ UNCHANGED <<asked, calls, enabled, queue, paused, ensure, pipeline>>
    BY <1>5 DEF Destructor
  <2> QED
    BY <1>a, <2>1, <2>2, <2>3, UnspokenTyping DEF TypeOK, Streams
<1>6. CASE Flush
  <2>1. client' \in ClientPlaces
    BY <1>6 DEF Flush, ClientPlaces, SpeakSteps
  <2>2. /\ paused' \in BOOLEAN /\ flushed' \in BOOLEAN /\ pc' = Notified /\ Unspoken
        /\ UNCHANGED <<asked, calls, enabled, queue, ensure, run, pipeline>>
    BY <1>6 DEF Flush
  <2> QED
    BY <1>a, <2>1, <2>2, UnspokenTyping DEF TypeOK, Streams
<1>7. CASE ClearQueue
  <2>1. queue' \in Seq(Speeches)
    BY <1>7 DEF ClearQueue
  <2> QED
    BY <1>7, <2>1, UnspokenTyping DEF ClearQueue, TypeOK, ClientPlaces, SpeakSteps, flagVars, Streams
<1>8. CASE QueueData
  <2>1. queue' \in Seq(Speeches)
    <3>1. asked \in Speeches
      BY <1>8 DEF QueueData, QueueInv, SpeakSteps, TypeOK, Speeches
    <3> QED
      BY <1>8, <3>1 DEF QueueData, TypeOK
  <2> QED
    BY <1>8, <1>a, <2>1, UnspokenTyping DEF QueueData, TypeOK, ClientPlaces, flagVars, Streams
<1>9. CASE EnsurePipeline
  BY <1>9, <1>a, UnspokenTyping DEF EnsurePipeline, TypeOK, ClientPlaces, Streams
<1>10. CASE PausePipeline \/ ResumePipeline
  <2>1. client' \in ClientPlaces
    BY <1>10 DEF PausePipeline, ResumePipeline, ClientPlaces
  <2>2. /\ pipeline' \in {"none", "null", "playing", "paused"}
        /\ paused' \in BOOLEAN
    BY <1>10 DEF PausePipeline, ResumePipeline, TypeOK, flagVars
  <2> QED
    BY <1>10, <2>1, <2>2, UnspokenTyping DEF PausePipeline, ResumePipeline, TypeOK, flagVars, Streams
<1> QED
  BY <1>1, <1>2, <1>3, <1>4, <1>5, <1>6, <1>7, <1>8, <1>9, <1>10 DEF ClientCalls, ClientGoesOn

LEMMA CrashTyping ==
    ASSUME TypeOK, Crash
    PROVE  TypeOK'
<1>1. /\ pc' \in Places /\ client' \in ClientPlaces
      /\ pipeline' \in {"none", "null", "playing", "paused"} /\ stream' \in Streams
      /\ bus' \in Messages \cup {"none"} /\ telling' \in 0..MaxSpeeches
  BY StoppedTyping, SpeakerAssumption DEF Crash, Places, ClientPlaces
<1>2. UNCHANGED <<asked, calls, enabled, queue, speaking, current, flagVars, type, failures,
                  errors, eos, threadVars>>
  BY DEF Crash
<1> QED
  BY <1>1, <1>2 DEF TypeOK, Streams, flagVars, threadVars

\* What the pipeline and the bus do.
LEMMA StreamTyping == TypeOK /\ (StreamMoves \/ StreamEnds \/ BusThread) => TypeOK'
<1> SUFFICES ASSUME TypeOK, StreamMoves \/ StreamEnds \/ BusThread PROVE TypeOK'
  OBVIOUS
<1>a. /\ stream \in Streams
      /\ stream.posted \in Seq(Messages)
  BY DEF TypeOK, Streams
<1>1. CASE StreamMoves
  <2>1. pipeline \in Messages /\ Append(stream.posted, pipeline) \in Seq(Messages)
    BY <1>1, <1>a DEF StreamMoves, Messages
  <2>2. stream' \in Streams
    BY <1>1, <1>a, <2>1 DEF StreamMoves, Streams
  <2> QED
    BY <1>1, <2>2 DEF StreamMoves, TypeOK, Streams, clientVars, flagVars, threadVars, busVars
<1>2. CASE StreamEnds
  <2>1. stream' \in Streams
    <3>1. PICK m \in Messages :
             stream' = [stream EXCEPT !.over = TRUE, !.posted = Append(@, m)]
      BY <1>2 DEF StreamEnds, Messages
    <3>2. Append(stream.posted, m) \in Seq(Messages)
      BY <1>a, <3>1
    <3> QED
      BY <1>a, <3>1, <3>2 DEF Streams
  <2> QED
    BY <1>2, <2>1 DEF StreamEnds, TypeOK, Streams, clientVars, flagVars, threadVars, busVars
<1>3. CASE BusTake
  <2>1. Head(stream.posted) \in Messages /\ Tail(stream.posted) \in Seq(Messages)
    BY <1>3, <1>a DEF BusTake
  <2>2. stream' \in Streams /\ bus' \in Messages
    BY <1>3, <1>a, <2>1 DEF BusTake, Streams
  <2> QED
    BY <1>3, <2>2 DEF BusTake, TypeOK, Streams, clientVars, flagVars, threadVars
<1>4. CASE BusEnd
  <2>1. pc' \in Places /\ bus' = "none"
    BY <1>4, NotifiedTyping DEF BusEnd, TypeOK
  <2>2. errors' \subseteq {"pipeline", "network", "remote"} /\ eos' \in BOOLEAN
    BY <1>4 DEF BusEnd, TypeOK
  <2>3. UNCHANGED <<clientVars, queue, speaking, current, flagVars, pipeline, type, failures,
                    stream, threadVars, telling>>
    BY <1>4 DEF BusEnd
  <2> QED
    BY <2>1, <2>2, <2>3 DEF TypeOK, Streams, clientVars, flagVars, threadVars
<1>5. CASE BusState
  <2>1. CASE Crash
    BY <2>1, CrashTyping
  <2>2. CASE ~Crash
    <3>1. /\ telling' \in 0..MaxSpeeches
          /\ bus' \in Messages \cup {"none"}
          /\ paused' \in BOOLEAN
          /\ UNCHANGED <<clientVars, queue, speaking, current, flushed, ensure, run,
                         buildVars, pc, threadVars>>
      BY <1>5, <2>2, SpeakerAssumption DEF BusState, TypeOK
    <3> QED
      BY <3>1 DEF TypeOK, Streams, clientVars, buildVars, threadVars
  <2> QED
    BY <2>1, <2>2
<1>6. CASE BusTell
  <2>1. telling' \in 0..MaxSpeeches
    BY <1>6, SpeakerAssumption DEF BusTell
  <2> QED
    BY <1>6, <2>1 DEF BusTell, TypeOK, Streams, clientVars, flagVars, buildVars, threadVars
<1> QED
  BY <1>1, <1>2, <1>3, <1>4, <1>5, <1>6 DEF BusThread

\* Building, stopping and destroying the pipeline.
BuildTyped ==
    /\ pipeline' \in {"none", "null", "playing", "paused"} /\ type' \in PipelineTypes
    /\ failures' \in 0..255 /\ errors' \subseteq {"pipeline", "network", "remote"}
    /\ eos' \in BOOLEAN /\ stream' \in Streams /\ paused' \in BOOLEAN

LEMMA CreateTyping ==
    ASSUME TypeOK, NEW t \in PipelineTypes, NEW nf \in 0..255,
           NEW errs \in SUBSET {"pipeline", "network", "remote"}, NEW was \in BOOLEAN,
           Create(t, nf, errs, was)
    PROVE  BuildTyped
<1>1. (nf + 1) % 256 \in 0..255
  OBVIOUS
<1>2. failures' \in 0..255 /\ type' \in PipelineTypes
  <2>1. failures' \in {nf, (nf + 1) % 256, 0, 1}
    BY DEF Create
  <2>2. type' \in {type, t}
    BY DEF Create
  <2> QED
    BY <1>1, <2>1, <2>2 DEF TypeOK
<1>3. paused' \in BOOLEAN /\ eos' \in BOOLEAN
  BY DEF Create
<1> QED
  BY <1>2, <1>3, StoppedTyping DEF Create, BuildTyped

LEMMA HandlerTyping == TypeOK /\ HandlerAfterDestroy => bus' \in Messages \cup {"none"}
  BY DEF TypeOK, HandlerAfterDestroy

LEMMA BuildKept ==
    ASSUME TypeOK, UNCHANGED <<buildVars, paused>>
    PROVE  BuildTyped
  BY DEF TypeOK, BuildTyped, buildVars, Streams

\* The rest of what the thread may write.
ThreadTyped ==
    /\ pc' \in Places /\ bus' \in Messages \cup {"none"} /\ queue' \in Seq(Speeches)
    /\ speaking' \in BOOLEAN /\ current' \in 0..MaxSpeeches /\ flushed' \in BOOLEAN
    /\ data' \in 0..MaxSpeeches /\ attempt' \in {1, 2}
    /\ told' \in [Speeches -> Ends \cup {"none"}]

LEMMA ThreadFrame ==
    ASSUME TypeOK, Untouched, BuildTyped, ThreadTyped
    PROVE  TypeOK'
  BY DEF TypeOK, Untouched, BuildTyped, ThreadTyped, Streams, clientVars

LEMMA DequeueTyping ==
    ASSUME TypeOK, NEW from, NEW to \in Places, Dequeue(from, to)
    PROVE  TypeOK'
<1>1. CASE queue = <<>>
  BY <1>1, CrashTyping DEF Dequeue
<1>2. CASE queue # <<>>
  <2>1. Head(queue) \in Speeches /\ Tail(queue) \in Seq(Speeches)
    BY <1>2 DEF TypeOK
  <2>2. queue' \in Seq(Speeches) /\ data' \in Speeches /\ flushed' = FALSE /\ pc' = to
    BY <1>2, <2>1 DEF Dequeue, ThreadGoes
  <2>3. data' \in 0..MaxSpeeches
    BY <2>2, SpeakerAssumption DEF Speeches
  <2>4. ThreadTyped
    BY <1>2, <2>2, <2>3 DEF Dequeue, ThreadTyped, TypeOK
  <2>5. Untouched /\ UNCHANGED <<buildVars, paused>>
    BY <1>2 DEF Dequeue, ThreadGoes
  <2> QED
    BY <2>4, <2>5, BuildKept, ThreadFrame
<1> QED
  BY <1>1, <1>2

\* The steps that touch neither the pipeline nor its flags.
PlainStep ==
    \/ TCreated \/ TIdle \/ TBlock \/ TSet \/ TWill \/ TClear \/ TAfter \/ TReport \/ TUnset

LEMMA PlainTyping == TypeOK /\ TurnInv /\ PlainStep => TypeOK'
<1> SUFFICES ASSUME TypeOK, TurnInv, PlainStep PROVE TypeOK'
  OBVIOUS
<1>1. Untouched /\ UNCHANGED <<buildVars, paused>>
  BY DEF PlainStep, TCreated, TIdle, TBlock, TSet, TWill, TClear, TAfter, TReport, TUnset, ThreadGoes
<1> USE DEF ThreadGoes, ThreadTyped, TypeOK
<1>2. CASE TCreated \/ TIdle \/ TBlock \/ TWill
  <2>1. ThreadTyped
    BY <1>2 DEF TCreated, TIdle, TBlock, TWill, Places, threadVars
  <2> QED
    BY <1>1, <2>1, BuildKept, ThreadFrame
<1>3. CASE TSet \/ TUnset
  <2>1. ThreadTyped
    BY <1>3 DEF TSet, TUnset, Places, threadVars
  <2> QED
    BY <1>1, <2>1, BuildKept, ThreadFrame
<1>4. CASE TClear \/ TAfter
  <2>1. ThreadTyped
    BY <1>4, SpeakerAssumption DEF TClear, TAfter, Places, threadVars
  <2> QED
    BY <1>1, <2>1, BuildKept, ThreadFrame
<1>5. CASE TReport
  <2>1. Outcome \in Ends
    BY DEF Outcome, Ends
  <2>2. told' \in [Speeches -> Ends \cup {"none"}]
    BY <1>5, <2>1 DEF TReport
  <2>3. ThreadTyped
    BY <1>5, <2>2 DEF TReport, Places
  <2> QED
    BY <1>1, <2>3, BuildKept, ThreadFrame
<1> QED
  BY <1>2, <1>3, <1>4, <1>5 DEF PlainStep

\* The thread's steps keep the types.
LEMMA ThreadTyping == TypeOK /\ TurnInv /\ GStreamerThread => TypeOK'
<1> SUFFICES ASSUME TypeOK, TurnInv, GStreamerThread PROVE TypeOK'
  OBVIOUS
<1>a. /\ type \in PipelineTypes /\ failures \in 0..255 /\ paused \in BOOLEAN
      /\ errors \in SUBSET {"pipeline", "network", "remote"}
      /\ {} \in SUBSET {"pipeline", "network", "remote"}
  BY DEF TypeOK
<1>1. CASE PlainStep
  BY <1>1, PlainTyping
<1>2. CASE TTop
  <2>1. ThreadTyped
    BY <1>2, HandlerTyping DEF TTop, Destroy, ThreadTyped, TypeOK, Places, threadVars
  <2>2. Untouched
    BY <1>2 DEF TTop
  <2>3. CASE Create(type, failures, errors, paused)
    BY <1>a, <2>1, <2>2, <2>3, CreateTyping, ThreadFrame
  <2>4. CASE Destroy /\ UNCHANGED <<type, errors, eos, paused>>
    <3>1. BuildTyped
      BY <2>4, StoppedTyping DEF Destroy, BuildTyped, TypeOK
    <3> QED
      BY <2>1, <2>2, <3>1, ThreadFrame
  <2>5. CASE UNCHANGED <<buildVars, paused>>
    BY <2>1, <2>2, <2>5, BuildKept, ThreadFrame
  <2> QED
    BY <1>2, <2>3, <2>4, <2>5 DEF TTop
<1>3. CASE TDrop
  BY <1>3, DequeueTyping DEF TDrop, Places
<1>4. CASE TDequeue
  BY <1>4, DequeueTyping DEF TDequeue, Places
<1>5. CASE TDropped
  <2>1. told' \in [Speeches -> Ends \cup {"none"}]
    BY <1>5 DEF TDropped, Ends, TypeOK
  <2>2. ThreadTyped /\ Untouched
    BY <1>5, <2>1 DEF TDropped, ThreadGoes, ThreadTyped, TypeOK, Places
  <2>3. BuildTyped
    BY <1>5 DEF TDropped, BuildTyped, TypeOK, Streams
  <2> QED
    BY <2>2, <2>3, ThreadFrame
<1>6. CASE TReady
  <2>1. ThreadTyped /\ Untouched
    BY <1>6 DEF TReady, ThreadTyped, TypeOK, Places, threadVars
  <2>2. BuildTyped
    BY <1>6, StoppedTyping DEF TReady, Stop, BuildTyped, TypeOK, Streams
  <2> QED
    BY <2>1, <2>2, ThreadFrame
<1>7. CASE TSpeak
  <2>1. ThreadTyped /\ Untouched
    BY <1>7, HandlerTyping DEF TSpeak, SwitchPipeline, ThreadTyped, TypeOK, Places, threadVars
  <2>2. CASE UNCHANGED <<pipeline, type, failures, errors, stream, paused>> /\ eos' = FALSE
    <3>1. BuildTyped
      BY <2>2 DEF BuildTyped, TypeOK, Streams
    <3> QED
      BY <2>1, <3>1, ThreadFrame
  <2>3. ASSUME NEW t \in PipelineTypes, Create(t, 0, errors, paused) PROVE TypeOK'
    BY <1>a, <2>1, <2>3, CreateTyping, ThreadFrame
  <2> QED
    BY <1>7, <2>2, <2>3 DEF TSpeak, SwitchPipeline
<1>8. CASE TPlay
  <2>1. CASE Crash
    BY <2>1, CrashTyping
  <2>2. CASE ~Crash
    <3>1. ThreadTyped /\ Untouched
      BY <1>8, <2>2 DEF TPlay, ThreadGoes, ThreadTyped, TypeOK, Places, threadVars
    <3>2. BuildTyped
      BY <1>8, <2>2 DEF TPlay, BuildTyped, TypeOK, Streams
    <3> QED
      BY <3>1, <3>2, ThreadFrame
  <2> QED
    BY <2>1, <2>2
<1>9. CASE TWait
  <2>1. ThreadTyped /\ Untouched
    BY <1>9 DEF TWait, ThreadGoes, ThreadTyped, TypeOK, Places, threadVars
  <2>2. BuildTyped
    BY <1>9, StoppedTyping DEF TWait, Stop, BuildTyped, TypeOK
  <2> QED
    BY <2>1, <2>2, ThreadFrame
<1>10. CASE TReset
  <2>1. ThreadTyped /\ Untouched
    BY <1>10, HandlerTyping DEF TReset, Reset, ThreadGoes, ThreadTyped, TypeOK, Places, threadVars
  <2>2. BuildTyped
    <3>1. ASSUME NEW nf \in {0, failures}, Create(type, nf, {}, FALSE) PROVE BuildTyped
      <4>1. nf \in 0..255
        BY <1>a
      <4> QED
        BY <1>a, <3>1, <4>1, CreateTyping
    <3>2. CASE Stop /\ errors' = {} /\ paused' = FALSE /\ eos' = FALSE /\ UNCHANGED <<type, failures>>
      BY <3>2, StoppedTyping DEF Stop, BuildTyped, TypeOK
    <3> QED
      BY <1>10, <3>1, <3>2 DEF TReset, Reset
  <2> QED
    BY <2>1, <2>2, ThreadFrame
<1> QED
  BY <1>1, <1>2, <1>3, <1>4, <1>5, <1>6, <1>7, <1>8, <1>9, <1>10 DEF GStreamerThread, PlainStep

-----------------------------------------------------------------------------
(* Speeches and their turns. *)

SInv == TurnInv /\ QueueInv /\ SpeechInv /\ CallbackSpeechAlive /\ LatestNotLost

LEMMA InitInv == Init => IInv
<1> SUFFICES ASSUME Init PROVE IInv
  OBVIOUS
<1>1. TurnInv
  BY DEF Init, TurnInv, TurnPlaces
<1>2. QueueInv /\ LatestNotLost
  BY DEF Init, QueueInv, LatestNotLost, SpeakSteps
<1>3. SpeechInv /\ CallbackSpeechAlive
  BY DEF Init, SpeechInv, SpeakingPlaces, CallbackSpeechAlive
<1> QED
  BY <1>1, <1>2, <1>3, InitTyping DEF IInv

\* A process that is gone breaks no promise.
LEMMA CrashInv ==
    ASSUME TypeOK, SInv, Crash
    PROVE  SInv'
<1>1. TurnInv'
  BY DEF SInv, TurnInv, TurnPlaces, Crash, threadVars
<1>2. QueueInv' /\ LatestNotLost'
  BY DEF SInv, QueueInv, LatestNotLost, SpeakSteps, Alive, Crash, threadVars
<1>3. SpeechInv' /\ CallbackSpeechAlive'
  BY DEF SpeechInv, CallbackSpeechAlive, Alive, Crash
<1> QED
  BY <1>1, <1>2, <1>3 DEF SInv

\* A step of somebody else leaves the thread where it is, or wakes it.
LEMMA AwayInv ==
    ASSUME TypeOK, SInv, UNCHANGED <<asked, data, told, speaking, current, telling>>,
           pipeline = "none" => pipeline' = "none", pc' \in {pc, Notified}
    PROVE  TurnInv' /\ SpeechInv' /\ CallbackSpeechAlive'
<1>1. CASE pc' = pc
  BY <1>1 DEF SInv, TurnInv, SpeechInv, CallbackSpeechAlive, Alive
<1>2. CASE pc = "blocked" /\ pc' = "idle"
  BY <1>2 DEF SInv, TurnInv, TurnPlaces, SpeechInv, SpeakingPlaces, CallbackSpeechAlive, Alive
<1> QED
  BY <1>1, <1>2 DEF Notified

\* The client's steps.
LEMMA ClientInv == TypeOK /\ SInv /\ (ClientCalls \/ ClientGoesOn) => SInv'
<1> SUFFICES ASSUME TypeOK, SInv, ClientCalls \/ ClientGoesOn PROVE SInv'
  OBVIOUS
<1>1. CASE Speak
  <2>1. /\ asked' = asked + 1 /\ client' \in {"speakFlush", "speakClear"}
        /\ UNCHANGED <<queue, pc, data, told, speaking, current, telling, pipeline>>
    BY <1>1 DEF Speak, Unspoken, threadVars, busVars
  <2>2. asked \in Nat /\ data \in Nat /\ \A s \in Speeches : s \in Nat
    BY SpeakerAssumption DEF TypeOK, Speeches
  <2>3. TurnInv'
    BY <2>1, <2>2 DEF SInv, TurnInv
  <2>4. QueueInv' /\ LatestNotLost'
    BY <2>1, <2>2 DEF SInv, TurnInv, QueueInv, LatestNotLost, SpeakSteps
  <2>5. SpeechInv' /\ CallbackSpeechAlive'
    BY <2>1 DEF SInv, SpeechInv, CallbackSpeechAlive, Alive
  <2> QED
    BY <2>3, <2>4, <2>5 DEF SInv
<1>2. CASE ClearQueue
  <2>1. /\ client = "speakClear" /\ client' = "speakQueue" /\ queue' = <<>>
        /\ UNCHANGED <<asked, pc, data, told, speaking, current, telling, pipeline>>
    BY <1>2 DEF ClearQueue, Unspoken, threadVars, busVars
  <2>2. QueueInv' /\ LatestNotLost'
    BY <2>1 DEF SInv, QueueInv, LatestNotLost, SpeakSteps
  <2> QED
    BY <2>1, <2>2, AwayInv DEF SInv
<1>3. CASE QueueData
  <2>1. /\ client = "speakQueue" /\ client' = "idle" /\ queue' = Append(queue, asked)
        /\ pc' = Notified
        /\ UNCHANGED <<asked, data, told, speaking, current, telling, pipeline>>
    BY <1>3 DEF QueueData, Unspoken, threadVars, busVars
  <2>2. queue = <<>> /\ data < asked
    BY <2>1 DEF SInv, QueueInv, SpeakSteps
  <2>3. queue' = <<asked>>
    BY <2>1, <2>2
  <2>4. asked \in Speeches
    BY <2>2 DEF TypeOK, Speeches
  <2>5. QueueInv' /\ LatestNotLost'
    BY <2>1, <2>2, <2>3, <2>4 DEF QueueInv, LatestNotLost, SpeakSteps, Speeches
  <2> QED
    BY <2>1, <2>5, AwayInv DEF SInv
<1>4. CASE \/ \E id \in Speeches : Cancel(id) \/ Pause(id) \/ Resume(id)
           \/ Cancel(0) \/ \E on \in BOOLEAN : Enable(on)
           \/ Destructor \/ Flush \/ EnsurePipeline \/ PausePipeline \/ ResumePipeline
  <2>1. /\ UNCHANGED <<asked, queue, data, told, speaking, current, telling>>
        /\ pc' \in {pc, Notified} /\ (pipeline = "none" => pipeline' = "none")
    BY <1>4 DEF Cancel, Pause, Resume, Enable, Call, Destructor, Flush, EnsurePipeline,
                PausePipeline, ResumePipeline, Unspoken, threadVars, busVars
  <2>2. client' \in SpeakSteps => client \in SpeakSteps /\ client' # "speakQueue"
    BY <1>4 DEF Cancel, Pause, Resume, Enable, Call, Destructor, Flush, EnsurePipeline,
                PausePipeline, ResumePipeline, SpeakSteps
  <2>3. client \in SpeakSteps => client' \in SpeakSteps
    BY <1>4 DEF Cancel, Pause, Resume, Enable, Call, Destructor, Flush, EnsurePipeline,
                PausePipeline, ResumePipeline, SpeakSteps
  <2>4. Alive' => Alive
    BY <2>1 DEF Alive, Notified
  <2>5. QueueInv'
    BY <2>1, <2>2 DEF SInv, QueueInv, SpeakSteps
  <2>6. LatestNotLost'
    BY <2>1, <2>3, <2>4 DEF SInv, LatestNotLost
  <2> QED
    BY <2>1, <2>5, <2>6, AwayInv DEF SInv
<1> QED
  BY <1>1, <1>2, <1>3, <1>4 DEF ClientCalls, ClientGoesOn

\* The pipeline's and the bus thread's steps.
LEMMA StreamInv == TypeOK /\ SInv /\ (StreamMoves \/ StreamEnds \/ BusThread) => SInv'
<1> SUFFICES ASSUME TypeOK, SInv, StreamMoves \/ StreamEnds \/ BusThread PROVE SInv'
  OBVIOUS
<1>1. ASSUME UNCHANGED <<asked, client, queue, data, told, speaking, current>>,
             pc' \in {pc, Notified}
      PROVE  QueueInv' /\ LatestNotLost'
  <2>1. Alive' => Alive
    BY <1>1 DEF Alive, Notified
  <2> QED
    BY <1>1, <2>1 DEF SInv, QueueInv, LatestNotLost
<1>2. CASE StreamMoves \/ StreamEnds \/ BusTake \/ BusEnd
  <2>1. /\ UNCHANGED <<asked, client, queue, data, told, speaking, current, telling, pipeline>>
        /\ pc' \in {pc, Notified}
    BY <1>2 DEF StreamMoves, StreamEnds, BusTake, BusEnd, clientVars, threadVars, busVars
  <2> QED
    BY <1>1, <2>1, AwayInv DEF SInv
<1>3. CASE BusState
  <2>1. CASE Crash
    BY <2>1, CrashInv
  <2>2. CASE ~Crash
    <3>1. /\ UNCHANGED <<asked, client, queue, data, told, speaking, current, pc, pipeline>>
          /\ telling' # 0 => speaking /\ current # 0 /\ telling' = current /\ pipeline # "none"
      BY <1>3, <2>2 DEF BusState, clientVars, buildVars, threadVars
    <3>2. TurnInv' /\ SpeechInv'
      BY <3>1 DEF SInv, TurnInv, SpeechInv, Alive
    <3>3. CallbackSpeechAlive'
      BY <3>1 DEF SInv, SpeechInv, CallbackSpeechAlive, Alive
    <3> QED
      BY <1>1, <3>1, <3>2, <3>3 DEF SInv
  <2> QED
    BY <2>1, <2>2
<1>4. CASE BusTell
  <2>1. /\ UNCHANGED <<asked, client, queue, data, told, speaking, current, pc, pipeline>>
        /\ telling' = 0
    BY <1>4 DEF BusTell, clientVars, buildVars, threadVars
  <2>2. TurnInv' /\ SpeechInv' /\ CallbackSpeechAlive'
    BY <2>1 DEF SInv, TurnInv, SpeechInv, CallbackSpeechAlive, Alive
  <2> QED
    BY <1>1, <2>1, <2>2 DEF SInv
<1> QED
  BY <1>2, <1>3, <1>4 DEF BusThread

\* The thread's steps that take and end no turn.
MoveStep ==
    \/ TTop \/ TCreated \/ TIdle \/ TBlock \/ TReady \/ TSet \/ TWill \/ TSpeak
    \/ TPlay \/ TWait \/ TClear \/ TAfter \/ TUnset \/ TReset

LEMMA MoveKeeps ==
    ASSUME MoveStep, ~Crash
    PROVE  UNCHANGED <<asked, client, queue, data, told, telling>> /\ pc # "crashed" /\ pc' # "crashed"
<1> USE DEF Untouched, ThreadGoes, clientVars, threadVars
<1>1. CASE TTop \/ TReady \/ TSpeak
  BY <1>1 DEF TTop, TReady, TSpeak
<1>2. CASE TCreated \/ TIdle \/ TBlock \/ TSet \/ TWill
  BY <1>2 DEF TCreated, TIdle, TBlock, TSet, TWill
<1>3. CASE TPlay \/ TWait \/ TClear
  BY <1>3 DEF TPlay, TWait, TClear
<1>4. CASE TAfter \/ TUnset \/ TReset
  BY <1>4 DEF TAfter, TUnset, TReset
<1> QED
  BY <1>1, <1>2, <1>3, <1>4 DEF MoveStep

LEMMA MoveInv == TypeOK /\ SInv /\ MoveStep => SInv'
<1> SUFFICES ASSUME TypeOK, SInv, MoveStep PROVE SInv'
  OBVIOUS
<1>1. CASE Crash
  BY <1>1, CrashInv
<1>2. CASE ~Crash
  <2>1. UNCHANGED <<asked, client, queue, data, told, telling>> /\ pc # "crashed" /\ pc' # "crashed"
    BY <1>2, MoveKeeps
  <2>2. QueueInv' /\ LatestNotLost'
    BY <2>1 DEF SInv, QueueInv, LatestNotLost, Alive
  <2>3. (pc \in TurnPlaces <=> pc' \in TurnPlaces) /\ SpeechInv' /\ CallbackSpeechAlive'
    <3> USE <2>1 DEF SInv, SpeechInv, CallbackSpeechAlive, Alive, TurnPlaces, SpeakingPlaces,
                     ThreadGoes
    <3>1. CASE TTop \/ TCreated \/ TIdle \/ TBlock \/ TReady \/ TReset
      BY <3>1 DEF TTop, TCreated, TIdle, TBlock, TReady, TReset
    <3>2. CASE TSet \/ TUnset
      BY <3>2 DEF TSet, TUnset
    <3>3. CASE TWill \/ TWait \/ TClear
      BY <3>3 DEF TWill, TWait, TClear
    <3>4. CASE TSpeak \/ TAfter
      BY <3>4 DEF TSpeak, TAfter
    <3>5. CASE TPlay
      BY <1>2, <3>5 DEF TPlay
    <3> QED
      BY <3>1, <3>2, <3>3, <3>4, <3>5 DEF MoveStep
  <2>4. TurnInv'
    BY <2>1, <2>3 DEF SInv, TurnInv
  <2> QED
    BY <2>2, <2>3, <2>4 DEF SInv
<1> QED
  BY <1>1, <1>2

\* What is taken from the queue is the next speech.
LEMMA DequeueTakes ==
    ASSUME TypeOK, SInv, NEW from \in {"drop", "dequeue"}, NEW to \in {"dropped", "set"},
           Dequeue(from, to), ~Crash
    PROVE  /\ data' \in Speeches /\ data < data' /\ data' <= asked
           /\ queue = <<data'>> /\ queue' = <<>>
           /\ pc = from /\ pc' = to
           /\ UNCHANGED <<asked, client, told, speaking, current, telling>>
<1>1. /\ queue # <<>> /\ data' = Head(queue) /\ queue' = Tail(queue) /\ pc = from /\ pc' = to
      /\ UNCHANGED <<asked, client, told, speaking, current, telling>>
  BY DEF Dequeue, ThreadGoes, Untouched, clientVars
<1>2. PICK s \in Speeches : queue = <<s>> /\ data < s /\ s <= asked
  BY <1>1 DEF SInv, QueueInv
<1>3. Head(queue) = s /\ Tail(queue) = <<>>
  BY <1>2
<1> QED
  BY <1>1, <1>2, <1>3

LEMMA DequeueInv ==
    ASSUME TypeOK, SInv, NEW from \in {"drop", "dequeue"}, NEW to \in {"dropped", "set"},
           Dequeue(from, to)
    PROVE  SInv'
<1>1. CASE Crash
  BY <1>1, CrashInv
<1>2. CASE ~Crash
  <2>1. /\ data' \in Speeches /\ data < data' /\ data' <= asked
        /\ queue = <<data'>> /\ queue' = <<>>
        /\ pc = from /\ pc' = to
        /\ UNCHANGED <<asked, client, told, speaking, current, telling>>
    BY <1>2, DequeueTakes
  <2>2. data \in Nat /\ data' \in Nat /\ \A s \in Speeches : s \in Nat
    BY <2>1, SpeakerAssumption DEF TypeOK, Speeches
  <2>3. TurnInv'
    BY <2>1, <2>2 DEF SInv, TurnInv, TurnPlaces
  <2>4. \A s : <<data'>> = <<s>> => s = data'
    OBVIOUS
  <2>5. client \in SpeakSteps => data' < asked
    BY <2>1, <2>4 DEF SInv, QueueInv
  <2>6. QueueInv'
    BY <2>1, <2>5 DEF SInv, QueueInv
  <2>7. LatestNotLost'
    <3>1. CASE queue = <<asked>>
      BY <2>1, <2>4, <3>1 DEF LatestNotLost
    <3>2. CASE data # asked
      BY <2>1, <3>1, <3>2 DEF SInv, LatestNotLost, Alive
    <3>3. data # asked
      BY <2>1, <2>2 DEF TypeOK
    <3> QED
      BY <3>2, <3>3
  <2>8. SpeechInv' /\ CallbackSpeechAlive'
    BY <2>1 DEF SInv, SpeechInv, CallbackSpeechAlive, Alive, SpeakingPlaces
  <2> QED
    BY <2>3, <2>6, <2>7, <2>8 DEF SInv
<1> QED
  BY <1>1, <1>2

\* The two ends of a turn.
LEMMA EndInv == TypeOK /\ SInv /\ (TDropped \/ TReport) => SInv'
<1> SUFFICES ASSUME TypeOK, SInv, TDropped \/ TReport PROVE SInv'
  OBVIOUS
<1>1. PICK e \in Ends : told' = [told EXCEPT ![data] = e]
  BY DEF TDropped, TReport, Outcome, Ends
<1>2. /\ UNCHANGED <<asked, client, queue, data, speaking, current, telling>>
      /\ \/ pc = "dropped" /\ pc' = "idle"
         \/ pc = "report" /\ pc' = "unset"
  BY DEF TDropped, TReport, ThreadGoes, Untouched, clientVars
<1>3. data \in Speeches /\ told'[data] # "none"
  BY <1>1, <1>2 DEF SInv, TurnInv, TurnPlaces, TypeOK, Ends
<1>4. TurnInv'
  <2>1. \A r \in Speeches : r > data => told'[r] = "none"
    BY <1>1, <1>3, SpeakerAssumption DEF SInv, TurnInv, TypeOK, Speeches
  <2> QED
    BY <1>2, <1>3, <2>1 DEF SInv, TurnInv, TurnPlaces
<1>5. QueueInv' /\ LatestNotLost'
  BY <1>2 DEF SInv, QueueInv, LatestNotLost, Alive
<1>6. SpeechInv' /\ CallbackSpeechAlive'
  BY <1>2 DEF SInv, SpeechInv, CallbackSpeechAlive, Alive, SpeakingPlaces
<1> QED
  BY <1>4, <1>5, <1>6 DEF SInv

LEMMA StepInv == IInv /\ [Next]_vars => IInv'
<1> SUFFICES ASSUME IInv, [Next]_vars PROVE IInv'
  OBVIOUS
<1>0. TypeOK /\ SInv /\ QueueInv /\ TurnInv
  BY DEF IInv, SInv
<1>1. CASE UNCHANGED vars
  BY <1>1 DEF IInv, TypeOK, TurnInv, QueueInv, SpeechInv, CallbackSpeechAlive, LatestNotLost, Alive,
              vars, clientVars, flagVars, buildVars, threadVars, busVars
<1>2. CASE ClientCalls \/ ClientGoesOn
  BY <1>0, <1>2, ClientTyping, ClientInv DEF IInv, SInv
<1>3. CASE BusThread \/ StreamMoves \/ StreamEnds
  BY <1>0, <1>3, StreamTyping, StreamInv DEF IInv, SInv
<1>4. CASE GStreamerThread
  <2>1. SInv'
    BY <1>0, <1>4, MoveInv, DequeueInv, EndInv DEF GStreamerThread, MoveStep, TDrop, TDequeue
  <2> QED
    BY <1>0, <1>4, <2>1, ThreadTyping DEF IInv, SInv
<1> QED
  BY <1>1, <1>2, <1>3, <1>4 DEF Next

\* The members of the speaker keep their types under every interleaving.
THEOREM SpeakerTypeCorrect == Spec => []TypeOK
<1>1. IInv => TypeOK
  BY DEF IInv
<1> QED
  BY <1>1, InitInv, StepInv, PTL DEF Spec

\* A callback of the bus thread concerns the speech that the GStreamer thread is at.
THEOREM CallbacksHaveTheirSpeech == Spec => []CallbackSpeechAlive
<1>1. IInv => CallbackSpeechAlive
  BY DEF IInv
<1> QED
  BY <1>1, InitInv, StepInv, PTL DEF Spec

\* No flush and no failed pipeline drops the speech that was asked for last.
THEOREM LatestIsKept == Spec => []LatestNotLost
<1>1. IInv => LatestNotLost
  BY DEF IInv
<1> QED
  BY <1>1, InitInv, StepInv, PTL DEF Spec

-----------------------------------------------------------------------------
(* No wakeup is lost. *)

SleepPlaces == {"blocking", "blocked"}

\* A client's step to something new is under m_queueMutex, and so finds the thread asleep,
\* not on its way, and wakes it.
LEMMA ClientWakes ==
    ASSUME TypeOK, QueueInv, AsleepMeansNothingToDo, ClientCalls \/ ClientGoesOn
    PROVE  AsleepMeansNothingToDo'
<1> SUFFICES ASSUME run', pc' \in SleepPlaces PROVE queue' = <<>> /\ ~NeedsPipelineUpdate'
  BY DEF AsleepMeansNothingToDo, SleepPlaces
<1>1. CASE ClientCalls /\ ~Destructor
  <2>1. UNCHANGED <<queue, flagVars, pipeline, pc>> /\ Unspoken
    BY <1>1 DEF ClientCalls, Speak, Cancel, Pause, Resume, Enable, Call
  <2> QED
    BY <2>1 DEF Unspoken, flagVars, AsleepMeansNothingToDo, SleepPlaces, NeedsPipelineUpdate
<1>2. CASE Destructor
  BY <1>2 DEF Destructor
<1>3. CASE Flush
  <2>1. pc \in SleepPlaces /\ UNCHANGED <<queue, ensure, run, pipeline, failures>>
    BY <1>3 DEF Flush, Unspoken, Notified, SleepPlaces
  <2> QED
    BY <2>1 DEF AsleepMeansNothingToDo, SleepPlaces, NeedsPipelineUpdate
<1>4. CASE ClearQueue
  <2>1. pc = "blocked" /\ queue' = <<>> /\ UNCHANGED <<ensure, run, pipeline, failures>>
    BY <1>4 DEF ClearQueue, QueueMutexFree, Unspoken, flagVars, SleepPlaces
  <2> QED
    BY <2>1 DEF AsleepMeansNothingToDo, NeedsPipelineUpdate
<1>5. CASE QueueData \/ EnsurePipeline
  <2>1. pc' \notin SleepPlaces
    BY <1>5 DEF QueueData, EnsurePipeline, QueueMutexFree, Notified, SleepPlaces
  <2> QED
    BY <2>1
<1>6. CASE PausePipeline \/ ResumePipeline
  <2>1. /\ pc \in SleepPlaces /\ UNCHANGED <<queue, ensure, run, failures>>
        /\ pipeline' = "none" <=> pipeline = "none"
    BY <1>6 DEF PausePipeline, ResumePipeline, Unspoken, flagVars
  <2> QED
    BY <2>1 DEF AsleepMeansNothingToDo, SleepPlaces, NeedsPipelineUpdate
<1> QED
  BY <1>1, <1>2, <1>3, <1>4, <1>5, <1>6 DEF ClientGoesOn

\* The bus and the pipeline bring nothing the thread sleeps for.
LEMMA StreamWakes ==
    ASSUME AsleepMeansNothingToDo, BusThread \/ StreamMoves \/ StreamEnds
    PROVE  AsleepMeansNothingToDo'
<1>1. CASE Crash
  BY <1>1 DEF Crash, AsleepMeansNothingToDo
<1>2. CASE ~Crash
  <2>1. /\ UNCHANGED <<queue, ensure, run, pipeline, failures>>
        /\ pc' \in {pc, Notified}
    BY <1>2 DEF BusThread, BusTake, BusEnd, BusState, BusTell, StreamMoves, StreamEnds,
                clientVars, flagVars, buildVars
  <2>2. pc' \in SleepPlaces => pc \in SleepPlaces
    BY <2>1 DEF Notified, SleepPlaces
  <2> QED
    BY <2>1, <2>2 DEF AsleepMeansNothingToDo, SleepPlaces, NeedsPipelineUpdate
<1> QED
  BY <1>1, <1>2

\* The thread looks before it sleeps.
LEMMA ThreadLooks ==
    ASSUME AsleepMeansNothingToDo, GStreamerThread
    PROVE  AsleepMeansNothingToDo'
<1>1. CASE TIdle \/ TBlock
  BY <1>1 DEF TIdle, TBlock, ThreadGoes, Untouched, buildVars, AsleepMeansNothingToDo,
              NeedsPipelineUpdate
<1>2. CASE ~(TIdle \/ TBlock)
  <2>1. pc' \notin SleepPlaces
    BY <1>2 DEF GStreamerThread, TTop, TCreated, TDrop, TDropped, TReady, TDequeue, Dequeue, TSet,
                TWill, TSpeak, TPlay, TWait, TClear, TAfter, TReport, TUnset, TReset, Crash,
                ThreadGoes, SleepPlaces
  <2> QED
    BY <2>1 DEF AsleepMeansNothingToDo, SleepPlaces
<1> QED
  BY <1>1, <1>2

\* The thread never sleeps on a text or on a pipeline that is to be built or let go.
THEOREM NoWakeupIsLost == Spec => []AsleepMeansNothingToDo
<1>1. Init => AsleepMeansNothingToDo
  BY DEF Init, AsleepMeansNothingToDo
<1>2. IInv /\ AsleepMeansNothingToDo /\ [Next]_vars => AsleepMeansNothingToDo'
  <2> SUFFICES ASSUME IInv, AsleepMeansNothingToDo, [Next]_vars PROVE AsleepMeansNothingToDo'
    OBVIOUS
  <2>1. CASE UNCHANGED vars
    BY <2>1 DEF vars, flagVars, buildVars, AsleepMeansNothingToDo, NeedsPipelineUpdate
  <2> QED
    BY <2>1, ClientWakes, StreamWakes, ThreadLooks DEF Next, IInv
<1> QED
  BY <1>1, <1>2, InitInv, StepInv, PTL DEF Spec

-----------------------------------------------------------------------------
(* The speaker implements SpeechTurns. *)

Turn == IF data \in Speeches /\ told[data] = "none" THEN data ELSE 0

LEMMA TurnsDefs ==
    /\ Turns!Init <=> asked = 0 /\ Turn = 0 /\ told = [s \in Speeches |-> "none"]
    /\ Turns!vars = <<asked, Turn, told>>
    /\ Turns!Speeches = Speeches
    /\ Turns!Ends = Ends
  BY DEF Turns!Init, Turns!vars, Turns!Speeches, Turns!Ends, Turn, Speeches, Ends

LEMMA InitTurns == Init => Turns!Init
  BY TurnsDefs, SpeakerAssumption DEF Init, Turn, Speeches

\* A dequeued speech takes its turn.
LEMMA DequeueTurns ==
    ASSUME IInv, NEW from \in {"drop", "dequeue"}, NEW to \in {"dropped", "set"},
           Dequeue(from, to), ~Crash
    PROVE  \E s \in Speeches : Turns!Take(s)
<1>1. TypeOK /\ SInv
  BY DEF IInv, SInv
<1>2. /\ data' \in Speeches /\ data < data' /\ data' <= asked /\ pc = from
      /\ UNCHANGED <<asked, told>>
  BY <1>1, DequeueTakes
<1>3. Turn = 0
  BY <1>1, <1>2 DEF SInv, TurnInv, TurnPlaces, Turn, Speeches
<1>4. \A r \in data'..MaxSpeeches : told[r] = "none"
  <2>1. SUFFICES ASSUME NEW r \in data'..MaxSpeeches PROVE told[r] = "none"
    OBVIOUS
  <2>2. r \in Speeches /\ r > data
    BY <1>1, <1>2, SpeakerAssumption DEF TypeOK, Speeches
  <2> QED
    BY <1>1, <2>2 DEF SInv, TurnInv
<1>5. Turn' = data'
  <2>1. told'[data'] = "none"
    BY <1>2, <1>4, SpeakerAssumption DEF Speeches
  <2> QED
    BY <1>2, <2>1 DEF Turn, Speeches
<1>6. Turns!Take(data')
  BY <1>2, <1>3, <1>4, <1>5 DEF Turns!Take, Turn
<1> QED
  BY <1>2, <1>6

\* A report ends the turn.
LEMMA EndTurns == IInv /\ (TDropped \/ TReport) => Turns!End
<1> SUFFICES ASSUME IInv, TDropped \/ TReport PROVE Turns!End
  OBVIOUS
<1>1. PICK e \in Ends : told' = [told EXCEPT ![data] = e]
  BY DEF TDropped, TReport, Outcome, Ends
<1>2. data' = data /\ asked' = asked /\ pc \in TurnPlaces
  BY DEF TDropped, TReport, ThreadGoes, Untouched, clientVars, TurnPlaces
<1>3. data \in Speeches /\ told[data] = "none" /\ told'[data] # "none"
  BY <1>1, <1>2 DEF IInv, TurnInv, TypeOK, Ends
<1>4. Turn = data /\ Turn # 0 /\ Turn' = 0
  BY <1>2, <1>3, SpeakerAssumption DEF Turn, Speeches
<1> QED
  BY <1>1, <1>2, <1>4, TurnsDefs DEF Turns!End, Turn

\* Every other step but Speak leaves the turns alone.
LEMMA OtherTurns ==
    ASSUME UNCHANGED <<asked, data, told>>
    PROVE  UNCHANGED Turns!vars
  BY DEF Turns!vars

LEMMA StepTurns == IInv /\ [Next]_vars => [Turns!Next]_(Turns!vars)
<1> SUFFICES ASSUME IInv, [Next]_vars PROVE [Turns!Next]_(Turns!vars)
  OBVIOUS
<1>1. CASE Crash \/ UNCHANGED vars
  BY <1>1, OtherTurns DEF Crash, vars, clientVars, threadVars
<1>2. CASE Speak
  BY <1>2 DEF Speak, Unspoken, threadVars, Turns!Next, Turns!Ask
<1>3. CASE ClientCalls /\ ~Speak
  BY <1>3, OtherTurns DEF ClientCalls, Cancel, Pause, Resume, Enable, Call, Destructor, Unspoken,
                          threadVars
<1>4. CASE ClientGoesOn
  BY <1>4, OtherTurns DEF ClientGoesOn, Flush, ClearQueue, QueueData, EnsurePipeline,
                          PausePipeline, ResumePipeline, Unspoken, threadVars
<1>5. CASE (BusThread \/ StreamMoves \/ StreamEnds) /\ ~Crash
  BY <1>5, OtherTurns DEF BusThread, BusTake, BusEnd, BusState, BusTell, StreamMoves, StreamEnds,
                          clientVars, threadVars
<1>6. CASE MoveStep /\ ~Crash
  BY <1>6, MoveKeeps, OtherTurns
<1>7. CASE (TDrop \/ TDequeue) /\ ~Crash
  BY <1>7, DequeueTurns, TurnsDefs DEF TDrop, TDequeue, Turns!Next
<1>8. CASE TDropped \/ TReport
  BY <1>8, EndTurns DEF Turns!Next
<1> QED
  BY <1>1, <1>2, <1>3, <1>4, <1>5, <1>6, <1>7, <1>8 DEF Next, GStreamerThread, MoveStep

\* Turns are taken in order, one at a time, and end with one event each.
THEOREM TurnsImplemented == Spec => TurnsSpec
<1>1. Init => IInv
  BY InitInv
<1> QED
  BY <1>1, StepInv, InitTurns, StepTurns, PTL DEF Spec, TurnsSpec, Turns!Spec
=============================================================================
