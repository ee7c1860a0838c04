---------------------------- MODULE MCTTSSpeaker ----------------------------
(* The instances of TTSSpeaker for TLC, and what its comments claim that the *)
(* code does not keep.                                                       *)
EXTENDS TTSSpeaker

\* dequeueData() is called when a text is in the queue: "Got text input" is logged before
\* it, after the wait for text (TTSSpeaker.cpp, GStreamerThreadFunc()).
NoEmptyDequeue == pc = "dequeue" => queue # <<>>
=============================================================================
