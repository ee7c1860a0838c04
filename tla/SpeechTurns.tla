---------------------------- MODULE SpeechTurns ----------------------------
(***************************************************************************)
(* What the TextToSpeech plugin promises of the speeches that its clients  *)
(* ask for: they have their turns in the order of their ids, one at a      *)
(* time, and a turn ends with one terminal event.  A speech that is        *)
(* overtaken has no turn at all.                                           *)
(***************************************************************************)
EXTENDS Naturals

CONSTANT MaxSpeeches  \* bound: the ids handed out

VARIABLES
    asked,  \* the id handed out last
    turn,   \* the speech that has its turn, 0 if none
    told    \* the terminal event of each speech
vars == <<asked, turn, told>>

Speeches == 1..MaxSpeeches
Ends == {"complete", "interrupted", "networkerror", "playbackerror"}

Init ==
    /\ asked = 0
    /\ turn = 0
    /\ told = [s \in Speeches |-> "none"]

Ask ==
    /\ asked < MaxSpeeches
    /\ asked' = asked + 1
    /\ UNCHANGED <<turn, told>>

\* No speech of the same or of a later id has had its turn.
Take(s) ==
    /\ turn = 0
    /\ s <= asked
    /\ \A r \in s..MaxSpeeches : told[r] = "none"
    /\ turn' = s
    /\ UNCHANGED <<asked, told>>

End ==
    /\ turn # 0
    /\ \E e \in Ends : told' = [told EXCEPT ![turn] = e]
    /\ turn' = 0
    /\ UNCHANGED asked

Next == Ask \/ End \/ \E s \in Speeches : Take(s)

Spec == Init /\ [][Next]_vars
=============================================================================
