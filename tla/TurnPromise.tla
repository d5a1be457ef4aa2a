---------------------------- MODULE TurnPromise ----------------------------
(***************************************************************************)
(* What the dispatch engine promises about the texts of one session        *)
(* (session-lifecycle, "Turn queue back-pressure while streaming" and      *)
(* "Pending submissions are observable and manageable"): a text that is    *)
(* accepted is in the engine's hands until it waits in line or is handed   *)
(* to the agent; it is handed over at most once; the line is left at its   *)
(* head only, where a priority text is put; and only the end of the        *)
(* session takes a waiting text out without handing it over.               *)
(***************************************************************************)
EXTENDS Sequences, SequencesExt

CONSTANTS Texts, Priority

VARIABLES
  place,  \* where each text is
  line    \* the texts waiting, in the order they will be handed over

Places == {"new", "held", "line", "given", "lost"}

Init == place = [t \in Texts |-> "new"] /\ line = <<>>

Move(t, from, to) == place[t] = from /\ place' = [place EXCEPT ![t] = to]

Accept(t) == Move(t, "new", "held") /\ UNCHANGED line
Wait(t) ==
  /\ Move(t, "held", "line")
  /\ line' = IF t \in Priority THEN <<t>> \o line ELSE Append(line, t)
Give(t)   == Move(t, "held", "given") /\ UNCHANGED line
TakeHead  == line # <<>> /\ Move(Head(line), "line", "held") /\ line' = Tail(line)
EndSession ==
  /\ line # <<>> /\ line' = <<>>
  /\ place' = [t \in Texts |-> IF place[t] = "line" THEN "lost" ELSE place[t]]

Next == TakeHead \/ EndSession \/ \E t \in Texts : Accept(t) \/ Wait(t) \/ Give(t)

Spec == Init /\ [][Next]_<<place, line>>

\* A text in the engine's hands does not stay there.
FairSpec == Spec /\ \A t \in Texts : WF_<<place, line>>(Wait(t) \/ Give(t))
=============================================================================
