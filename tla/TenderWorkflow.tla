--------------------------- MODULE TenderWorkflow ---------------------------
(***************************************************************************)
(* What an analysis run promises to whoever watches its current_step: it   *)
(* moves along the supervisor's routing table, it goes from "decided" into *)
(* execution or rejection only on a human verdict, and a closed run stays  *)
(* closed.  Nothing here knows about agents, subgraphs or reducers.        *)
(***************************************************************************)
EXTENDS TenderSteps

VARIABLES
  step,      \* current_step as the supervisor and the API see it
  verdict,   \* what the human answered: "none" until the run is resumed
  drafted    \* whether a proposal draft exists

vars == <<step, verdict, drafted>>

Init ==
  /\ step = "start"
  /\ verdict = "none"
  /\ drafted = FALSE

(* The machine's own moves: every node except the human interrupt.         *)
Advance ==
  /\ step # "decided"
  /\ step' \in Outcomes[ROUTING[step]]
  /\ drafted' = (drafted \/ step' = "executed")
  /\ UNCHANGED verdict

Resume(d) ==
  /\ step = "decided"
  /\ step' = d
  /\ verdict' = d
  /\ UNCHANGED drafted

Next == Advance \/ \E d \in Decision : Resume(d)

(* What may happen, and that the machine's own moves do happen.            *)
Safety == Init /\ [][Next]_vars
Progress == WF_vars(Advance)

Spec == Safety /\ Progress
=============================================================================
