-------------------------------- MODULE Board --------------------------------
(***************************************************************************)
(* The Kanban board over the runs of the store: the stage a run is shown   *)
(* in follows from the current_step of its snapshot until somebody moves   *)
(* the card by hand.  The dashboard and the health score each translate    *)
(* steps to stages with a table of their own, and count wins and losses    *)
(* from them.  The snapshot is the last chunk any task of the run has      *)
(* brought: that of the analysis, and one for each decision accepted, of   *)
(* which there may be several (see RunSession, where the store of one      *)
(* process follows the checkpoint as it does here).                        *)
(***************************************************************************)
EXTENDS Absent, TenderSteps, Naturals, FiniteSets

CONSTANTS
  Runs,
  Verdicts \* bound: the approvals and rejections asked for, all runs together

(* What Services assumes of these constants. *)
BoardFit == None \notin Step \cup Runs

VARIABLES
  step,   \* current_step in the run's snapshot, None before the run exists
  stage,  \* RunEntry.stage, None until the card is moved
  verdict \* each decision accepted: its run, and the step its task has reached

BoardVars == <<step, stage, verdict>>

Stage == {"analisando", "decidindo", "preparando", "disputando", "ganho", "perdido"}

NoVerdict == [run |-> None, decision |-> "none", at |-> None]

BoardInit ==
  /\ step = [r \in Runs |-> None]
  /\ stage = [r \in Runs |-> None]
  /\ verdict = [v \in Verdicts |-> NoVerdict]

Created == {r \in Runs : step[r] # None}
Accepted(r) == {v \in Verdicts : verdict[v].run = r}

CreateRun(r) ==
  /\ step[r] = None
  /\ step' = [step EXCEPT ![r] = "start"]
  /\ UNCHANGED <<stage, verdict>>

(* The analysis brings the next chunk, until it waits for a decision.      *)
Analyse(r) ==
  /\ step[r] \notin {None, "decided"}
  /\ Accepted(r) = {}
  /\ \E s \in Outcomes[ROUTING[step[r]]] : step' = [step EXCEPT ![r] = s]
  /\ UNCHANGED <<stage, verdict>>

(* POST /approve or /reject: only the snapshot is asked, so as long as it  *)
(* says "decided" every decision is accepted.                              *)
AcceptVerdict(v, r, d) ==
  /\ verdict[v].run = None
  /\ step[r] \in ApprovableSteps
  /\ verdict' = [verdict EXCEPT ![v] = [run |-> r, decision |-> d, at |-> None]]
  /\ UNCHANGED <<step, stage>>

(* The first chunk of its task repeats the checkpoint, wherever it stands. *)
BeginResume(v) ==
  /\ verdict[v].run # None
  /\ verdict[v].at = None
  /\ verdict' = [verdict EXCEPT ![v].at = step[verdict[v].run]]
  /\ UNCHANGED <<step, stage>>

(* The next chunk of a resumed run: what the human decided, then whatever  *)
(* the execution comes to; another task may have left the snapshot         *)
(* anywhere meanwhile.                                                     *)
Resume(v) ==
  /\ verdict[v].at # None
  /\ \E s \in IF verdict[v].at = "decided" THEN {verdict[v].decision}
             ELSE Outcomes[ROUTING[verdict[v].at]] :
       /\ verdict' = [verdict EXCEPT ![v].at = s]
       /\ step' = [step EXCEPT ![verdict[v].run] = s]
  /\ UNCHANGED stage

(* Fault: a card is moved before its run is in the store. *)
UpdateStageAnyRun(r, s) ==
  /\ stage' = [stage EXCEPT ![r] = s]
  /\ UNCHANGED <<step, verdict>>

(* Any card, to any stage, at any time. *)
UpdateStage(r, s) ==
  /\ step[r] # None
  /\ stage' = [stage EXCEPT ![r] = s]
  /\ UNCHANGED <<step, verdict>>

BoardNext ==
  \/ \E r \in Runs : CreateRun(r) \/ Analyse(r) \/ \E s \in Stage : UpdateStage(r, s)
  \/ \E v \in Verdicts :
       \/ \E r \in Runs, d \in Decision : AcceptVerdict(v, r, d)
       \/ BeginResume(v)
       \/ Resume(v)

BoardSpec == BoardInit /\ [][BoardNext]_BoardVars
-----------------------------------------------------------------------------
(* Fault: an approved run is still shown as waiting for its decision. *)
STAGE_BY_STEP_Approved(s) ==
  CASE s \in {"decided", "approved"} -> "decidindo"
    [] s = "completed" -> "preparando"
    [] s \in {"rejected", "ingestion_failed", "understanding_failed", "execution_failed"} -> "perdido"
    [] OTHER -> "analisando"

(* The dashboard's table; what it does not name is being analysed.         *)
STAGE_BY_STEP(s) ==
  CASE s = "decided" -> "decidindo"
    [] s = "completed" -> "preparando"
    [] s \in {"rejected", "ingestion_failed", "understanding_failed", "execution_failed"} -> "perdido"
    [] OTHER -> "analisando"

EffectiveStage(r) == IF stage[r] # None THEN stage[r] ELSE STAGE_BY_STEP(step[r])

(* Fault: a run that failed is lost here too. *)
HealthStageFailed(r) ==
  IF stage[r] # None THEN stage[r]
  ELSE CASE step[r] = "decided" -> "decidindo"
         [] step[r] = "completed" -> "preparando"
         [] step[r] \in TerminalSteps \ {"completed"} -> "perdido"
         [] OTHER -> "analisando"

(* The health score's table. *)
HealthStage(r) ==
  IF stage[r] # None THEN stage[r]
  ELSE CASE step[r] = "decided" -> "decidindo"
         [] step[r] = "completed" -> "preparando"
         [] step[r] = "rejected" -> "perdido"
         [] OTHER -> "analisando"

(* GET /dashboard/summary: the cards of each column. *)
Summary == [s \in Stage |-> Cardinality({r \in Created : EffectiveStage(r) = s})]

(* What the health score knows of the runs. *)
RunInputs ==
  LET wins == Cardinality({r \in Created : HealthStage(r) = "ganho"})
  IN [ganhos |-> wins,
      total  |-> wins + Cardinality({r \in Created : HealthStage(r) = "perdido"}),
      recente |-> Created # {}]
-----------------------------------------------------------------------------
BoardTypeOK ==
  /\ step \in [Runs -> Step \cup {None}]
  /\ stage \in [Runs -> Stage \cup {None}]
  /\ verdict \in [Verdicts ->
       [run: Runs \cup {None}, decision: Decision \cup {"none"}, at: Step \cup {None}]]
  /\ \A r \in Runs : stage[r] # None => step[r] # None

FailedCards ==
  {r \in Created : stage[r] = None /\ step[r] \in TerminalSteps \ {"completed", "rejected"}}

(* The two pages agree on the wins, and on the losses up to the runs that  *)
(* failed and whose card nobody has moved: for the dashboard they are      *)
(* lost, for the health score still being analysed, for ever.  So the      *)
(* dashboard's win rate is never above the health score's.                 *)
LossesDifferByFailedRuns ==
  /\ RunInputs.ganhos = Summary["ganho"]
  /\ Summary["ganho"] + Summary["perdido"] = RunInputs.total + Cardinality(FailedCards)

Rank(s) == CASE s = "analisando" -> 0 [] s = "decidindo" -> 1 [] OTHER -> 2

(* A card nobody has moved goes back on its own, on either page, only if   *)
(* the human has approved: when the run that waited for the decision is    *)
(* analysed again until its proposal and contract are done; and, when      *)
(* several decisions were accepted, also when the task of one of them      *)
(* overwrites what another has brought (rejected, then approved).          *)
MovesBack(r) ==
  /\ stage'[r] = stage[r]
  /\ \/ Rank(EffectiveStage(r)') < Rank(EffectiveStage(r))
     \/ Rank(HealthStage(r)') < Rank(HealthStage(r))

MovesBackOnApprovalOnly ==
  [][\A r \in Created :
       /\ MovesBack(r) =>
            /\ \E v \in Accepted(r) : verdict[v].decision = "approved"
            /\ \/ step[r] = "decided" /\ step'[r] = "approved"
               \/ \E v, w \in Accepted(r) : v # w
       /\ stage[r] = None /\ step[r] = "decided" /\ step'[r] = "approved" => MovesBack(r)
     ]_BoardVars
=============================================================================
