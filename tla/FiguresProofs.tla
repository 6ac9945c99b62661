------------------------------ MODULE FiguresProofs ------------------------------
(***************************************************************************)
(* Proofs about the figures the pages show, for any number of runs and     *)
(* contracts and for any dates and prices: the board and the health score  *)
(* count alike except for failed runs, a card moves back only on an        *)
(* approval, the three pages about contracts agree, the score rises with   *)
(* time only when a contract lapses; the deadline to object is the latest  *)
(* day that leaves its working days, scenarios keep the order of their     *)
(* prices and the taxes listed sum up to their total.                      *)
(***************************************************************************)
EXTENDS Board, Contracts, Calculators, FunctionTheorems, FiniteSetTheorems, WellFoundedInduction, TLAPS

(* Where a run can be once a decision on it was accepted.                  *)
AfterDecision == {"decided", "rejected"} \cup ExecutionSteps

ApprovedOnce(r) == \E v \in Accepted(r) : verdict[v].decision = "approved"

(* Nothing is executed without an approval, in the snapshot or by a task.  *)
ExecutionIsApproved ==
  /\ \A r \in Runs : step[r] \in ExecutionSteps => ApprovedOnce(r)
  /\ \A v \in Verdicts : verdict[v].at \in ExecutionSteps => ApprovedOnce(verdict[v].run)

(* An accepted decision has a run that had reached it, and stays with it.  *)
VerdictsAreOfRuns ==
  \A v \in Verdicts :
    /\ verdict[v].run = None => verdict[v].at = None
    /\ verdict[v].run # None =>
         /\ step[verdict[v].run] \in AfterDecision
         /\ verdict[v].decision \in Decision
         /\ verdict[v].at \in AfterDecision \cup {None}

(* The task of the only decision on a run is where the snapshot is.        *)
SoleTaskLeads ==
  \A v \in Verdicts :
    verdict[v].run # None /\ (\A w \in Accepted(verdict[v].run) : w = v) =>
      step[verdict[v].run] = IF verdict[v].at = None THEN "decided" ELSE verdict[v].at

(* The board holds runs that were created, of which there are only so many *)
(* at any time: counting them is what both pages do.                       *)
BoardInv ==
  /\ BoardTypeOK
  /\ IsFiniteSet(Created)
  /\ ExecutionIsApproved
  /\ VerdictsAreOfRuns
  /\ SoleTaskLeads

(* The board is empty.                                                     *)
LEMMA BoardStarts ==
  ASSUME BoardFit, BoardInit
  PROVE  BoardInv
<1>1. Created = {}
  BY DEF BoardInit, Created
<1>2. BoardTypeOK
  BY DEF BoardInit, BoardTypeOK, NoVerdict
<1>3. ExecutionIsApproved /\ VerdictsAreOfRuns /\ SoleTaskLeads
  BY DEF BoardFit, BoardInit, NoVerdict, Step, ExecutionSteps, ExecutionIsApproved, VerdictsAreOfRuns,
         SoleTaskLeads
<1>4. QED
  BY <1>1, <1>2, <1>3, FS_EmptySet DEF BoardInv

(* Where a subgraph leaves a run that stands at step s.                    *)
LEMMA NextSteps ==
  ASSUME NEW s \in Step \ {"decided"}, NEW t \in Outcomes[ROUTING[s]]
  PROVE  /\ t \in Step
         /\ s \notin TerminalSteps
         /\ t \in ExecutionSteps <=> s \in ExecutionSteps
         /\ s # "rejected"
         /\ s \in ExecutionSteps => s \in {"approved", "executed"}
         /\ t \notin {"approved", "rejected", "start"}
BY DEF Step, Outcomes, ROUTING, Decision, TerminalSteps, ExecutionSteps, END

(* What the next chunk of a resumed run can be.                            *)
LEMMA ResumeBrings ==
  ASSUME BoardFit, BoardInv, NEW v \in Verdicts, Resume(v)
  PROVE  \E s \in AfterDecision \ {"decided"} :
           /\ verdict' = [verdict EXCEPT ![v].at = s]
           /\ step' = [step EXCEPT ![verdict[v].run] = s]
           /\ verdict[v].run \in Runs
           /\ verdict[v].at \in AfterDecision
           /\ s \in ExecutionSteps => ApprovedOnce(verdict[v].run)
           /\ verdict[v].at = "decided" => s = verdict[v].decision
           /\ verdict[v].at # "decided" =>
                verdict[v].at \in {"approved", "executed"} /\ s \in ExecutionSteps \ {"approved"}
<1>1. PICK s \in IF verdict[v].at = "decided" THEN {verdict[v].decision}
                 ELSE Outcomes[ROUTING[verdict[v].at]] :
         /\ verdict' = [verdict EXCEPT ![v].at = s]
         /\ step' = [step EXCEPT ![verdict[v].run] = s]
  BY DEF Resume
<1>2. /\ verdict[v].at # None /\ verdict[v].at \in Step
      /\ verdict[v].run # None /\ verdict[v].run \in Runs
      /\ verdict[v].decision \in Decision
      /\ verdict[v].at \in AfterDecision
  BY DEF Resume, BoardInv, BoardTypeOK, VerdictsAreOfRuns
<1>3. CASE verdict[v].at = "decided"
  <2>1. s = verdict[v].decision
    BY <1>1, <1>3
  <2>2. s \in ExecutionSteps => ApprovedOnce(verdict[v].run)
    BY <1>2, <2>1 DEF ApprovedOnce, Accepted, Decision, ExecutionSteps
  <2>3. s \in AfterDecision \ {"decided"}
    BY <1>2, <2>1 DEF AfterDecision, Decision, ExecutionSteps
  <2>4. QED
    BY <1>1, <1>2, <1>3, <2>1, <2>2, <2>3
<1>4. CASE verdict[v].at # "decided"
  <2>1. s \in Outcomes[ROUTING[verdict[v].at]]
    BY <1>1, <1>4
  <2>2. /\ verdict[v].at # "rejected" /\ s \notin {"approved", "rejected"}
        /\ s \in ExecutionSteps <=> verdict[v].at \in ExecutionSteps
        /\ verdict[v].at \in ExecutionSteps => verdict[v].at \in {"approved", "executed"}
    BY <1>2, <1>4, <2>1, NextSteps
  <2>3. verdict[v].at \in ExecutionSteps
    BY <1>2, <1>4, <2>2 DEF AfterDecision
  <2>4. ApprovedOnce(verdict[v].run)
    BY <2>3 DEF BoardInv, ExecutionIsApproved
  <2>5. s \in AfterDecision \ {"decided"}
    BY <2>2, <2>3 DEF AfterDecision, ExecutionSteps
  <2>6. QED
    BY <1>1, <1>2, <1>4, <2>2, <2>3, <2>4, <2>5
<1>5. QED
  BY <1>3, <1>4

(* A run comes, moves on, or its card is moved; no run leaves the board,   *)
(* and decisions stay with the run they were made on.                      *)
LEMMA BoardStepPreserves ==
  ASSUME BoardFit, BoardInv, [BoardNext]_BoardVars
  PROVE  BoardInv'
<1> USE DEF BoardInv
<1>0. None \notin Step /\ None \notin Runs
  BY DEF BoardFit
<1>1. CASE UNCHANGED BoardVars
  BY <1>1 DEF BoardVars, BoardTypeOK, Created, ExecutionIsApproved, ApprovedOnce, Accepted,
              VerdictsAreOfRuns, SoleTaskLeads
<1>2. ASSUME NEW r \in Runs, CreateRun(r)
      PROVE  BoardInv'
  <2>1. Created' = Created \cup {r}
    BY <1>2, <1>0 DEF CreateRun, Created, BoardTypeOK, Step
  <2>2. BoardTypeOK'
    BY <1>2, <1>0 DEF CreateRun, BoardTypeOK, Step
  <2>3. \A v \in Verdicts : verdict[v].run # r
    BY <1>0, <1>2 DEF CreateRun, VerdictsAreOfRuns, AfterDecision, ExecutionSteps, Step
  <2>4. /\ step'[r] = "start" /\ \A x \in Runs \ {r} : step'[x] = step[x]
        /\ verdict' = verdict
    BY <1>2 DEF CreateRun, BoardTypeOK
  <2>5. ExecutionIsApproved'
    BY <2>4 DEF ExecutionIsApproved, ApprovedOnce, Accepted, ExecutionSteps
  <2>6. \A v \in Verdicts : verdict[v].run # None =>
          step'[verdict[v].run] = step[verdict[v].run]
    BY <2>3, <2>4 DEF BoardTypeOK
  <2>7. VerdictsAreOfRuns' /\ SoleTaskLeads'
    BY <2>4, <2>6 DEF VerdictsAreOfRuns, SoleTaskLeads, Accepted
  <2>8. QED
    BY <2>1, <2>2, <2>5, <2>7, FS_AddElement
<1>3. ASSUME NEW r \in Runs, Analyse(r)
      PROVE  BoardInv'
  <2>1. PICK s \in Outcomes[ROUTING[step[r]]] : step' = [step EXCEPT ![r] = s]
    BY <1>3 DEF Analyse
  <2>2. step[r] \in Step \ {"decided"}
    BY <1>3 DEF Analyse, BoardTypeOK
  <2>3. s \in Step /\ (s \in ExecutionSteps <=> step[r] \in ExecutionSteps)
    BY <2>1, <2>2, NextSteps
  <2>4. s # None /\ s \notin ExecutionSteps
    BY <1>0, <1>3, <2>3 DEF Analyse, ExecutionIsApproved, ApprovedOnce
  <2>5. Created' = Created
    BY <1>3, <2>1, <2>4 DEF Analyse, Created, BoardTypeOK
  <2>6. BoardTypeOK'
    BY <1>3, <2>1, <2>2, <2>3, <2>4 DEF Analyse, BoardTypeOK
  <2>7. /\ step'[r] = s /\ \A x \in Runs \ {r} : step'[x] = step[x]
        /\ verdict' = verdict /\ \A v \in Verdicts : verdict[v].run # r
    BY <1>3, <2>1 DEF Analyse, Accepted, BoardTypeOK
  <2>8. ExecutionIsApproved'
    BY <2>4, <2>7 DEF ExecutionIsApproved, ApprovedOnce, Accepted
  <2>9. \A v \in Verdicts : verdict[v].run # None =>
          step'[verdict[v].run] = step[verdict[v].run]
    BY <2>7 DEF BoardTypeOK
  <2>10. VerdictsAreOfRuns' /\ SoleTaskLeads'
    BY <2>7, <2>9 DEF VerdictsAreOfRuns, SoleTaskLeads, Accepted
  <2>11. QED
    BY <2>5, <2>6, <2>8, <2>10
<1>4. ASSUME NEW r \in Runs, NEW s \in Stage, UpdateStage(r, s)
      PROVE  BoardInv'
  BY <1>4 DEF UpdateStage, BoardTypeOK, Created, ExecutionIsApproved, ApprovedOnce, Accepted,
              VerdictsAreOfRuns, SoleTaskLeads
<1>5. ASSUME NEW v \in Verdicts, NEW r \in Runs, NEW d \in Decision, AcceptVerdict(v, r, d)
      PROVE  BoardInv'
  <2>1. /\ step[r] = "decided" /\ verdict[v].run = None
        /\ step' = step /\ stage' = stage
        /\ verdict' = [verdict EXCEPT ![v] = [run |-> r, decision |-> d, at |-> None]]
    BY <1>5 DEF AcceptVerdict, ApprovableSteps
  <2>2. /\ verdict'[v] = [run |-> r, decision |-> d, at |-> None]
        /\ \A w \in Verdicts \ {v} : verdict'[w] = verdict[w]
    BY <2>1 DEF BoardTypeOK
  <2>3. BoardTypeOK' /\ Created' = Created
    BY <2>1, <2>2 DEF BoardTypeOK, Created
  <2>4. \A x \in Runs : Accepted(x)' = IF x = r THEN Accepted(x) \cup {v} ELSE Accepted(x)
    BY <1>0, <2>1, <2>2 DEF Accepted
  <2>5. \A x \in Runs : ApprovedOnce(x) => ApprovedOnce(x)'
    BY <1>0, <2>1, <2>2 DEF ApprovedOnce, Accepted
  <2>6. \A w \in Verdicts : verdict[w].at \in ExecutionSteps => verdict[w].run \in Runs
    BY <1>0 DEF VerdictsAreOfRuns, BoardTypeOK, ExecutionSteps, Step
  <2>7. ExecutionIsApproved'
    BY <1>0, <2>1, <2>2, <2>5, <2>6 DEF ExecutionIsApproved, ExecutionSteps, Step
  <2>8. VerdictsAreOfRuns'
    BY <1>0, <2>1, <2>2 DEF VerdictsAreOfRuns, AfterDecision
  <2>9. SoleTaskLeads'
    <3> SUFFICES ASSUME NEW w \in Verdicts, verdict'[w].run # None,
                        \A x \in Accepted(verdict[w].run)' : x = w
                 PROVE  step'[verdict'[w].run] =
                          IF verdict'[w].at = None THEN "decided" ELSE verdict'[w].at
      BY DEF SoleTaskLeads, Accepted
    <3>1. CASE w = v
      BY <2>1, <2>2, <3>1
    <3>2. CASE w # v
      <4>1. verdict'[w] = verdict[w] /\ \A x \in Accepted(verdict[w].run) : x = w
        BY <1>0, <2>1, <2>2, <3>2 DEF Accepted
      <4>2. QED
        BY <2>1, <4>1 DEF SoleTaskLeads
    <3>3. QED
      BY <3>1, <3>2
  <2>10. QED
    BY <2>3, <2>7, <2>8, <2>9
<1>6. ASSUME NEW v \in Verdicts, BeginResume(v)
      PROVE  BoardInv'
  <2> DEFINE r == verdict[v].run
  <2>1. /\ r \in Runs /\ verdict[v].at = None
        /\ step' = step /\ stage' = stage
        /\ verdict'[v] = [verdict[v] EXCEPT !.at = step[r]]
        /\ \A w \in Verdicts \ {v} : verdict'[w] = verdict[w]
        /\ verdict' = [verdict EXCEPT ![v].at = step[r]]
    BY <1>6 DEF BeginResume, BoardTypeOK
  <2>2. step[r] \in AfterDecision /\ step[r] \in Step
    BY <1>0, <1>6, <2>1 DEF BeginResume, VerdictsAreOfRuns, BoardTypeOK, AfterDecision, ExecutionSteps, Step
  <2>3. \A w \in Verdicts : /\ verdict'[w].run = verdict[w].run
                            /\ verdict'[w].decision = verdict[w].decision
    BY <2>1 DEF BoardTypeOK
  <2>4. verdict'[v].at = step[r]
    BY <2>1 DEF BoardTypeOK
  <2> HIDE DEF r
  <2>5. BoardTypeOK' /\ Created' = Created
    BY <2>1, <2>2 DEF BoardTypeOK, Created
  <2>6. \A x : /\ Accepted(x)' = Accepted(x)
               /\ ApprovedOnce(x)' = ApprovedOnce(x)
    BY <2>3 DEF Accepted, ApprovedOnce
  <2>7. ExecutionIsApproved'
    <3>1. \A x \in Runs : step'[x] \in ExecutionSteps => ApprovedOnce(x)'
      BY <2>1, <2>6 DEF ExecutionIsApproved
    <3>2. ASSUME NEW w \in Verdicts, verdict'[w].at \in ExecutionSteps
          PROVE  ApprovedOnce(verdict[w].run)'
      <4>1. ApprovedOnce(verdict[w].run)
        BY <1>0, <2>1, <2>2, <2>4, <3>2 DEF ExecutionIsApproved, r
      <4>2. QED
        BY <2>3, <4>1 DEF ApprovedOnce, Accepted
    <3>3. QED
      BY <3>1, <3>2 DEF ExecutionIsApproved
  <2>8. VerdictsAreOfRuns'
    BY <1>0, <2>1, <2>2, <2>3, <2>4 DEF VerdictsAreOfRuns, r
  <2>9. SoleTaskLeads'
    BY <1>0, <2>1, <2>2, <2>3, <2>4 DEF SoleTaskLeads, Accepted, r
  <2>10. QED
    BY <2>5, <2>7, <2>8, <2>9
<1>7. ASSUME NEW v \in Verdicts, Resume(v)
      PROVE  BoardInv'
  <2> DEFINE r == verdict[v].run
  <2>1. PICK s \in AfterDecision \ {"decided"} :
          /\ verdict' = [verdict EXCEPT ![v].at = s]
          /\ step' = [step EXCEPT ![r] = s]
          /\ r \in Runs
          /\ s \in ExecutionSteps => ApprovedOnce(r)
    BY <1>7, ResumeBrings
  <2>2. /\ verdict'[v].at = s
        /\ \A w \in Verdicts : /\ verdict'[w].run = verdict[w].run
                               /\ verdict'[w].decision = verdict[w].decision
                               /\ w # v => verdict'[w] = verdict[w]
        /\ step'[r] = s /\ \A x \in Runs \ {r} : step'[x] = step[x]
        /\ stage' = stage
    BY <1>7, <2>1 DEF BoardTypeOK, Resume
  <2>3. s \in Step /\ s # None /\ step[r] # None
    BY <1>0, <2>1 DEF AfterDecision, ExecutionSteps, Step, VerdictsAreOfRuns
  <2> HIDE DEF r
  <2>4. Created' = Created
    BY <2>1, <2>2, <2>3 DEF Created
  <2>5. BoardTypeOK'
    <3>1. verdict' \in [Verdicts ->
            [run: Runs \cup {None}, decision: Decision \cup {"none"}, at: Step \cup {None}]]
      BY <2>1, <2>3 DEF BoardTypeOK
    <3>2. step' \in [Runs -> Step \cup {None}]
      BY <2>1, <2>3 DEF BoardTypeOK
    <3>3. QED
      BY <2>2, <2>3, <3>1, <3>2 DEF BoardTypeOK
  <2>6. \A x : /\ Accepted(x)' = Accepted(x)
               /\ ApprovedOnce(x)' = ApprovedOnce(x)
    BY <2>2 DEF Accepted, ApprovedOnce
  <2>7. ExecutionIsApproved'
    <3>1. \A x \in Runs : step'[x] \in ExecutionSteps => ApprovedOnce(x)'
      BY <2>1, <2>2, <2>6 DEF ExecutionIsApproved
    <3>2. ASSUME NEW w \in Verdicts, verdict'[w].at \in ExecutionSteps
          PROVE  ApprovedOnce(verdict[w].run)'
      <4>1. ApprovedOnce(verdict[w].run)
        BY <2>1, <2>2, <3>2 DEF ExecutionIsApproved, r
      <4>2. QED
        BY <2>2, <4>1 DEF ApprovedOnce, Accepted
    <3>3. QED
      BY <3>1, <3>2 DEF ExecutionIsApproved
  <2>8. VerdictsAreOfRuns'
    BY <1>0, <2>1, <2>2, <2>3 DEF VerdictsAreOfRuns, r, BoardTypeOK
  <2>9. SoleTaskLeads'
    <3> SUFFICES ASSUME NEW w \in Verdicts, verdict[w].run # None,
                        \A x \in Accepted(verdict[w].run) : x = w
                 PROVE  step'[verdict[w].run] =
                          IF verdict'[w].at = None THEN "decided" ELSE verdict'[w].at
      BY <2>2 DEF SoleTaskLeads, Accepted
    <3>1. CASE w = v
      BY <2>2, <2>3, <3>1 DEF r
    <3>2. CASE w # v
      <4>1. verdict[w].run # r /\ verdict[w].run \in Runs
        BY <3>2 DEF Accepted, r, BoardTypeOK
      <4>2. QED
        BY <2>2, <3>2, <4>1 DEF SoleTaskLeads
    <3>3. QED
      BY <3>1, <3>2
  <2>10. QED
    BY <2>4, <2>5, <2>7, <2>8, <2>9
<1>8. QED
  BY <1>1, <1>2, <1>3, <1>4, <1>5, <1>6, <1>7 DEF BoardNext

(* The board's invariant holds in every behaviour of the board.            *)
LEMMA BoardInvariance ==
  ASSUME BoardFit
  PROVE  BoardSpec => []BoardInv
<1>1. BoardInit => BoardInv
  BY BoardStarts
<1>2. BoardInv /\ [BoardNext]_BoardVars => BoardInv'
  BY BoardStepPreserves
<1>3. QED
  BY <1>1, <1>2, PTL DEF BoardSpec

(* The board keeps a step and a stage for every run.                       *)
THEOREM BoardTypes ==
  ASSUME BoardFit
  PROVE  BoardSpec => []BoardTypeOK
<1>1. BoardInv => BoardTypeOK
  BY DEF BoardInv
<1>2. QED
  BY BoardInvariance, <1>1, PTL

(* The two tables part on the runs that failed and on nothing else.        *)
LEMMA TablesDifferOnFailures ==
  ASSUME BoardFit, BoardInv, NEW r \in Created
  PROVE  /\ EffectiveStage(r) = "ganho" <=> HealthStage(r) = "ganho"
         /\ EffectiveStage(r) = "perdido" <=> HealthStage(r) = "perdido" \/ r \in FailedCards
         /\ ~(HealthStage(r) = "perdido" /\ r \in FailedCards)
<1>1. r \in Runs /\ step[r] \in Step /\ stage[r] \in Stage \cup {None}
  BY DEF Created, BoardInv, BoardTypeOK
<1>2. CASE stage[r] # None
  BY <1>2 DEF EffectiveStage, HealthStage, FailedCards
<1>3. CASE stage[r] = None
  BY <1>1, <1>3 DEF EffectiveStage, HealthStage, FailedCards, STAGE_BY_STEP, Step, TerminalSteps
<1>4. QED
  BY <1>2, <1>3

(* What the dashboard and the health score count differs by the failed     *)
(* runs whose card nobody moved.                                           *)
LEMMA CountsDiffer ==
  ASSUME BoardFit, BoardInv
  PROVE  LossesDifferByFailedRuns
<1> DEFINE Shown(s) == {r \in Created : EffectiveStage(r) = s}
           Scored(s) == {r \in Created : HealthStage(r) = s}
<1>1. Shown("ganho") = Scored("ganho")
  BY TablesDifferOnFailures
<1>2. /\ Shown("perdido") = Scored("perdido") \cup FailedCards
      /\ Scored("perdido") \cap FailedCards = {}
  <2>1. FailedCards \subseteq Created
    BY DEF FailedCards
  <2>2. QED
    BY <2>1, TablesDifferOnFailures
<1>3. /\ IsFiniteSet(Scored("ganho")) /\ IsFiniteSet(Scored("perdido"))
      /\ IsFiniteSet(FailedCards)
  <2>1. Scored("ganho") \subseteq Created /\ Scored("perdido") \subseteq Created
    OBVIOUS
  <2>2. FailedCards \subseteq Created
    BY DEF FailedCards
  <2>3. QED
    BY <2>1, <2>2, FS_Subset DEF BoardInv
<1>4. /\ Cardinality(Scored("ganho")) \in Nat /\ Cardinality(Scored("perdido")) \in Nat
      /\ Cardinality(FailedCards) \in Nat
  BY <1>3, FS_CardinalityType
<1>5. Cardinality(Shown("perdido")) =
        Cardinality(Scored("perdido")) + Cardinality(FailedCards)
  <2>1. Cardinality(Shown("perdido")) =
          Cardinality(Scored("perdido")) + Cardinality(FailedCards)
            - Cardinality(Scored("perdido") \cap FailedCards)
    BY <1>2, <1>3, FS_Union
  <2>2. Cardinality(Scored("perdido") \cap FailedCards) = 0
    BY <1>2, FS_EmptySet
  <2>3. QED
    BY <1>4, <2>1, <2>2
<1>6. /\ Summary["ganho"] = Cardinality(Shown("ganho"))
      /\ Summary["perdido"] = Cardinality(Shown("perdido"))
  <2>1. \A s \in Stage : Summary[s] = Cardinality(Shown(s))
    BY Zenon DEF Summary
  <2>2. "ganho" \in Stage /\ "perdido" \in Stage
    BY DEF Stage
  <2>3. QED
    BY <2>1, <2>2
<1>7. /\ RunInputs.ganhos = Cardinality(Scored("ganho"))
      /\ RunInputs.total = Cardinality(Scored("ganho")) + Cardinality(Scored("perdido"))
  BY Zenon DEF RunInputs
<1> HIDE DEF Shown, Scored
<1>8. QED
  BY <1>1, <1>4, <1>5, <1>6, <1>7 DEF LossesDifferByFailedRuns

(* Runs that failed are lost on the dashboard and in analysis for the      *)
(* health score; apart from them the two pages count alike, whatever moves *)
(* were made by hand and however many runs there are.                      *)
THEOREM PagesDifferByFailedRuns ==
  ASSUME BoardFit
  PROVE  BoardSpec => []LossesDifferByFailedRuns
<1>1. BoardInv => LossesDifferByFailedRuns
  BY CountsDiffer
<1>2. QED
  BY BoardInvariance, <1>1, PTL

(* A card is where the tables put its run's step, or where it was moved:   *)
(* it goes back only when the run itself comes to an earlier step.         *)
LEMMA BackwardSteps ==
  ASSUME BoardFit, NEW s \in Step, NEW t \in Step, NEW r \in Created,
         stage'[r] = stage[r], step[r] = s, step'[r] = t
  PROVE  /\ MovesBack(r) => /\ stage[r] = None /\ s # t
                            /\ s \in TerminalSteps \cup {"decided"}
                            /\ t # "rejected"
         /\ stage[r] = None /\ s = "decided" /\ t = "approved" => MovesBack(r)
<1>1. CASE stage[r] # None
  <2>1. EffectiveStage(r)' = EffectiveStage(r) /\ HealthStage(r)' = HealthStage(r)
    BY <1>1 DEF EffectiveStage, HealthStage
  <2>2. Rank(EffectiveStage(r)) \in {0, 1, 2} /\ Rank(HealthStage(r)) \in {0, 1, 2}
    BY DEF Rank
  <2>3. QED
    BY <1>1, <2>1, <2>2 DEF MovesBack
<1>2. CASE stage[r] = None
  <2>1. /\ EffectiveStage(r) = STAGE_BY_STEP(s)
        /\ EffectiveStage(r)' = STAGE_BY_STEP(t)
    BY <1>2 DEF EffectiveStage
  <2>2. /\ Rank(EffectiveStage(r)) =
             IF s = "decided" THEN 1 ELSE IF s \in TerminalSteps THEN 2 ELSE 0
        /\ Rank(EffectiveStage(r)') =
             IF t = "decided" THEN 1 ELSE IF t \in TerminalSteps THEN 2 ELSE 0
    BY <2>1 DEF STAGE_BY_STEP, Rank, TerminalSteps
  <2>3. /\ Rank(HealthStage(r)) =
             IF s = "decided" THEN 1 ELSE IF s \in {"completed", "rejected"} THEN 2 ELSE 0
        /\ Rank(HealthStage(r)') =
             IF t = "decided" THEN 1 ELSE IF t \in {"completed", "rejected"} THEN 2 ELSE 0
    BY <1>2 DEF HealthStage, Rank
  <2>4. QED
    BY <1>2, <2>2, <2>3 DEF MovesBack, TerminalSteps, Step
<1>3. QED
  BY <1>1, <1>2


(* What one step of the board does to the card of a run.                   *)
LEMMA CardMoves ==
  ASSUME BoardFit, BoardInv, BoardNext, NEW r \in Created
  PROVE  /\ MovesBack(r) =>
              /\ ApprovedOnce(r)
              /\ \/ step[r] = "decided" /\ step'[r] = "approved"
                 \/ \E v, w \in Accepted(r) : v # w
         /\ stage[r] = None /\ step[r] = "decided" /\ step'[r] = "approved" => MovesBack(r)
<1>1. r \in Runs /\ step[r] # None /\ step[r] \in Step
  BY DEF Created, BoardInv, BoardTypeOK
<1>2. CASE step'[r] = step[r]
  <2>1. ~MovesBack(r)
    BY <1>1, <1>2, BackwardSteps DEF MovesBack
  <2>2. QED
    BY <1>2, <2>1
<1>3. CASE step'[r] # step[r]
  <2>1. CASE Analyse(r)
    <3>1. /\ step[r] # "decided" /\ stage' = stage
          /\ step'[r] \in Outcomes[ROUTING[step[r]]]
      BY <1>1, <2>1 DEF Analyse, BoardInv, BoardTypeOK
    <3>2. step'[r] \in Step /\ step[r] \notin TerminalSteps
      BY <1>1, <3>1, NextSteps
    <3>3. ~MovesBack(r)
      BY <1>1, <3>1, <3>2, BackwardSteps
    <3>4. QED
      BY <3>1, <3>3
  <2>2. ASSUME NEW v \in Verdicts, Resume(v), verdict[v].run = r
        PROVE  /\ MovesBack(r) =>
                    /\ ApprovedOnce(r)
                    /\ \/ step[r] = "decided" /\ step'[r] = "approved"
                       \/ \E x, w \in Accepted(r) : x # w
               /\ stage[r] = None /\ step[r] = "decided" /\ step'[r] = "approved" => MovesBack(r)
    <3>1. PICK s \in AfterDecision \ {"decided"} :
            /\ step' = [step EXCEPT ![r] = s]
            /\ s \in ExecutionSteps => ApprovedOnce(r)
            /\ verdict[v].at = "decided" => s = verdict[v].decision
            /\ verdict[v].at # "decided" => verdict[v].at \in {"approved", "executed"}
      BY <2>2, ResumeBrings
    <3>2. step'[r] = s /\ stage' = stage /\ s \in Step
      BY <1>1, <2>2, <3>1 DEF Resume, BoardInv, BoardTypeOK, AfterDecision, ExecutionSteps, Step
    <3>3. /\ MovesBack(r) => /\ step[r] \in TerminalSteps \cup {"decided"}
                             /\ s # "rejected"
          /\ stage[r] = None /\ step[r] = "decided" /\ s = "approved" => MovesBack(r)
      BY <1>1, <3>2, BackwardSteps
    <3>4. ASSUME MovesBack(r)
          PROVE  ApprovedOnce(r)
      BY <3>1, <3>3, <3>4 DEF AfterDecision
    <3>5. ASSUME MovesBack(r), ~\E x, w \in Accepted(r) : x # w
          PROVE  step[r] = "decided" /\ s = "approved"
      <4>1. v \in Accepted(r)
        BY <2>2 DEF Accepted
      <4>2. \A w \in Accepted(r) : w = v
        BY <3>5, <4>1
      <4>3. step[r] = verdict[v].at
        BY <1>1, <2>2, <4>2 DEF SoleTaskLeads, BoardInv, BoardFit, Resume
      <4>4. step[r] = "decided"
        BY <3>1, <3>3, <3>5, <4>3 DEF TerminalSteps
      <4>5. s = verdict[v].decision /\ s # "rejected"
        BY <3>1, <3>3, <3>5, <4>3, <4>4
      <4>6. verdict[v].decision \in Decision
        BY <1>1, <2>2 DEF BoardInv, VerdictsAreOfRuns, BoardFit
      <4>7. QED
        BY <4>4, <4>5, <4>6 DEF Decision
    <3>6. QED
      BY <3>2, <3>3, <3>4, <3>5
  <2>3. Analyse(r) \/ \E v \in Verdicts : Resume(v) /\ verdict[v].run = r
    BY <1>1, <1>3 DEF BoardNext, CreateRun, Analyse, UpdateStage, AcceptVerdict, BeginResume, Resume,
                      BoardInv, BoardTypeOK
  <2>4. QED
    BY <2>1, <2>2, <2>3
<1>4. QED
  BY <1>2, <1>3

(* Whatever the tasks of one run's decisions bring, and in whatever order, *)
(* its card goes back only after an approval, and a run with one decision  *)
(* only by that approval, which moves it back on both pages.               *)
THEOREM CardsMoveBackOnApproval ==
  ASSUME BoardFit
  PROVE  BoardSpec => MovesBackOnApprovalOnly
<1> DEFINE Moves == \A r \in Created :
       /\ MovesBack(r) =>
            /\ \E v \in Accepted(r) : verdict[v].decision = "approved"
            /\ \/ step[r] = "decided" /\ step'[r] = "approved"
               \/ \E v, w \in Accepted(r) : v # w
       /\ stage[r] = None /\ step[r] = "decided" /\ step'[r] = "approved" => MovesBack(r)
<1>1. BoardInv /\ [BoardNext]_BoardVars => [Moves]_BoardVars
  BY CardMoves DEF ApprovedOnce
<1>2. QED
  BY BoardInvariance, <1>1, PTL DEF BoardSpec, MovesBackOnApprovalOnly
-----------------------------------------------------------------------------
(* A company has finitely many contracts at any time.                      *)
ContractsInv == ContractsTypeOK /\ IsFiniteSet(Stored)

(* An edit keeps the record of the contract in its type.                   *)
LEMMA ContractsStepPreserves ==
  ASSUME ContractsFit, ContractsInv, [ContractsNext]_ContractsVars
  PROVE  ContractsInv'
<1> USE DEF ContractsInv
<1>1. CASE UNCHANGED ContractsVars
  BY <1>1 DEF ContractsVars, ContractsTypeOK, Stored
<1>2. CASE DaysPass
  BY <1>2 DEF DaysPass, ContractsTypeOK, Stored
<1>3. ASSUME NEW c \in ContractIds, NEW new \in ContractRecord,
             contracts' = [contracts EXCEPT ![c] = new], hoje' = hoje
      PROVE  ContractsInv'
  <2>1. ContractsTypeOK'
    BY <1>3 DEF ContractsTypeOK
  <2>2. Stored' \subseteq Stored \cup {c}
    BY <1>3 DEF ContractsTypeOK, Stored
  <2>3. IsFiniteSet(Stored \cup {c})
    BY FS_AddElement
  <2>4. QED
    BY <2>1, <2>2, <2>3, FS_Subset
<1>4. ASSUME NEW c \in ContractIds, NEW d \in Days, NEW o \in Organs, Create(c, d, o)
      PROVE  ContractsInv'
  <2>1. [status |-> "ativo", vencimento |-> d, orgao |-> o, empenhos |-> {}] \in ContractRecord
    BY DEF ContractRecord, ContractsFit
  <2>2. QED
    BY <1>3, <1>4, <2>1 DEF Create
<1>5. ASSUME NEW c \in ContractIds, c \in Stored
      PROVE  contracts[c] \in ContractRecord
  BY <1>5 DEF ContractsTypeOK, Stored
<1>6. ASSUME NEW c \in ContractIds, NEW d \in Days, NEW s \in Statuses, Patch(c, s, d)
      PROVE  ContractsInv'
  <2>1. [[contracts[c] EXCEPT !.status = s] EXCEPT !.vencimento = d] \in ContractRecord
    BY <1>5, <1>6 DEF Patch, ContractRecord
  <2>2. contracts' = [contracts EXCEPT ![c] = [[contracts[c] EXCEPT !.status = s] EXCEPT !.vencimento = d]]
    BY <1>6 DEF Patch, ContractsTypeOK
  <2>3. QED
    BY <1>3, <1>6, <2>1, <2>2 DEF Patch
<1>7. ASSUME NEW c \in ContractIds, Delete(c)
      PROVE  ContractsInv'
  <2>1. [contracts[c] EXCEPT !.status = "encerrado"] \in ContractRecord
    BY <1>5, <1>7 DEF Delete, ContractRecord, ContractsFit
  <2>2. QED
    BY <1>3, <1>7, <2>1 DEF Delete, ContractsTypeOK
<1>8. ASSUME NEW c \in ContractIds, NEW d \in Days, AddEmpenho(c, d)
      PROVE  ContractsInv'
  <2>1. [status |-> "emitido", emissao |-> d] \in Empenho
    BY DEF Empenho, StatusEmpenho
  <2>2. [contracts[c] EXCEPT !.empenhos = {[status |-> "emitido", emissao |-> d]}] \in ContractRecord
    BY <1>5, <1>8, <2>1 DEF AddEmpenho, ContractRecord
  <2>3. QED
    BY <1>3, <1>8, <2>2 DEF AddEmpenho, ContractsTypeOK
<1>9. ASSUME NEW c \in ContractIds, NEW s \in StatusEmpenho, PatchEmpenho(c, s)
      PROVE  ContractsInv'
  <2>1. PICK e \in contracts[c].empenhos :
          contracts' = [contracts EXCEPT ![c].empenhos = {[e EXCEPT !.status = s]}]
    BY <1>9 DEF PatchEmpenho
  <2>2. [e EXCEPT !.status = s] \in Empenho
    BY <1>5, <1>9, <2>1 DEF PatchEmpenho, ContractRecord, Empenho
  <2>3. [contracts[c] EXCEPT !.empenhos = {[e EXCEPT !.status = s]}] \in ContractRecord
    <3> HIDE DEF ContractsInv
    <3> DEFINE new == [e EXCEPT !.status = s]
    <3>1. {new} \in {{}} \cup {{x} : x \in Empenho}
      BY <2>2
    <3> HIDE DEF new
    <3>2. QED
      BY <1>5, <1>9, <3>1 DEF PatchEmpenho, ContractRecord, new
  <2>4. QED
    BY <1>3, <1>9, <2>1, <2>3 DEF PatchEmpenho, ContractsTypeOK
<1>10. QED
  BY <1>1, <1>2, <1>4, <1>6, <1>7, <1>8, <1>9 DEF ContractsNext

(* The contracts' invariant holds in every behaviour of the store.         *)
LEMMA ContractsInvariance ==
  ASSUME ContractsFit
  PROVE  ContractsSpec => []ContractsInv
<1>1. ContractsInit => ContractsInv
  <2> SUFFICES ASSUME ContractsInit PROVE ContractsInv
    OBVIOUS
  <2>1. Stored = {}
    BY DEF ContractsInit, Stored
  <2>2. ContractsTypeOK
    BY DEF ContractsInit, ContractsTypeOK
  <2>3. QED
    BY <2>1, <2>2, FS_EmptySet DEF ContractsInv
<1>2. ContractsInv /\ [ContractsNext]_ContractsVars => ContractsInv'
  BY ContractsStepPreserves
<1>3. QED
  BY <1>1, <1>2, PTL DEF ContractsSpec

(* The store keeps contracts, and a day.                                   *)
THEOREM ContractsTypes ==
  ASSUME ContractsFit
  PROVE  ContractsSpec => []ContractsTypeOK
<1>1. ContractsInv => ContractsTypeOK
  BY DEF ContractsInv
<1>2. QED
  BY ContractsInvariance, <1>1, PTL

(* Two sets whose members pair off have the same size.                     *)
LEMMA SameSize ==
  ASSUME NEW S, NEW T, NEW f \in [S -> T], IsFiniteSet(S),
         \A x, y \in S : f[x] = f[y] => x = y,
         \A t \in T : \E x \in S : f[x] = t
  PROVE  IsFiniteSet(T) /\ Cardinality(T) = Cardinality(S)
<1>1. f \in Bijection(S, T)
  BY Fun_IsBij
<1>2. ExistsBijection(S, T)
  BY <1>1 DEF ExistsBijection
<1>3. QED
  BY <1>2, FS_Bijection

(* What the pages count: overdue payments with their contract.             *)
Late(day) == UNION {{c} \X Overdue(c, day) : c \in Stored}

(* A record of a contract is one, and it has at most one empenho.          *)
LEMMA StoredRecords ==
  ASSUME ContractsFit, ContractsInv, NEW c \in Stored
  PROVE  /\ contracts[c] \in ContractRecord
         /\ contracts[c].vencimento \in Nat
         /\ \A e \in contracts[c].empenhos : e.emissao \in Nat
         /\ \A e, g \in contracts[c].empenhos : e = g
<1>1. c \in ContractIds /\ contracts[c] \in ContractRecord
  BY DEF ContractsInv, ContractsTypeOK, Stored
<1>2. contracts[c].vencimento \in Days /\ contracts[c].empenhos \in {{}} \cup {{e} : e \in Empenho}
  BY <1>1 DEF ContractRecord
<1>3. QED
  BY <1>1, <1>2 DEF Empenho, ContractsFit

(* Payments are overdue one per contract, so they are finitely many.       *)
LEMMA LatePerContract ==
  ASSUME ContractsFit, ContractsInv, NEW day
  PROVE  /\ \A p \in Late(day) : p[1] \in Stored /\ p[2] \in Overdue(p[1], day) /\ p = <<p[1], p[2]>>
         /\ \A c \in Stored : \A e \in Overdue(c, day) : <<c, e>> \in Late(day)
         /\ \A p, o \in Late(day) : p[1] = o[1] => p = o
         /\ IsFiniteSet(Late(day))
<1>1. \A p \in Late(day) : p[1] \in Stored /\ p[2] \in Overdue(p[1], day) /\ p = <<p[1], p[2]>>
  BY DEF Late
<1>2. \A c \in Stored : \A e \in Overdue(c, day) : <<c, e>> \in Late(day)
  BY DEF Late
<1>3. \A p, o \in Late(day) : p[1] = o[1] => p = o
  BY <1>1, StoredRecords DEF Overdue, Unpaid
<1>4. IsFiniteSet(Late(day))
  <2> DEFINE f == [p \in Late(day) |-> p[1]]
  <2>1. f \in Injection(Late(day), Stored)
    BY <1>1, <1>3, Fun_IsInj
  <2>2. QED
    BY <2>1, FS_Injection DEF ContractsInv
<1>5. QED
  BY <1>1, <1>2, <1>3, <1>4

(* The pages, field by field.                                              *)
LEMMA PageFields ==
  ASSUME NEW runs, NEW day
  PROVE  /\ ContractsDashboard.vencendo_30d = Cardinality(Criticos(hoje))
         /\ ContractsDashboard.em_atraso = Cardinality(Late(hoje))
         /\ BuildInputs(runs, day).criticos = Cardinality(Criticos(day))
         /\ BuildInputs(runs, day).atrasados = Cardinality(Late(day))
<1>1. /\ ContractsDashboard.vencendo_30d = Cardinality(Criticos(hoje))
      /\ ContractsDashboard.em_atraso = Cardinality(Late(hoje))
  BY Zenon DEF ContractsDashboard, Criticos, Late
<1>2. /\ BuildInputs(runs, day).criticos = Cardinality(Criticos(day))
      /\ BuildInputs(runs, day).atrasados = Cardinality(Late(day))
  BY Zenon DEF BuildInputs, Late
<1>3. QED
  BY <1>1, <1>2

(* The three pages agree on what is about to lapse: the alerts of the two  *)
(* higher severities are one per such contract.                            *)
LEMMA LapsesAgree ==
  ASSUME ContractsFit, ContractsInv
  PROVE  Cardinality(Criticos(hoje)) = Alerted("vencimento_contrato", {"critical", "warning"})
<1> DEFINE Severity(dias) == IF dias <= 15 THEN "critical" ELSE IF dias <= 30 THEN "warning" ELSE "info"
           alert(c) == [contract |-> c, tipo |-> "vencimento_contrato", severity |-> Severity(Dias(c, hoje))]
           A == {a \in ContractsAlerts : a.tipo = "vencimento_contrato" /\ a.severity \in {"critical", "warning"}}
           f == [c \in Criticos(hoje) |-> alert(c)]
<1>1. Criticos(hoje) \subseteq AboutToLapse /\ AboutToLapse \subseteq Stored
  <2>1. \A c \in Open : c \in Stored /\ Dias(c, hoje) \in Int
    BY StoredRecords DEF Open, Dias, ContractsInv, ContractsTypeOK, ContractsFit
  <2>2. QED
    BY <2>1 DEF Criticos, AboutToLapse
<1>2. \A c \in AboutToLapse : c \in Criticos(hoje) <=> Severity(Dias(c, hoje)) \in {"critical", "warning"}
  <2>1. \A c \in AboutToLapse : c \in Open /\ Dias(c, hoje) \in Int /\ 0 <= Dias(c, hoje)
    BY StoredRecords DEF AboutToLapse, Open, Dias, ContractsInv, ContractsTypeOK, ContractsFit
  <2>2. QED
    BY <2>1 DEF Criticos
<1>3. \A a \in A : \E c \in Criticos(hoje) : a = alert(c)
  <2>1. ASSUME NEW a \in A
        PROVE  \E c \in AboutToLapse : a = alert(c)
    BY <2>1 DEF ContractsAlerts
  <2>2. ASSUME NEW c \in AboutToLapse, alert(c) \in A
        PROVE  c \in Criticos(hoje)
    BY <1>2, <2>2
  <2>3. QED
    BY <2>1, <2>2
<1>4. \A c \in Criticos(hoje) : alert(c) \in A
  <2>1. \A c \in AboutToLapse : alert(c) \in ContractsAlerts
    BY DEF ContractsAlerts
  <2>2. QED
    BY <1>1, <1>2, <2>1
<1>5. \A c, d : alert(c) = alert(d) => c = d
  OBVIOUS
<1>6. IsFiniteSet(Criticos(hoje))
  BY <1>1, FS_Subset DEF ContractsInv
<1>7. Alerted("vencimento_contrato", {"critical", "warning"}) = Cardinality(A)
  BY Zenon DEF Alerted
<1> HIDE DEF alert, A
<1>8. Cardinality(A) = Cardinality(Criticos(hoje))
  <2>1. f \in [Criticos(hoje) -> A]
    BY <1>4
  <2>2. \A x, y \in Criticos(hoje) : f[x] = f[y] => x = y
    BY <1>5
  <2>3. \A t \in A : \E x \in Criticos(hoje) : f[x] = t
    BY <1>3
  <2> HIDE DEF f
  <2>4. QED
    BY <1>6, <2>1, <2>2, <2>3, SameSize
<1>9. QED
  BY <1>7, <1>8

(* They agree on the overdue payments: one alert for each of them.         *)
LEMMA PaymentsAgree ==
  ASSUME ContractsFit, ContractsInv
  PROVE  Cardinality(Late(hoje)) = Alerted("pagamento_atrasado", {"critical"})
<1> DEFINE alert(c) == [contract |-> c, tipo |-> "pagamento_atrasado", severity |-> "critical"]
           A == {a \in ContractsAlerts : a.tipo = "pagamento_atrasado" /\ a.severity \in {"critical"}}
           f == [p \in Late(hoje) |-> alert(p[1])]
<1>1. \A a \in A : \E c \in Stored : Overdue(c, hoje) # {} /\ a = alert(c)
  BY DEF ContractsAlerts
<1>2. \A c \in Stored : Overdue(c, hoje) # {} => alert(c) \in A
  BY DEF ContractsAlerts
<1>3. \A c, d : alert(c) = alert(d) => c = d
  OBVIOUS
<1>4. Alerted("pagamento_atrasado", {"critical"}) = Cardinality(A)
  BY Zenon DEF Alerted
<1> HIDE DEF alert, A
<1>5. Cardinality(A) = Cardinality(Late(hoje))
  <2>1. f \in [Late(hoje) -> A]
    BY <1>2, LatePerContract
  <2>2. \A x, y \in Late(hoje) : f[x] = f[y] => x = y
    BY <1>3, LatePerContract
  <2>3. ASSUME NEW a \in A
        PROVE  \E p \in Late(hoje) : f[p] = a
    <3>1. PICK c \in Stored : Overdue(c, hoje) # {} /\ a = alert(c)
      BY <1>1
    <3>2. PICK e \in Overdue(c, hoje) : TRUE
      BY <3>1
    <3>3. <<c, e>> \in Late(hoje)
      BY LatePerContract
    <3>4. QED
      BY <3>1, <3>3
  <2>4. IsFiniteSet(Late(hoje))
    BY LatePerContract
  <2> HIDE DEF f
  <2>5. QED
    BY <2>1, <2>2, <2>3, <2>4, SameSize
<1>6. QED
  BY <1>4, <1>5

(* The dashboard, the alerts and the health score never show a company     *)
(* different numbers, however many contracts it has and whatever was done  *)
(* to them.                                                                *)
THEOREM PagesAgree ==
  ASSUME ContractsFit
  PROVE  ContractsSpec => []ReportsAgree
<1>1. ContractsInv => ReportsAgree
  BY LapsesAgree, PaymentsAgree, PageFields DEF ReportsAgree
<1>2. QED
  BY ContractsInvariance, <1>1, PTL
-----------------------------------------------------------------------------
(* A nonempty set of numbers has a smallest member.                        *)
LEMMA Smallest ==
  ASSUME NEW T, T \subseteq Nat, T # {}
  PROVE  \E x \in T : \A y \in T : x <= y
<1> DEFINE Up == {0..x : x \in T}
           R == StrictSubsetOrdering(Nat)
<1>1. Up \subseteq FiniteSubsetsOf(Nat)
  <2> SUFFICES ASSUME NEW x \in T PROVE 0..x \in FiniteSubsetsOf(Nat)
    OBVIOUS
  <2>1. IsFiniteSet(0..x)
    BY FS_Interval
  <2>2. 0..x \subseteq Nat
    OBVIOUS
  <2>3. QED
    BY <2>1, <2>2 DEF FiniteSubsetsOf
<1>2. IsWellFoundedOn(R, FiniteSubsetsOf(Nat))
  BY FS_StrictSubsetOrderingWellFounded
<1>3. Up # {}
  OBVIOUS
<1>4. \E u \in Up : \A v \in Up : ~(<<v, u>> \in R)
  <2> HIDE DEF Up, R
  <2>1. QED
    BY <1>1, <1>2, <1>3, WFMin
<1>5. PICK x \in T : \A y \in T : ~(<<0..y, 0..x>> \in R)
  BY <1>4
<1>6. ASSUME NEW y \in T, y < x PROVE FALSE
  <2>1. x \in Nat /\ y \in Nat
    OBVIOUS
  <2>2. 0..y \subseteq 0..x /\ 0..x \subseteq Nat
    BY <2>1, <1>6
  <2>3. x \in 0..x /\ x \notin 0..y
    BY <2>1, <1>6
  <2>4. 0..y # 0..x
    BY <2>3
  <2>5. <<0..y, 0..x>> \in R
    BY <2>2, <2>4 DEF StrictSubsetOrdering
  <2>6. QED
    BY <1>5, <2>5
<1>7. \A y \in T : x <= y
  BY <1>6
<1>8. QED
  BY <1>7

(* round() of a quotient is an integer.                                    *)
LEMMA RoundIsInt ==
  ASSUME NEW num \in Int, NEW den \in Nat \ {0}
  PROVE  Round(num, den) \in Int
<1>1. num \div den \in Int /\ num % den \in Int
  OBVIOUS
<1>2. QED
  BY <1>1 DEF Round

(* The score is rounded last, and rounding more never gives less.          *)
LEMMA RoundGrows ==
  ASSUME NEW n \in Int, NEW m \in Int, n <= m
  PROVE  Round(n, 1000) <= Round(m, 1000)
<1>1. /\ n \div 1000 \in Int /\ m \div 1000 \in Int
      /\ n % 1000 \in 0..999 /\ m % 1000 \in 0..999
      /\ n = 1000 * (n \div 1000) + (n % 1000)
      /\ m = 1000 * (m \div 1000) + (m % 1000)
  OBVIOUS
<1>2. n \div 1000 <= m \div 1000
  BY <1>1
<1>3. CASE n \div 1000 = m \div 1000
  BY <1>1, <1>3 DEF Round
<1>4. CASE n \div 1000 < m \div 1000
  BY <1>1, <1>4 DEF Round
<1>5. QED
  BY <1>1, <1>2, <1>3, <1>4

(* How many open contracts an organ has.                                   *)
PorOrgao(o) == Cardinality({c \in Open : contracts[c].orgao = o})

Maior == CHOOSE n \in {PorOrgao(o) : o \in Organs} : \A o \in Organs : PorOrgao(o) <= n

(* With an open contract, some organ has the most of them.                 *)
LEMMA LargestShare ==
  ASSUME ContractsFit, ContractsInv, Open # {}
  PROVE  Maior \in Nat
<1>1. IsFiniteSet(Open)
  BY FS_Subset DEF Open, ContractsInv
<1>2. Cardinality(Open) \in Nat
  BY <1>1, FS_CardinalityType
<1>3. ASSUME NEW o
      PROVE  PorOrgao(o) \in Nat /\ PorOrgao(o) <= Cardinality(Open)
  <2>1. {c \in Open : contracts[c].orgao = o} \in SUBSET Open
    OBVIOUS
  <2>2. QED
    BY <1>1, <2>1, FS_Subset, FS_CardinalityType DEF PorOrgao
<1>4. Organs # {}
  <2>1. PICK c : c \in Open
    OBVIOUS
  <2>2. c \in Stored
    BY <2>1 DEF Open
  <2>3. contracts[c] \in ContractRecord
    BY <2>2, StoredRecords
  <2>4. QED
    BY <2>3 DEF ContractRecord
<1> DEFINE T == {Cardinality(Open) - PorOrgao(o) : o \in Organs}
<1>5. T \subseteq Nat /\ T # {}
  BY <1>2, <1>3, <1>4
<1>6. PICK x \in T : \A y \in T : x <= y
  BY <1>5, Smallest
<1>7. PICK o \in Organs : x = Cardinality(Open) - PorOrgao(o)
  BY <1>6
<1>8. \A k \in Organs : PorOrgao(k) <= PorOrgao(o)
  BY <1>2, <1>3, <1>6, <1>7
<1>9. \E n \in {PorOrgao(k) : k \in Organs} : \A k \in Organs : PorOrgao(k) <= n
  BY <1>8
<1>10. Maior \in {PorOrgao(k) : k \in Organs}
  BY <1>9 DEF Maior
<1>11. QED
  BY <1>3, <1>10

(* As long as nothing lapses, time only adds to what is about to lapse and *)
(* to what is overdue.                                                     *)
LEMMA TimeAddsUp ==
  ASSUME ContractsFit, ContractsInv, NEW day \in Days, day > hoje, LapsedBy(day) = {}
  PROVE  /\ Cardinality(Criticos(hoje)) \in Nat /\ Cardinality(Criticos(day)) \in Nat
         /\ Cardinality(Late(hoje)) \in Nat /\ Cardinality(Late(day)) \in Nat
         /\ Cardinality(Criticos(hoje)) <= Cardinality(Criticos(day))
         /\ Cardinality(Late(hoje)) <= Cardinality(Late(day))
<1>1. hoje \in Int /\ day \in Int /\ hoje \in Nat /\ day \in Nat
  BY DEF ContractsInv, ContractsTypeOK, ContractsFit
<1>2. \A c \in Open : c \in Stored /\ contracts[c].vencimento \in Nat
  BY StoredRecords DEF Open
<1>3. Criticos(hoje) \in SUBSET Criticos(day)
  BY <1>1, <1>2 DEF Criticos, Dias, LapsedBy
<1>4. Late(hoje) \in SUBSET Late(day)
  <2>1. \A c \in Stored : Overdue(c, hoje) \subseteq Overdue(c, day)
    BY <1>1, StoredRecords DEF Overdue, Unpaid, PrazoPagamento
  <2>2. QED
    BY <2>1 DEF Late
<1>5. IsFiniteSet(Criticos(day)) /\ IsFiniteSet(Criticos(hoje))
  <2>1. Criticos(day) \in SUBSET Stored /\ Criticos(hoje) \in SUBSET Stored
    BY <1>2 DEF Criticos
  <2>2. QED
    BY <2>1, FS_Subset DEF ContractsInv
<1>6. IsFiniteSet(Late(day)) /\ IsFiniteSet(Late(hoje))
  BY LatePerContract
<1>7. QED
  BY <1>3, <1>4, <1>5, <1>6, FS_Subset, FS_CardinalityType

(* The score is a sum of which two terms depend on the day.                *)
LEMMA ScoreTerms ==
  ASSUME ContractsFit, ContractsInv, NEW runs \in RunResults
  PROVE  \E k \in Int : \A day :
           HealthScore(runs, day) =
             Round(k + 20 * AtLeastZero(1000 - 250 * Cardinality(Criticos(day)))
                     + 10 * AtLeastZero(1000 - 200 * Cardinality(Late(day))), 1000)
<1> DEFINE vitoria == IF runs.total > 0 THEN Round(1000 * runs.ganhos, runs.total) ELSE 500
           pipeline == IF runs.recente THEN 1000 ELSE 200
           valor == Cardinality(Open)
           concentracao == IF 2 * Maior < valor \/ valor = 0 THEN 1000
                           ELSE Round(2000 * (valor - Maior), valor)
           k == 25 * vitoria + 20 * pipeline + 15000 + 10 * concentracao
<1>1. runs.ganhos \in Nat /\ runs.total \in Nat /\ runs.recente \in BOOLEAN
  BY DEF ContractsFit
<1>2. vitoria \in Int
  <2>1. CASE runs.total > 0
    <3>1. 1000 * runs.ganhos \in Int /\ runs.total \in Nat \ {0}
      BY <1>1, <2>1
    <3>2. Round(1000 * runs.ganhos, runs.total) \in Int
      BY <3>1, RoundIsInt
    <3>3. QED
      BY <2>1, <3>2
  <2>2. CASE ~(runs.total > 0)
    BY <2>2
  <2>3. QED
    BY <2>1, <2>2
<1>3. pipeline \in Int
  OBVIOUS
<1>4. valor \in Nat /\ (valor = 0 <=> Open = {})
  <2>1. IsFiniteSet(Open)
    BY FS_Subset DEF Open, ContractsInv
  <2>2. QED
    BY <2>1, FS_CardinalityType, FS_EmptySet
<1>5. concentracao \in Int
  <2>1. CASE valor = 0
    BY <2>1
  <2>2. CASE valor # 0
    <3>1. Maior \in Nat
      BY <1>4, <2>2, LargestShare
    <3>2. 2000 * (valor - Maior) \in Int /\ valor \in Nat \ {0}
      BY <1>4, <2>2, <3>1
    <3>3. Round(2000 * (valor - Maior), valor) \in Int
      BY <3>2, RoundIsInt
    <3>4. QED
      BY <3>3
  <2>3. QED
    BY <2>1, <2>2
<1>6. k \in Int
  BY <1>2, <1>3, <1>5
<1>7. ASSUME NEW day
      PROVE  HealthScore(runs, day) =
               Round(k + 20 * AtLeastZero(1000 - 250 * Cardinality(Criticos(day)))
                       + 10 * AtLeastZero(1000 - 200 * Cardinality(Late(day))), 1000)
  <2> DEFINE inp == BuildInputs(runs, day)
             contratos == AtLeastZero(1000 - 250 * Cardinality(Criticos(day)))
             pagamentos == AtLeastZero(1000 - 200 * Cardinality(Late(day)))
  <2>1. /\ inp.ganhos = runs.ganhos /\ inp.total = runs.total /\ inp.recente = runs.recente
        /\ inp.valor = valor
    BY Zenon DEF BuildInputs
  <2>2. inp.maior = Maior
    BY Zenon DEF BuildInputs, Maior, PorOrgao
  <2>3. inp.criticos = Cardinality(Criticos(day)) /\ inp.atrasados = Cardinality(Late(day))
    BY PageFields
  <2> DEFINE v == Valores(inp)
  <2> HIDE DEF inp
  <2>4. /\ v.taxa_vitoria = vitoria /\ v.pipeline = pipeline /\ v.contratos = contratos
        /\ v.certidoes = 1000 /\ v.pagamentos = pagamentos /\ v.concentracao = concentracao
    BY <2>1, <2>2, <2>3 DEF Valores
  <2>5. HealthScore(runs, day) =
          Round(25 * v.taxa_vitoria + 20 * v.pipeline + 20 * v.contratos
                + 15 * v.certidoes + 10 * v.pagamentos + 10 * v.concentracao, 1000)
    BY DEF HealthScore, CalcularScore, inp
  <2>6. contratos \in Int /\ pagamentos \in Int
    <3>1. Criticos(day) \in SUBSET Stored
      BY DEF Criticos, Open
    <3>2. IsFiniteSet(Criticos(day)) /\ IsFiniteSet(Late(day))
      BY <3>1, LatePerContract, FS_Subset DEF ContractsInv
    <3>3. Cardinality(Criticos(day)) \in Nat /\ Cardinality(Late(day)) \in Nat
      BY <3>2, FS_CardinalityType
    <3>4. QED
      BY <3>3 DEF AtLeastZero
  <2> HIDE DEF v, vitoria, pipeline, concentracao, contratos, pagamentos
  <2>7. 25 * v.taxa_vitoria + 20 * v.pipeline + 20 * v.contratos
          + 15 * v.certidoes + 10 * v.pagamentos + 10 * v.concentracao
        = k + 20 * contratos + 10 * pagamentos
    BY <1>2, <1>3, <1>5, <2>4, <2>6
  <2>8. QED
    BY <2>5, <2>7 DEF contratos, pagamentos
<1>8. QED
  BY <1>6, <1>7

(* A day on which nothing has lapsed does not find the score better.       *)
LEMMA TimeDoesNotHelp ==
  ASSUME ContractsFit, ContractsInv
  PROVE  ScoreRisesByTimeOnlyOnLapse
<1> SUFFICES ASSUME NEW day \in Days, day > hoje, LapsedBy(day) = {}, NEW runs \in RunResults
             PROVE  HealthScore(runs, day) <= HealthScore(runs, hoje)
  BY DEF ScoreRisesByTimeOnlyOnLapse
<1>1. PICK k \in Int : \A d :
        HealthScore(runs, d) =
          Round(k + 20 * AtLeastZero(1000 - 250 * Cardinality(Criticos(d)))
                  + 10 * AtLeastZero(1000 - 200 * Cardinality(Late(d))), 1000)
  BY ScoreTerms
<1>2. /\ k + 20 * AtLeastZero(1000 - 250 * Cardinality(Criticos(day)))
          + 10 * AtLeastZero(1000 - 200 * Cardinality(Late(day))) \in Int
      /\ k + 20 * AtLeastZero(1000 - 250 * Cardinality(Criticos(hoje)))
          + 10 * AtLeastZero(1000 - 200 * Cardinality(Late(hoje))) \in Int
      /\ k + 20 * AtLeastZero(1000 - 250 * Cardinality(Criticos(day)))
            + 10 * AtLeastZero(1000 - 200 * Cardinality(Late(day)))
         <= k + 20 * AtLeastZero(1000 - 250 * Cardinality(Criticos(hoje)))
              + 10 * AtLeastZero(1000 - 200 * Cardinality(Late(hoje)))
  BY TimeAddsUp DEF AtLeastZero
<1>3. QED
  BY <1>1, <1>2, RoundGrows

(* Whatever contracts, runs and dates a company has: a later day finds its *)
(* score better only if some contract was allowed to lapse in between.     *)
THEOREM ScoreDoesNotRiseByItself ==
  ASSUME ContractsFit
  PROVE  ContractsSpec => []ScoreRisesByTimeOnlyOnLapse
<1>1. ContractsInv => ScoreRisesByTimeOnlyOnLapse
  BY TimeDoesNotHelp
<1>2. QED
  BY ContractsInvariance, <1>1, PTL
-----------------------------------------------------------------------------
(* Working days before day d, counted from the Monday that is day 0; and   *)
(* the working day that has k of them before it.                           *)
WorkDays(d) == 5 * (d \div 7) + (IF d % 7 < 5 THEN d % 7 ELSE 5)

DayOf(k) == 7 * (k \div 5) + (k % 5)

(* What subtract_business_days arrives at, without going there.            *)
Deadline(c, r) == IF r = 0 THEN c ELSE DayOf(WorkDays(c) - r)

(* A week and a day of it, as division by seven finds them.                *)
LEMMA DayAndWeek ==
  ASSUME NEW q \in Int, NEW s \in 0..6
  PROVE  (7 * q + s) \div 7 = q /\ (7 * q + s) % 7 = s
OBVIOUS

(* Working days and their numbers go together.                             *)
LEMMA WorkDaysGo ==
  ASSUME NEW c \in Int
  PROVE  /\ WorkDays(c) \in Int
         /\ WorkDays(c + 1) = WorkDays(c) + (IF Weekday(c) THEN 1 ELSE 0)
         /\ Weekday(c) => DayOf(WorkDays(c)) = c
<1>1. PICK q \in Int, s \in 0..6 : c = 7 * q + s
  <2>1. c \div 7 \in Int /\ c % 7 \in 0..6 /\ c = 7 * (c \div 7) + (c % 7)
    OBVIOUS
  <2>2. QED
    BY <2>1
<1>2. c \div 7 = q /\ c % 7 = s
  BY <1>1, DayAndWeek
<1>3. WorkDays(c) = 5 * q + (IF s < 5 THEN s ELSE 5)
  BY <1>2 DEF WorkDays
<1>4. CASE s < 6
  <2>1. c + 1 = 7 * q + (s + 1) /\ s + 1 \in 0..6
    BY <1>1, <1>4
  <2>2. (c + 1) \div 7 = q /\ (c + 1) % 7 = s + 1
    BY <2>1, DayAndWeek
  <2>3. WorkDays(c + 1) = 5 * q + (IF s + 1 < 5 THEN s + 1 ELSE 5)
    BY <2>2 DEF WorkDays
  <2>4. Weekday(c) => (5 * q + s) \div 5 = q /\ (5 * q + s) % 5 = s
    BY <1>2 DEF Weekday
  <2>5. QED
    BY <1>1, <1>2, <1>3, <2>3, <2>4 DEF Weekday, DayOf
<1>5. CASE s = 6
  <2>1. c + 1 = 7 * (q + 1) + 0 /\ q + 1 \in Int /\ 0 \in 0..6
    BY <1>1, <1>5
  <2>2. (c + 1) \div 7 = q + 1 /\ (c + 1) % 7 = 0
    BY <2>1, DayAndWeek
  <2>3. QED
    BY <1>2, <1>3, <1>5, <2>2 DEF Weekday, WorkDays
<1>6. QED
  BY <1>4, <1>5

(* The n-th working day from Monday zero on has n of them before it.       *)
LEMMA DayOfWorks ==
  ASSUME NEW k \in Int
  PROVE  DayOf(k) \in Int /\ Weekday(DayOf(k)) /\ WorkDays(DayOf(k)) = k
<1>1. PICK q \in Int, s \in 0..4 : k = 5 * q + s
  <2>1. k \div 5 \in Int /\ k % 5 \in 0..4 /\ k = 5 * (k \div 5) + (k % 5)
    OBVIOUS
  <2>2. QED
    BY <2>1
<1>2. k \div 5 = q /\ k % 5 = s
  BY <1>1
<1>3. DayOf(k) = 7 * q + s
  BY <1>2 DEF DayOf
<1>4. (7 * q + s) \div 7 = q /\ (7 * q + s) % 7 = s
  BY DayAndWeek
<1>5. DayOf(k) \div 7 = q /\ DayOf(k) % 7 = s
  BY <1>3, <1>4
<1>6. QED
  BY <1>1, <1>3, <1>5 DEF Weekday, WorkDays

(* A later day has at least as many working days before it.                *)
LEMMA WorkDaysGrow ==
  ASSUME NEW a \in Int, NEW b \in Int, a <= b
  PROVE  WorkDays(a) <= WorkDays(b)
<1>1. /\ a \div 7 \in Int /\ a % 7 \in 0..6 /\ a = 7 * (a \div 7) + (a % 7)
      /\ b \div 7 \in Int /\ b % 7 \in 0..6 /\ b = 7 * (b \div 7) + (b % 7)
  OBVIOUS
<1>2. a \div 7 < b \div 7 \/ (a \div 7 = b \div 7 /\ a % 7 <= b % 7)
  BY <1>1
<1>3. QED
  BY <1>1, <1>2 DEF WorkDays

(* One step of the loop stays on the way to the same deadline.             *)
LEMMA DeadlineStep ==
  ASSUME NEW c \in Int, NEW r \in Nat \ {0}
  PROVE  /\ (IF Weekday(c - 1) THEN r - 1 ELSE r) \in Nat
         /\ Deadline(c, r) = Deadline(c - 1, IF Weekday(c - 1) THEN r - 1 ELSE r)
         /\ Deadline(c, r) \in Int
         /\ Deadline(c, r) <= c - 1
<1>1. /\ WorkDays(c - 1) \in Int
      /\ WorkDays(c) = WorkDays(c - 1) + (IF Weekday(c - 1) THEN 1 ELSE 0)
      /\ Weekday(c - 1) => DayOf(WorkDays(c - 1)) = c - 1
  <2>1. c - 1 \in Int /\ (c - 1) + 1 = c
    OBVIOUS
  <2>2. QED
    BY <2>1, WorkDaysGo
<1>2. Deadline(c, r) = DayOf(WorkDays(c) - r)
  BY DEF Deadline
<1>3. Deadline(c, r) = Deadline(c - 1, IF Weekday(c - 1) THEN r - 1 ELSE r)
  <2>1. CASE Weekday(c - 1) /\ r = 1
    BY <1>1, <1>2, <2>1 DEF Deadline
  <2>2. CASE Weekday(c - 1) /\ r # 1
    <3>1. WorkDays(c) - r = WorkDays(c - 1) - (r - 1)
      BY <1>1, <2>2
    <3>2. QED
      BY <1>2, <2>2, <3>1 DEF Deadline
  <2>3. CASE ~Weekday(c - 1)
    BY <1>1, <1>2, <2>3 DEF Deadline
  <2>4. QED
    BY <2>1, <2>2, <2>3
<1>4. /\ Deadline(c, r) \in Int
      /\ WorkDays(Deadline(c, r)) = WorkDays(c) - r
  BY <1>1, <1>2, DayOfWorks
<1>5. Deadline(c, r) <= c - 1
  <2>1. ~(c <= Deadline(c, r))
    BY <1>1, <1>4, WorkDaysGrow
  <2>2. QED
    BY <1>4, <2>1
<1>6. QED
  BY <1>3, <1>4, <1>5

(* The recursion is one of a function: there is one that satisfies it.     *)
LEMMA BackGoesBack ==
  ASSUME NEW c \in Int, NEW r \in Nat
  PROVE  Back[<<c, r>>] =
           IF r = 0 THEN c ELSE Back[<<c - 1, IF Weekday(c - 1) THEN r - 1 ELSE r>>]
<1> DEFINE Recurs(f) == f = [at \in Int \X Nat |->
               IF at[2] = 0 THEN at[1]
               ELSE f[<<at[1] - 1, IF Weekday(at[1] - 1) THEN at[2] - 1 ELSE at[2]>>]]
           F == [at \in Int \X Nat |-> Deadline(at[1], at[2])]
<1>1. ASSUME NEW at \in Int \X Nat
      PROVE  Deadline(at[1], at[2]) =
               IF at[2] = 0 THEN at[1]
               ELSE F[<<at[1] - 1, IF Weekday(at[1] - 1) THEN at[2] - 1 ELSE at[2]>>]
  <2>1. at[1] \in Int /\ at[2] \in Nat
    OBVIOUS
  <2>2. CASE at[2] = 0
    BY <2>2 DEF Deadline
  <2>3. CASE at[2] # 0
    <3> DEFINE left == IF Weekday(at[1] - 1) THEN at[2] - 1 ELSE at[2]
    <3>1. left \in Nat /\ Deadline(at[1], at[2]) = Deadline(at[1] - 1, left)
      BY <2>1, <2>3, DeadlineStep
    <3>2. <<at[1] - 1, left>> \in Int \X Nat
      BY <2>1, <3>1
    <3>3. F[<<at[1] - 1, left>>] = Deadline(at[1] - 1, left)
      BY <3>2
    <3>4. QED
      BY <2>3, <3>1, <3>3
  <2>4. QED
    BY <2>2, <2>3
<1>2. Recurs(F)
  BY <1>1
<1>3. Back = CHOOSE f : Recurs(f)
  BY DEF Back
<1> HIDE DEF F, Recurs
<1>4. Recurs(Back)
  BY <1>2, <1>3
<1>5. QED
  BY <1>4 DEF Recurs

(* By the least distance to a deadline that it would miss, the loop misses *)
(* none: after one more step it would be nearer and still miss it.         *)
LEMMA BackArrives ==
  ASSUME NEW d \in Int, NEW n \in Nat
  PROVE  Back[<<d, n>>] = Deadline(d, n)
<1> DEFINE Missed == {at \in Int \X Nat : Back[at] # Deadline(at[1], at[2])}
           Far(at) == at[1] - Deadline(at[1], at[2])
<1>1. \A c \in Int, r \in Nat : c - Deadline(c, r) \in Nat /\ (r > 0 => c - Deadline(c, r) > 0)
  <2>1. ASSUME NEW c \in Int, NEW r \in Nat, r = 0
        PROVE  c - Deadline(c, r) = 0
    BY <2>1 DEF Deadline
  <2>2. ASSUME NEW c \in Int, NEW r \in Nat, r # 0
        PROVE  c - Deadline(c, r) \in Nat /\ c - Deadline(c, r) > 0
    <3>1. r \in Nat \ {0}
      BY <2>2
    <3>2. Deadline(c, r) \in Int /\ Deadline(c, r) <= c - 1
      BY <3>1, DeadlineStep
    <3>3. QED
      BY <3>2
  <2>3. QED
    BY <2>1, <2>2
<1>2. ASSUME Missed # {}
      PROVE  FALSE
  <2> DEFINE T == {Far(at) : at \in Missed}
  <2>1. T \subseteq Nat /\ T # {}
    BY <1>1, <1>2
  <2>2. PICK x \in T : \A y \in T : x <= y
    <3> HIDE DEF T
    <3> QED
      BY <2>1, Smallest
  <2>3. PICK at \in Missed : x = Far(at)
    BY <2>2
  <2>4. PICK c \in Int, r \in Nat : at = <<c, r>>
    BY <2>3
  <2>5. Back[<<c, r>>] # Deadline(c, r) /\ x = c - Deadline(c, r)
    BY <2>3, <2>4
  <2>6. r # 0
    BY <2>5, BackGoesBack DEF Deadline
  <2> DEFINE left == IF Weekday(c - 1) THEN r - 1 ELSE r
  <2>7. /\ left \in Nat /\ Deadline(c, r) = Deadline(c - 1, left) /\ Deadline(c, r) \in Int
        /\ Back[<<c, r>>] = Back[<<c - 1, left>>]
    BY <2>6, DeadlineStep, BackGoesBack
  <2> HIDE DEF left
  <2>8. <<c - 1, left>> \in Missed
    BY <2>5, <2>7
  <2>9. Far(<<c - 1, left>>) \in T
    BY <2>8
  <2>10. Far(<<c - 1, left>>) = x - 1
    BY <2>5, <2>7
  <2>11. x \in Nat
    BY <2>1
  <2>12. QED
    BY <2>2, <2>9, <2>10, <2>11
<1>3. <<d, n>> \notin Missed
  BY <1>2
<1>4. QED
  BY <1>3

(* Between two days lie as many working days as their numbers say.         *)
LEMMA WorkDaysBetween ==
  ASSUME NEW a \in Int, NEW b \in Int, a <= b
  PROVE  Cardinality({x \in a..(b - 1) : Weekday(x)}) = WorkDays(b) - WorkDays(a)
<1> DEFINE Work(k) == {x \in a..(a + k - 1) : Weekday(x)}
           Wrong == {k \in Nat : Cardinality(Work(k)) # WorkDays(a + k) - WorkDays(a)}
<1>1. ASSUME Wrong # {}
      PROVE  FALSE
  <2>1. PICK k \in Wrong : \A y \in Wrong : k <= y
    <3>1. Wrong \subseteq Nat
      OBVIOUS
    <3> HIDE DEF Wrong
    <3>2. QED
      BY <1>1, <3>1, Smallest
  <2>2. CASE k = 0
    <3>1. Work(k) = {} /\ a + k = a
      BY <2>2
    <3>2. WorkDays(a) \in Int
      BY WorkDaysGo
    <3>3. QED
      BY <2>1, <3>1, <3>2, FS_EmptySet
  <2>3. CASE k # 0
    <3>1. k \in Nat /\ k - 1 \in Nat /\ k - 1 \notin Wrong
      BY <2>1, <2>3
    <3> DEFINE last == a + k - 1
    <3>2. last \in Int /\ last + 1 = a + k /\ last = a + (k - 1)
      BY <3>1
    <3>3. Cardinality(Work(k - 1)) = WorkDays(last) - WorkDays(a)
      BY <3>1, <3>2
    <3>4. WorkDays(a + k) = WorkDays(last) + (IF Weekday(last) THEN 1 ELSE 0)
      <4> HIDE DEF last
      <4> QED
        BY <3>2, WorkDaysGo
    <3>5. WorkDays(a) \in Int /\ WorkDays(last) \in Int
      <4> HIDE DEF last
      <4> QED
        BY <3>2, WorkDaysGo
    <3>6. /\ last \notin Work(k - 1)
          /\ Work(k) = IF Weekday(last) THEN Work(k - 1) \cup {last} ELSE Work(k - 1)
      BY <3>1
    <3>7. IsFiniteSet(Work(k - 1))
      <4>1. a + (k - 1) - 1 \in Int
        BY <3>1
      <4>2. IsFiniteSet(a..(a + (k - 1) - 1))
        BY <4>1, FS_Interval
      <4>3. Work(k - 1) \in SUBSET (a..(a + (k - 1) - 1))
        OBVIOUS
      <4>4. QED
        BY <4>2, <4>3, FS_Subset
    <3>8. Cardinality(Work(k)) = Cardinality(Work(k - 1)) + (IF Weekday(last) THEN 1 ELSE 0)
      <4> HIDE DEF Work, last
      <4>1. CASE Weekday(last)
        BY <3>6, <3>7, <4>1, FS_AddElement
      <4>2. CASE ~Weekday(last)
        BY <3>3, <3>5, <3>6, <4>2
      <4>3. QED
        BY <4>1, <4>2
    <3>9. Cardinality(Work(k)) # WorkDays(a + k) - WorkDays(a)
      BY <2>1
    <3> HIDE DEF Work, last
    <3>10. QED
      BY <3>3, <3>4, <3>5, <3>8, <3>9
  <2>4. QED
    BY <2>2, <2>3
<1>2. b - a \in Nat /\ a + (b - a) = b
  OBVIOUS
<1>3. b - a \notin Wrong
  BY <1>1
<1>4. Cardinality(Work(b - a)) = WorkDays(b) - WorkDays(a)
  BY <1>2, <1>3
<1>5. Work(b - a) = {x \in a..(b - 1) : Weekday(x)}
  BY <1>2
<1>6. QED
  BY <1>4, <1>5

(* What is asked is a question of natural numbers.                         *)
LEMMA CalculatorsInvariance ==
  ASSUME CalculatorsFit
  PROVE  CalculatorsSpec => []CalculatorsTypeOK
<1>1. CalculatorsInit => CalculatorsTypeOK
  BY DEF CalculatorsInit, CalculatorsTypeOK
<1>2. CalculatorsTypeOK /\ [CalculatorsNext]_question => CalculatorsTypeOK'
  BY DEF CalculatorsNext, Ask, CalculatorsTypeOK
<1>3. QED
  BY <1>1, <1>2, PTL DEF CalculatorsSpec

(* The loop over the days arrives where it should.                         *)
LEMMA DeadlineReached ==
  ASSUME NEW d \in Nat, NEW n \in Nat
  PROVE  IsDeadline(SubtractBusinessDays(d, n), d, n)
<1>1. SubtractBusinessDays(d, n) = Deadline(d, n)
  BY BackArrives DEF SubtractBusinessDays
<1>2. WorkDays(d) \in Int
  BY WorkDaysGo
<1>3. CASE n = 0
  <2>1. Deadline(d, n) = d
    BY <1>3 DEF Deadline
  <2>2. {x \in d..(d - 1) : Weekday(x)} = {}
    OBVIOUS
  <2>3. QED
    BY <1>1, <1>3, <2>1, <2>2, FS_EmptySet DEF IsDeadline
<1>4. CASE n # 0
  <2> DEFINE r == Deadline(d, n)
  <2>1. r = DayOf(WorkDays(d) - n)
    BY <1>4 DEF Deadline
  <2>2. n \in Nat \ {0} /\ WorkDays(d) - n \in Int
    BY <1>2, <1>4
  <2>3. r \in Int /\ r <= d - 1
    BY <2>2, DeadlineStep
  <2>4. Weekday(r) /\ WorkDays(r) = WorkDays(d) - n
    BY <2>1, <2>2, DayOfWorks
  <2> HIDE DEF r
  <2>5. r <= d
    BY <2>3
  <2>6. Cardinality({x \in r..(d - 1) : Weekday(x)}) = WorkDays(d) - WorkDays(r)
    BY <2>3, <2>5, WorkDaysBetween
  <2>7. WorkDays(d) - WorkDays(r) = n
    BY <1>2, <2>4
  <2>8. QED
    BY <1>1, <1>4, <2>4, <2>5, <2>6, <2>7 DEF IsDeadline, r
<1>5. QED
  BY <1>3, <1>4
-----------------------------------------------------------------------------
(* A price, a tax and a cost, each rounded to the cent: the rounded values *)
(* are apart by less than a cent more, or less, than what is rounded.      *)
LEMMA RoundedPrice ==
  ASSUME NEW n \in Nat, NEW m \in Nat, n <= m
  PROVE  /\ Q(n, 100) \in Nat /\ Q(m, 100) \in Nat
         /\ Q(n, 100) <= Q(m, 100)
         /\ 100 * (Q(m, 100) - Q(n, 100)) > m - n - 100
BY DEF Q

(* The same of taxes, and how near a rounded tax is to what it was.        *)
LEMMA RoundedTax ==
  ASSUME NEW n \in Nat, NEW m \in Nat, n <= m
  PROVE  /\ Q(n, 10000) \in Nat /\ Q(m, 10000) \in Nat
         /\ 10000 * (Q(m, 10000) - Q(n, 10000)) < m - n + 10000
         /\ 20000 * Q(n, 10000) <= 2 * n + 10000
         /\ 20000 * Q(n, 10000) > 2 * n - 10000
BY DEF Q

(* The same of the cost of financing.                                      *)
LEMMA RoundedCost ==
  ASSUME NEW n \in Nat, NEW m \in Nat, n <= m
  PROVE  /\ Q(n, 144000) \in Nat /\ Q(m, 144000) \in Nat
         /\ 144000 * (Q(m, 144000) - Q(n, 144000)) < m - n + 144000
BY DEF Q

(* No bracket takes more than a third.                                     *)
LEMMA Brackets ==
  ASSUME NEW faturamento \in Nat
  PROVE  AliquotaSimples(faturamento) \in Nat /\ AliquotaSimples(faturamento) <= 3300
<1> DEFINE fitting == {b \in SimplesServicos : faturamento <= b.limite}
<1>1. \A b \in SimplesServicos : b.aliquota \in Nat /\ b.aliquota <= 3300 /\ b.limite \in Nat
  BY DEF SimplesServicos
<1>2. CASE fitting = {}
  BY <1>2 DEF AliquotaSimples
<1>3. CASE fitting # {}
  <2> DEFINE T == {b.limite : b \in fitting}
  <2>1. T \subseteq Nat /\ T # {}
    BY <1>1, <1>3
  <2>2. PICK x \in T : \A y \in T : x <= y
    <3> HIDE DEF T
    <3> QED
      BY <2>1, Smallest
  <2>3. \E b \in fitting : \A y \in fitting : b.limite <= y.limite
    BY <2>2
  <2> DEFINE bracket == CHOOSE b \in fitting : \A y \in fitting : b.limite <= y.limite
  <2>4. bracket \in fitting
    BY <2>3
  <2>5. bracket \in SimplesServicos
    BY <2>4
  <2>6. AliquotaSimples(faturamento) = bracket.aliquota
    BY <1>3 DEF AliquotaSimples
  <2> HIDE DEF bracket
  <2>7. QED
    BY <1>1, <2>5, <2>6
<1>4. QED
  BY <1>2, <1>3

(* Every regime takes one rate of the whole, rounded to the cent.          *)
Rate(regime, faturamento) ==
  IF regime = "simples" THEN AliquotaSimples(faturamento) ELSE 1633

Tax(v, rate) == Q(v * rate, 10000)

(* No regime and no bracket takes more than a third.                       *)
LEMMA RateBound ==
  ASSUME NEW regime \in Regimes, NEW faturamento \in Nat
  PROVE  Rate(regime, faturamento) \in Nat /\ Rate(regime, faturamento) <= 3300
BY Brackets DEF Rate

(* The total is one rounding of one rate.                                  *)
LEMMA OneRate ==
  ASSUME NEW regime \in Regimes, NEW faturamento \in Nat, NEW v \in Nat
  PROVE  CalcularImpostos(v, regime, faturamento).total = Tax(v, Rate(regime, faturamento))
<1>1. CASE regime = "simples"
  <2>1. CalcularImpostos(v, regime, faturamento).total = Tax(v, AliquotaSimples(faturamento))
    BY <1>1 DEF CalcularImpostos, Tax
  <2>2. QED
    BY <1>1, <2>1 DEF Rate
<1>2. CASE regime # "simples"
  <2>1. Componentes(LucroPresumido) = 1633
    BY DEF Componentes, LucroPresumido
  <2>2. CalcularImpostos(v, regime, faturamento).total = Tax(v, Componentes(LucroPresumido))
    BY <1>2 DEF CalcularImpostos, Tax
  <2>3. QED
    BY <1>2, <2>1, <2>2 DEF Rate
<1>3. QED
  BY <1>1, <1>2

(* A greater multiple of a number is greater by a multiple of it.          *)
LEMMA Multiples ==
  ASSUME NEW v \in Nat, NEW w \in Nat, v <= w, NEW r \in Nat, NEW most \in Nat, r <= most
  PROVE  v * r \in Nat /\ w * r \in Nat /\ v * r <= w * r /\ w * r - v * r <= most * (w - v)
<1>1. PICK d \in Nat : w = v + d
  BY SMT
<1>2. d * r \in Nat /\ v * r \in Nat
  OBVIOUS
<1>3. w * r = v * r + d * r
  BY <1>1
<1>4. PICK s \in Nat : most = r + s
  BY SMT
<1>5. d * s \in Nat
  OBVIOUS
<1>6. most * d = d * r + d * s
  BY <1>4
<1>7. QED
  BY <1>1, <1>2, <1>3, <1>5, <1>6

(* The prices of two scenarios: at 40 cents they are two cents apart.      *)
LEMMA ScenarioPrices ==
  ASSUME NEW p \in Nat, NEW a \in Ajustes, NEW b \in Ajustes, a < b
  PROVE  /\ Valor(p, a) \in Nat /\ Valor(p, b) \in Nat
         /\ Valor(p, a) <= Valor(p, b)
         /\ p >= 40 => Valor(p, a) + 2 <= Valor(p, b)
<1>1. /\ p * (100 + a) \in Nat /\ p * (100 + b) \in Nat
      /\ p * (100 + b) - p * (100 + a) >= 5 * p
  BY DEF Ajustes
<1> DEFINE n == p * (100 + a)
           m == p * (100 + b)
<1>2. n \in Nat /\ m \in Nat /\ m - n >= 5 * p
  BY <1>1
<1>3. Valor(p, a) = Q(n, 100) /\ Valor(p, b) = Q(m, 100)
  BY DEF Valor
<1> HIDE DEF n, m
<1>4. n <= m
  BY <1>2
<1>5. /\ Q(n, 100) \in Nat /\ Q(m, 100) \in Nat
      /\ Q(n, 100) <= Q(m, 100)
      /\ 100 * (Q(m, 100) - Q(n, 100)) > m - n - 100
  BY <1>2, <1>4, RoundedPrice
<1>6. QED
  BY <1>2, <1>3, <1>5

(* What tax and financing take of a rise of at least two cents is no more  *)
(* than the rise; of a single cent they may take two.                      *)
LEMMA RoundedRise ==
  ASSUME NEW d \in Nat,
         NEW n \in Nat, NEW m \in Nat, n <= m, m - n <= 3300 * d,
         NEW k \in Nat, NEW l \in Nat, k <= l, l - k <= 68620 * d
  PROVE  /\ Q(n, 10000) \in Nat /\ Q(m, 10000) \in Nat
         /\ Q(k, 144000) \in Nat /\ Q(l, 144000) \in Nat
         /\ Q(m, 10000) + Q(l, 144000) <= Q(n, 10000) + Q(k, 144000) + (IF d = 1 THEN 2 ELSE d)
<1>1. /\ Q(n, 10000) \in Nat /\ Q(m, 10000) \in Nat
      /\ 10000 * (Q(m, 10000) - Q(n, 10000)) < m - n + 10000
  BY RoundedTax
<1>2. /\ Q(k, 144000) \in Nat /\ Q(l, 144000) \in Nat
      /\ 144000 * (Q(l, 144000) - Q(k, 144000)) < l - k + 144000
  BY RoundedCost
<1>3. QED
  BY <1>1, <1>2

(* The same of two prices, paid within four years.                         *)
LEMMA Rise ==
  ASSUME NEW v \in Nat, NEW w \in Nat, v <= w,
         NEW rate \in Nat, rate <= 3300, NEW prazo \in Nat, prazo <= 1460
  PROVE  /\ Tax(v, rate) \in Nat /\ Tax(w, rate) \in Nat
         /\ CustoFinanceiro(v, prazo) \in Nat /\ CustoFinanceiro(w, prazo) \in Nat
         /\ Tax(w, rate) + CustoFinanceiro(w, prazo)
              <= Tax(v, rate) + CustoFinanceiro(v, prazo) + (IF w - v = 1 THEN 2 ELSE w - v)
<1> DEFINE n == v * rate
           m == w * rate
           k == v * 47 * prazo
           l == w * 47 * prazo
           d == w - v
<1>1. d \in Nat
  OBVIOUS
<1>2. n \in Nat /\ m \in Nat /\ n <= m /\ m - n <= 3300 * d
  BY Multiples
<1>3. k \in Nat /\ l \in Nat /\ k <= l /\ l - k <= 68620 * d
  <2>1. 47 * prazo \in Nat /\ 47 * prazo <= 68620
    OBVIOUS
  <2>2. k = v * (47 * prazo) /\ l = w * (47 * prazo)
    OBVIOUS
  <2>3. /\ v * (47 * prazo) \in Nat /\ w * (47 * prazo) \in Nat
        /\ v * (47 * prazo) <= w * (47 * prazo)
        /\ w * (47 * prazo) - v * (47 * prazo) <= 68620 * (w - v)
    BY <2>1, Multiples
  <2>4. QED
    BY <2>2, <2>3
<1>4. /\ Tax(v, rate) = Q(n, 10000) /\ Tax(w, rate) = Q(m, 10000)
      /\ CustoFinanceiro(v, prazo) = Q(k, 144000) /\ CustoFinanceiro(w, prazo) = Q(l, 144000)
  BY DEF Tax, CustoFinanceiro
<1>5. d = w - v
  OBVIOUS
<1> HIDE DEF n, m, k, l, d
<1>6. /\ Q(n, 10000) \in Nat /\ Q(m, 10000) \in Nat
      /\ Q(k, 144000) \in Nat /\ Q(l, 144000) \in Nat
      /\ Q(m, 10000) + Q(l, 144000) <= Q(n, 10000) + Q(k, 144000) + (IF d = 1 THEN 2 ELSE d)
  BY <1>1, <1>2, <1>3, RoundedRise
<1>7. QED
  BY <1>4, <1>5, <1>6

(* So the margins keep the order of the prices.                            *)
LEMMA MarginsInOrder ==
  ASSUME CalculatorsFit, CalculatorsTypeOK
  PROVE  HigherPriceLeavesMore
<1> SUFFICES ASSUME question # None, question.ask = "cenarios", question.prazo <= 4 * 365,
                    NEW a \in Ajustes, NEW b \in Ajustes, a < b
             PROVE  MargemLiquida(question, a) <= MargemLiquida(question, b)
                      + (IF question.preco < 40 THEN 1 ELSE 0)
  BY DEF HigherPriceLeavesMore
<1>1. PICK preco \in Nat, custos \in Nat, prazo \in Nat, regime \in Regimes, faturamento \in Nat :
        /\ question.preco = preco /\ question.custos = custos /\ question.prazo = prazo
        /\ question.regime = regime /\ question.faturamento = faturamento
  BY DEF CalculatorsFit, CalculatorsTypeOK, Question
<1>2. PICK v \in Nat, w \in Nat :
        /\ v = Valor(preco, a) /\ w = Valor(preco, b)
        /\ v <= w /\ (preco >= 40 => v + 2 <= w)
  BY ScenarioPrices
<1>3. PICK rate \in Nat : rate = Rate(regime, faturamento) /\ rate <= 3300
  BY RateBound
<1>4. /\ CalcularImpostos(v, regime, faturamento).total = Tax(v, rate)
      /\ CalcularImpostos(w, regime, faturamento).total = Tax(w, rate)
  BY <1>3, OneRate
<1>5. prazo <= 1460 /\ v <= w
  BY <1>1, <1>2
<1>6. PICK t \in Nat, f \in Nat, u \in Nat, g \in Nat :
        /\ t = Tax(v, rate) /\ f = CustoFinanceiro(v, prazo)
        /\ u = Tax(w, rate) /\ g = CustoFinanceiro(w, prazo)
        /\ u + g <= t + f + (IF w - v = 1 THEN 2 ELSE w - v)
  <2>1. /\ Tax(v, rate) \in Nat /\ Tax(w, rate) \in Nat
        /\ CustoFinanceiro(v, prazo) \in Nat /\ CustoFinanceiro(w, prazo) \in Nat
        /\ Tax(w, rate) + CustoFinanceiro(w, prazo)
             <= Tax(v, rate) + CustoFinanceiro(v, prazo) + (IF w - v = 1 THEN 2 ELSE w - v)
    <3>1. rate <= 3300
      BY <1>3
    <3>2. QED
      BY <1>5, <3>1, Rise
  <2>2. QED
    BY <2>1
<1>7. MargemLiquida(question, a) = v - custos - t - f /\ MargemLiquida(question, b) = w - custos - u - g
  BY <1>1, <1>2, <1>4, <1>6 DEF MargemLiquida
<1>8. v - custos - t - f <= w - custos - u - g + (IF preco < 40 THEN 1 ELSE 0)
  BY <1>2, <1>6
<1>9. QED
  BY <1>1, <1>7, <1>8

(* Five roundings and that of the total do not add up to three cents.      *)
LEMMA ListedTaxes ==
  ASSUME CalculatorsFit, CalculatorsTypeOK
  PROVE  TaxesSumUp
<1> SUFFICES ASSUME question # None, question.ask = "cenarios", NEW a \in Ajustes
             PROVE  LET impostos == CalcularImpostos(Valor(question.preco, a), question.regime, question.faturamento)
                        listed   == IF question.regime = "simples" THEN impostos.detalhamento.simples_nacional
                                    ELSE Componentes(impostos.detalhamento)
                    IN listed - impostos.total \in -2..2
  BY DEF TaxesSumUp
<1>1. PICK preco \in Nat, regime \in Regimes, faturamento \in Nat :
        question.preco = preco /\ question.regime = regime /\ question.faturamento = faturamento
  BY DEF CalculatorsFit, CalculatorsTypeOK, Question
<1>2. PICK v \in Nat : v = Valor(preco, a)
  <2>1. preco * (100 + a) \in Nat
    BY DEF Ajustes
  <2>2. Q(preco * (100 + a), 100) \in Nat
    BY <2>1, RoundedPrice
  <2>3. QED
    BY <2>2 DEF Valor
<1> DEFINE impostos == CalcularImpostos(v, regime, faturamento)
           listed == IF regime = "simples" THEN impostos.detalhamento.simples_nacional
                     ELSE Componentes(impostos.detalhamento)
<1>3. CASE regime = "simples"
  <2>1. PICK n \in Nat : n = v * Rate(regime, faturamento)
    BY RateBound
  <2>2. impostos.total = Q(n, 10000)
    BY <2>1, OneRate DEF Tax
  <2>3. impostos.total \in Nat
    BY <2>2, RoundedTax
  <2>4. listed = impostos.total
    BY <1>3 DEF CalcularImpostos
  <2> HIDE DEF listed, impostos
  <2>5. QED
    BY <1>1, <1>2, <2>3, <2>4 DEF listed, impostos
<1>4. CASE regime # "simples"
  <2>1. /\ impostos.detalhamento.pis = Q(v * 65, 10000)
        /\ impostos.detalhamento.cofins = Q(v * 300, 10000)
        /\ impostos.detalhamento.csll = Q(v * 288, 10000)
        /\ impostos.detalhamento.irpj = Q(v * 480, 10000)
        /\ impostos.detalhamento.iss = Q(v * 500, 10000)
    BY <1>4 DEF CalcularImpostos, LucroPresumido
  <2>2. impostos.total = Q(v * 1633, 10000)
    <3>1. Componentes(LucroPresumido) = 1633
      BY DEF Componentes, LucroPresumido
    <3>2. QED
      BY <1>4, <3>1 DEF CalcularImpostos
  <2>3. ASSUME NEW k \in {65, 300, 288, 480, 500, 1633}
        PROVE  \E q \in Nat :
                 q = Q(v * k, 10000) /\ 20000 * q <= 2 * (v * k) + 10000 /\ 20000 * q > 2 * (v * k) - 10000
    <3>1. PICK n \in Nat : n = v * k
      OBVIOUS
    <3>2. Q(n, 10000) \in Nat /\ 20000 * Q(n, 10000) <= 2 * n + 10000 /\ 20000 * Q(n, 10000) > 2 * n - 10000
      BY RoundedTax
    <3>3. QED
      BY <3>1, <3>2
  <2>4. PICK pis \in Nat : pis = Q(v * 65, 10000) /\ 20000 * pis <= 2 * (v * 65) + 10000
                           /\ 20000 * pis > 2 * (v * 65) - 10000
    BY <2>3
  <2>5. PICK cofins \in Nat : cofins = Q(v * 300, 10000) /\ 20000 * cofins <= 2 * (v * 300) + 10000
                              /\ 20000 * cofins > 2 * (v * 300) - 10000
    BY <2>3
  <2>6. PICK csll \in Nat : csll = Q(v * 288, 10000) /\ 20000 * csll <= 2 * (v * 288) + 10000
                            /\ 20000 * csll > 2 * (v * 288) - 10000
    BY <2>3
  <2>7. PICK irpj \in Nat : irpj = Q(v * 480, 10000) /\ 20000 * irpj <= 2 * (v * 480) + 10000
                            /\ 20000 * irpj > 2 * (v * 480) - 10000
    BY <2>3
  <2>8. PICK iss \in Nat : iss = Q(v * 500, 10000) /\ 20000 * iss <= 2 * (v * 500) + 10000
                           /\ 20000 * iss > 2 * (v * 500) - 10000
    BY <2>3
  <2>9. PICK total \in Nat : total = Q(v * 1633, 10000) /\ 20000 * total <= 2 * (v * 1633) + 10000
                             /\ 20000 * total > 2 * (v * 1633) - 10000
    BY <2>3
  <2>10. pis + cofins + csll + irpj + iss - total \in -2..2
    BY <2>4, <2>5, <2>6, <2>7, <2>8, <2>9
  <2>11. listed = pis + cofins + csll + irpj + iss
    <3> HIDE DEF impostos
    <3> QED
      BY <1>4, <2>1, <2>4, <2>5, <2>6, <2>7, <2>8 DEF Componentes
  <2> HIDE DEF listed, impostos
  <2>12. listed - impostos.total \in -2..2
    BY <2>2, <2>9, <2>10, <2>11
  <2>13. QED
    BY <1>1, <1>2, <2>12 DEF listed, impostos
<1>5. QED
  BY <1>3, <1>4

(* For every opening date and notice the deadline is the latest day that   *)
(* leaves the working days; for every price, cost, revenue and term the    *)
(* scenarios keep their order and the taxes listed sum up.                 *)
THEOREM AnswersAreRight ==
  ASSUME CalculatorsFit
  PROVE  CalculatorsSpec => []AnswersMatchReference
<1>1. ASSUME CalculatorsTypeOK
      PROVE  AnswersMatchReference
  <2>1. DeadlineIsLatest
    <3> SUFFICES ASSUME question # None, question.ask = "prazo"
                 PROVE  IsDeadline(SubtractBusinessDays(question.d, question.n), question.d, question.n)
      BY DEF DeadlineIsLatest
    <3>1. question.d \in Nat /\ question.n \in Nat
      BY <1>1 DEF CalculatorsFit, CalculatorsTypeOK, Question
    <3>2. QED
      BY <3>1, DeadlineReached
  <2>2. QED
    BY <1>1, <2>1, MarginsInOrder, ListedTaxes DEF AnswersMatchReference
<1>2. QED
  BY CalculatorsInvariance, <1>1, PTL
=============================================================================
