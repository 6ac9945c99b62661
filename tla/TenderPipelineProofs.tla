------------------------ MODULE TenderPipelineProofs ------------------------
(***************************************************************************)
(* Proofs about one run of the tender graph: the type invariant, that no   *)
(* proposal is drafted without a human approval, that every step of the    *)
(* node-level graph is a step of the run its observers rely on, that no    *)
(* agent fails silently, and how often each entry of a list is counted.    *)
(***************************************************************************)
EXTENDS TenderPipeline, TLAPS

(* Where the supervisor sends a run, for every step it can be in.          *)
LEMMA Routes ==
  ASSUME NEW s \in Step
  PROVE  /\ Entry[ROUTING[s]] \in Agent \cup {"interrupt_before_execution", END}
         /\ (Entry[ROUTING[s]] = "interrupt_before_execution") <=> (s = "decided")
         /\ (Entry[ROUTING[s]] = "read_parse") <=> (s = "start")
         /\ (Entry[ROUTING[s]] = "tender_understanding") <=> (s = "ingested")
         /\ (Entry[ROUTING[s]] = "eligibility") <=> (s = "understood")
         /\ (Entry[ROUTING[s]] = "pricing") <=> (s = "validated")
         /\ (Entry[ROUTING[s]] = "proposal") <=> (s = "approved")
         /\ (Entry[ROUTING[s]] = "contract") <=> (s = "executed")
         /\ (Entry[ROUTING[s]] = END) <=> (s \in TerminalSteps)
  BY DEF Step, Entry, ROUTING, Agent, END, TerminalSteps

(* Appending to a list, or reducing two, leaves counts of its entries.     *)
LEMMA CountsAreNumbers ==
  ASSUME NEW S, NEW l \in [S -> Nat], NEW m \in [S -> Nat],
         NEW x \in S, NEW n \in Nat
  PROVE  /\ Plus(l, x, n) \in [S -> Nat]
         /\ Reduce(l, m) \in [S -> Nat]
<1>1. Plus(l, x, n) \in [S -> Nat]
  <2>1. l[x] + n \in Nat
    OBVIOUS
  <2>2. QED
    BY <2>1 DEF Plus
<1>2. Reduce(l, m) \in [S -> Nat]
  <2>1. \A y \in S : l[y] + m[y] \in Nat
    OBVIOUS
  <2>2. QED
    BY <2>1 DEF Reduce
<1>3. QED
  BY <1>1, <1>2

(* What an agent leaves behind, answering or raising, is well typed.       *)
LEMMA AgentCounts ==
  ASSUME TypeOK, NEW a \in Agent
  PROVE  /\ Failed(a) \in [Agent -> Nat]
         /\ \A m \in Metered(a) : m \in [Agent -> Nat]
         /\ \A V \in SUBSET Result : Stored(a, V) => result' \in [Agent -> Result]
<1>1. Failed(a) \in [Agent -> Nat]
  BY CountsAreNumbers DEF Failed, TypeOK
<1>2. ASSUME NEW m \in Metered(a)
      PROVE  m \in [Agent -> Nat]
  <2>1. PICK n \in {0, 1} : m = Plus(metrics, a, n)
    BY DEF Metered
  <2>2. QED
    BY <2>1, CountsAreNumbers DEF TypeOK
<1>3. ASSUME NEW V \in SUBSET Result, Stored(a, V)
      PROVE  result' \in [Agent -> Result]
  BY <1>3 DEF Stored, TypeOK
<1>4. QED
  BY <1>1, <1>2, <1>3

(* Handing on to the next node of a subgraph keeps the types.              *)
LEMMA GotoTypes ==
  ASSUME TypeOK, NEW n \in Agent, NEW s \in Step,
         NEW e \in [Agent -> Nat], NEW m \in [Agent -> Nat],
         result' \in [Agent -> Result], Goto(n, s, e, m)
  PROVE  TypeOK'
  BY DEF TypeOK, Goto

(* So does returning the subgraph to the supervisor.                       *)
LEMMA ReturnTypes ==
  ASSUME TypeOK, NEW s \in Step,
         NEW e \in [Agent -> Nat], NEW m \in [Agent -> Nat],
         result' \in [Agent -> Result], Return(s, e, m)
  PROVE  TypeOK'
<1>1. /\ Reduce(parent.errors, e) \in [Agent -> Nat]
      /\ Reduce(parent.metrics, m) \in [Agent -> Nat]
      /\ Reduce(parent.approvals, approvals) \in [Decision -> Nat]
  <2>1. /\ "contract" \in Agent
        /\ "approved" \in Decision
    BY DEF Agent, Decision
  <2>2. /\ parent.errors \in [Agent -> Nat]
        /\ parent.metrics \in [Agent -> Nat]
        /\ parent.approvals \in [Decision -> Nat]
        /\ approvals \in [Decision -> Nat]
    BY DEF TypeOK
  <2>3. QED
    BY <2>1, <2>2, CountsAreNumbers
<1>2. at' \in Agent \cup {"interrupt_before_execution", END}
  BY Routes DEF Return
<1>3. /\ step' \in Step
      /\ errors' \in [Agent -> Nat]
      /\ metrics' \in [Agent -> Nat]
      /\ approvals' \in [Decision -> Nat]
      /\ raised' \in BOOLEAN
  BY <1>1 DEF Return, TypeOK
<1>4. parent' \in [step: Step, errors: [Agent -> Nat],
                   metrics: [Agent -> Nat], approvals: [Decision -> Nat]]
  BY <1>3 DEF Return
<1>5. QED
  BY <1>2, <1>3, <1>4 DEF TypeOK

(* A constructor that raises changes nothing but that the run has stopped. *)
LEMMA RaiseTypes ==
  ASSUME TypeOK, ConstructorRaises
  PROVE  TypeOK'
  BY DEF TypeOK, ConstructorRaises
-----------------------------------------------------------------------------
(* Every node of the graph keeps the state well typed.  This is the code's *)
(* AgentStep and HitlInterrupt: no node leaves a step the routing table    *)
(* does not know, or a result outside what the next node can read.         *)
LEMMA AgentStepTypes ==
  ASSUME TypeOK, AgentStep
  PROVE  TypeOK'
<1>1. /\ step \in Step
      /\ errors \in [Agent -> Nat]
      /\ metrics \in [Agent -> Nat]
      /\ result \in [Agent -> Result]
  BY DEF TypeOK
<1>2. \A a \in Agent :
         /\ a \in Agent
         /\ Failed(a) \in [Agent -> Nat]
         /\ \A m \in Metered(a) : m \in [Agent -> Nat]
         /\ Stored(a, {"plain"}) => result' \in [Agent -> Result]
         /\ Stored(a, {"plain", "challenge"}) => result' \in [Agent -> Result]
  BY AgentCounts DEF Result
<1>3. /\ {"ingested", "ingestion_failed", "understood", "understanding_failed",
          "validated", "decided", "executed", "execution_failed", "completed"}
           \subseteq Step
      /\ {"read_parse", "tender_understanding", "legal_regime", "eligibility",
          "compliance", "blacklist", "pricing", "bid_no_bid", "impugnacao",
          "proposal", "contract"} \subseteq Agent
  BY DEF Step, Agent
<1>4. CASE RunReadParse
  BY <1>1, <1>2, <1>3, <1>4, ReturnTypes, RaiseTypes DEF RunReadParse
<1>5. CASE RunTenderUnderstanding
  BY <1>1, <1>2, <1>3, <1>5, GotoTypes, RaiseTypes DEF RunTenderUnderstanding
<1>6. CASE RunLegalRegime
  BY <1>1, <1>2, <1>3, <1>6, ReturnTypes, RaiseTypes DEF RunLegalRegime
<1>7. CASE RunEligibility
  BY <1>1, <1>2, <1>3, <1>7, GotoTypes, RaiseTypes DEF RunEligibility
<1>8. CASE RunCompliance
  BY <1>1, <1>2, <1>3, <1>8, GotoTypes, RaiseTypes DEF RunCompliance
<1>9. CASE RunBlacklist
  BY <1>1, <1>2, <1>3, <1>9, ReturnTypes, RaiseTypes DEF RunBlacklist
<1>10. CASE RunPricing
  BY <1>1, <1>2, <1>3, <1>10, GotoTypes, RaiseTypes DEF RunPricing
<1>11. CASE RunBidNoBid
  BY <1>1, <1>2, <1>3, <1>11, GotoTypes, ReturnTypes, RaiseTypes DEF RunBidNoBid, AfterBid
<1>12. CASE RunImpugnacao
  BY <1>1, <1>2, <1>3, <1>12, ReturnTypes, RaiseTypes DEF RunImpugnacao
<1>13. CASE RunProposal
  BY <1>1, <1>2, <1>3, <1>13, ReturnTypes, RaiseTypes DEF RunProposal
<1>14. CASE RunContract
  BY <1>1, <1>2, <1>3, <1>14, ReturnTypes, RaiseTypes DEF RunContract
<1>15. QED
  BY <1>4, <1>5, <1>6, <1>7, <1>8, <1>9, <1>10, <1>11, <1>12, <1>13, <1>14
     DEF AgentStep

(* And so does the human's answer, whichever it is.                        *)
LEMMA InterruptTypes ==
  ASSUME TypeOK, NEW d \in Decision, HitlInterrupt(d)
  PROVE  TypeOK'
<1>1. d \in Step
  BY DEF Decision, Step
<1>2. approvals' \in [Decision -> Nat]
  <2>1. approvals \in [Decision -> Nat]
    BY DEF TypeOK
  <2>2. QED
    BY <2>1, CountsAreNumbers DEF HitlInterrupt
<1>3. at' \in Agent \cup {"interrupt_before_execution", END}
  BY <1>1, Routes DEF HitlInterrupt
<1>4. parent' \in [step: Step, errors: [Agent -> Nat],
                   metrics: [Agent -> Nat], approvals: [Decision -> Nat]]
  BY <1>1, <1>2 DEF HitlInterrupt, TypeOK
<1>5. QED
  BY <1>1, <1>2, <1>3, <1>4 DEF TypeOK, HitlInterrupt

(* A run starts well typed, at the first node of the first subgraph.       *)
LEMMA InitTypes == Init => TypeOK
<1> SUFFICES ASSUME Init PROVE TypeOK
  OBVIOUS
<1>1. "start" \in Step
  BY DEF Step
<1>2. /\ Zero(Agent) \in [Agent -> Nat]
      /\ Zero(Decision) \in [Decision -> Nat]
      /\ [a \in Agent |-> "none"] \in [Agent -> Result]
  BY DEF Zero, Result
<1>3. QED
  BY <1>1, <1>2, Routes DEF Init, TypeOK

(* No node, failing or not, leaves the state outside its type: no step     *)
(* without a route, no result the next node cannot read.                   *)
THEOREM TypeCorrect == Spec => []TypeOK
<1>1. Init => TypeOK
  BY InitTypes
<1>2. TypeOK /\ [Next]_vars => TypeOK'
  <2> SUFFICES ASSUME TypeOK, [Next]_vars PROVE TypeOK'
    OBVIOUS
  <2>1. CASE AgentStep
    BY <2>1, AgentStepTypes
  <2>2. CASE \E d \in Decision : HitlInterrupt(d)
    BY <2>2, InterruptTypes
  <2>3. CASE UNCHANGED vars
    BY <2>3 DEF TypeOK, vars
  <2>4. QED
    BY <2>1, <2>2, <2>3 DEF Next
<1>3. QED
  BY <1>1, <1>2, PTL DEF Spec
-----------------------------------------------------------------------------
(* The inductive invariant behind the approval: which nodes can be running *)
(* at each step of the supervisor, what the trail of approvals holds by    *)
(* then, and that only the execution subgraph drafts.                      *)
Running ==
  [ start                |-> {"read_parse"},
    ingested             |-> {"tender_understanding", "legal_regime"},
    understood           |-> {"eligibility", "compliance", "blacklist"},
    validated            |-> {"pricing", "bid_no_bid", "impugnacao"},
    decided              |-> {"interrupt_before_execution"},
    approved             |-> {"proposal"},
    executed             |-> {"contract"},
    completed            |-> {END},
    ingestion_failed     |-> {END},
    understanding_failed |-> {END},
    execution_failed     |-> {END},
    rejected             |-> {END} ]

OnPath ==
  /\ at \in Running[parent.step]
  /\ at = "tender_understanding" => step = "ingested"
  /\ at = "legal_regime" => step \in {"ingested", "understanding_failed"}
  /\ at = "impugnacao" => step = "decided"

Trail ==
  /\ parent.approvals = approvals
  /\ approvals["approved"] > 0 <=> parent.step \in ExecutionSteps
  /\ approvals["rejected"] > 0 <=> parent.step = "rejected"

DraftAfterExecution ==
  (result["proposal"] # "none") <=> parent.step \in {"executed", "completed"}

IInv == TypeOK /\ OnPath /\ Trail /\ DraftAfterExecution

(* The first node of a subgraph is one the supervisor goes to.             *)
LEMMA EntryIsOnPath ==
  ASSUME NEW s \in Step
  PROVE  /\ Entry[ROUTING[s]] \in Running[s]
         /\ Entry[ROUTING[s]] = "tender_understanding" => s = "ingested"
         /\ Entry[ROUTING[s]] \notin {"legal_regime", "impugnacao"}
  BY DEF Step, Entry, ROUTING, Running, END

(* The step the supervisor is at when a node runs.                         *)
LEMMA SupervisorStep ==
  ASSUME TypeOK, OnPath
  PROVE  /\ at = "read_parse" => parent.step = "start"
         /\ at \in {"tender_understanding", "legal_regime"} => parent.step = "ingested"
         /\ at \in {"eligibility", "compliance", "blacklist"} => parent.step = "understood"
         /\ at \in {"pricing", "bid_no_bid", "impugnacao"} => parent.step = "validated"
         /\ at = "interrupt_before_execution" => parent.step = "decided"
         /\ at = "proposal" => parent.step = "approved"
         /\ at = "contract" => parent.step = "executed"
<1>1. parent.step \in Step
  BY DEF TypeOK
<1>2. QED
  BY <1>1 DEF OnPath, Running, Step, END

(* What a node may do to the supervisor's step, the trail and the draft.   *)
PathStep ==
  /\ OnPath' /\ Trail' /\ DraftAfterExecution'
  /\ \/ parent'.step = parent.step
     \/ /\ parent.step # "decided"
        /\ parent'.step \in Outcomes[ROUTING[parent.step]]

(* What a supervisor node can leave in current_step, and where from.       *)
LEMMA OutcomeSteps ==
  ASSUME NEW p \in Step, p # "decided", NEW s \in Outcomes[ROUTING[p]]
  PROVE  /\ s \in Step
         /\ s \in ExecutionSteps <=> p \in ExecutionSteps
         /\ s # "rejected" /\ p # "rejected"
  BY DEF Step, Outcomes, ROUTING, ExecutionSteps, Decision, END

(* The end of a subgraph keeps the approvals: the lists double, and what   *)
(* was positive stays positive.                                            *)
LEMMA ReturnIsAMove ==
  ASSUME TypeOK, OnPath, Trail, NEW s, NEW e, NEW m, Return(s, e, m),
         parent.step # "decided", s \in Outcomes[ROUTING[parent.step]],
         (result'["proposal"] # "none") <=> s \in {"executed", "completed"}
  PROVE  PathStep
<1>1. parent'.step = s
  BY DEF Return
<1>2. /\ s \in Step
      /\ s \in ExecutionSteps <=> parent.step \in ExecutionSteps
      /\ s # "rejected" /\ parent.step # "rejected"
  BY OutcomeSteps DEF TypeOK
<1>3. OnPath'
  BY <1>1, <1>2, EntryIsOnPath DEF Return, OnPath
<1>4. /\ approvals \in [Decision -> Nat]
      /\ approvals' = Reduce(approvals, approvals)
  BY DEF TypeOK, Trail, Return
<1>5. \A d \in Decision : approvals'[d] > 0 <=> approvals[d] > 0
  BY <1>4 DEF Reduce
<1>6. Trail'
  BY <1>1, <1>2, <1>5 DEF Trail, Return, Decision
<1>7. QED
  BY <1>1, <1>3, <1>6 DEF PathStep, DraftAfterExecution

(* Inside a subgraph nothing the supervisor sees changes.                  *)
LEMMA GotoStaysOnPath ==
  ASSUME TypeOK, OnPath, Trail, DraftAfterExecution, NEW s, NEW e, NEW m,
         NEW n \in Running[parent.step] \ {"tender_understanding"}, Goto(n, s, e, m),
         n = "legal_regime" => s \in {"ingested", "understanding_failed"},
         n = "impugnacao" => s = "decided",
         result'["proposal"] = result["proposal"]
  PROVE  PathStep
  BY DEF PathStep, Goto, OnPath, Trail, DraftAfterExecution

(* A raise is invisible to the supervisor: it only stops the run.          *)
LEMMA RaiseStaysOnPath ==
  ASSUME OnPath, Trail, DraftAfterExecution, ConstructorRaises
  PROVE  PathStep
  BY DEF PathStep, ConstructorRaises, OnPath, Trail, DraftAfterExecution

(* Only the proposal agent writes the proposal draft.                      *)
LEMMA OthersKeepTheDraft ==
  ASSUME TypeOK, NEW a \in Agent \ {"proposal"}, NEW V, Stored(a, V)
  PROVE  result'["proposal"] = result["proposal"]
  BY DEF Stored, TypeOK, Agent

(* Every node is invisible to the supervisor or one move of its table.     *)
LEMMA AgentStepOnPath ==
  ASSUME TypeOK, OnPath, Trail, DraftAfterExecution, AgentStep
  PROVE  PathStep
<1>1. CASE RunReadParse
  <2>1. parent.step = "start" /\ Outcomes[ROUTING[parent.step]] = {"ingested", "ingestion_failed"}
    BY <1>1, SupervisorStep DEF RunReadParse, Due, ROUTING, Outcomes
  <2>2. result'["proposal"] = result["proposal"]
    BY <1>1, OthersKeepTheDraft DEF RunReadParse, ConstructorRaises, Agent
  <2>3. QED
    BY <1>1, <2>1, <2>2, ReturnIsAMove, RaiseStaysOnPath DEF RunReadParse, DraftAfterExecution
<1>2. CASE RunTenderUnderstanding
  <2>1. parent.step = "ingested" /\ "legal_regime" \in Running[parent.step]
    BY <1>2, SupervisorStep DEF RunTenderUnderstanding, Due, Running
  <2>2. result'["proposal"] = result["proposal"]
    BY <1>2, OthersKeepTheDraft DEF RunTenderUnderstanding, ConstructorRaises, Agent
  <2>3. QED
    BY <1>2, <2>1, <2>2, GotoStaysOnPath, RaiseStaysOnPath DEF RunTenderUnderstanding, OnPath, Due
<1>3. CASE RunLegalRegime
  <2>1. parent.step = "ingested" /\ Outcomes[ROUTING[parent.step]] = {"understood", "understanding_failed"}
    BY <1>3, SupervisorStep DEF RunLegalRegime, Due, ROUTING, Outcomes
  <2>2. result'["proposal"] = result["proposal"]
    BY <1>3, OthersKeepTheDraft DEF RunLegalRegime, ConstructorRaises, Agent
  <2>3. QED
    BY <1>3, <2>1, <2>2, ReturnIsAMove, RaiseStaysOnPath DEF RunLegalRegime, DraftAfterExecution, OnPath
<1>4. CASE RunEligibility
  <2>1. parent.step = "understood" /\ "compliance" \in Running[parent.step]
    BY <1>4, SupervisorStep DEF RunEligibility, Due, Running
  <2>2. result'["proposal"] = result["proposal"]
    BY <1>4, OthersKeepTheDraft DEF RunEligibility, ConstructorRaises, Agent
  <2>3. QED
    BY <1>4, <2>1, <2>2, GotoStaysOnPath, RaiseStaysOnPath DEF RunEligibility
<1>5. CASE RunCompliance
  <2>1. parent.step = "understood" /\ "blacklist" \in Running[parent.step]
    BY <1>5, SupervisorStep DEF RunCompliance, Due, Running
  <2>2. result'["proposal"] = result["proposal"]
    BY <1>5, OthersKeepTheDraft DEF RunCompliance, ConstructorRaises, Agent
  <2>3. QED
    BY <1>5, <2>1, <2>2, GotoStaysOnPath, RaiseStaysOnPath DEF RunCompliance
<1>6. CASE RunBlacklist
  <2>1. parent.step = "understood" /\ Outcomes[ROUTING[parent.step]] = {"validated"}
    BY <1>6, SupervisorStep DEF RunBlacklist, Due, ROUTING, Outcomes
  <2>2. result'["proposal"] = result["proposal"]
    BY <1>6, OthersKeepTheDraft DEF RunBlacklist, ConstructorRaises, Agent
  <2>3. QED
    BY <1>6, <2>1, <2>2, ReturnIsAMove, RaiseStaysOnPath DEF RunBlacklist, DraftAfterExecution
<1>7. CASE RunPricing
  <2>1. parent.step = "validated" /\ "bid_no_bid" \in Running[parent.step]
    BY <1>7, SupervisorStep DEF RunPricing, Due, Running
  <2>2. result'["proposal"] = result["proposal"]
    BY <1>7, OthersKeepTheDraft DEF RunPricing, ConstructorRaises, Agent
  <2>3. QED
    BY <1>7, <2>1, <2>2, GotoStaysOnPath, RaiseStaysOnPath DEF RunPricing
<1>8. CASE RunBidNoBid
  <2>1. /\ parent.step = "validated" /\ Outcomes[ROUTING[parent.step]] = {"decided"}
        /\ "impugnacao" \in Running[parent.step]
    BY <1>8, SupervisorStep DEF RunBidNoBid, Due, ROUTING, Outcomes, Running
  <2>2. result'["proposal"] = result["proposal"]
    BY <1>8, OthersKeepTheDraft DEF RunBidNoBid, ConstructorRaises, Agent
  <2>3. QED
    BY <1>8, <2>1, <2>2, ReturnIsAMove, GotoStaysOnPath, RaiseStaysOnPath
       DEF RunBidNoBid, AfterBid, DraftAfterExecution
<1>9. CASE RunImpugnacao
  <2>1. parent.step = "validated" /\ Outcomes[ROUTING[parent.step]] = {"decided"}
    BY <1>9, SupervisorStep DEF RunImpugnacao, Due, ROUTING, Outcomes
  <2>2. result'["proposal"] = result["proposal"]
    BY <1>9, OthersKeepTheDraft DEF RunImpugnacao, ConstructorRaises, Agent
  <2>3. QED
    BY <1>9, <2>1, <2>2, ReturnIsAMove, RaiseStaysOnPath DEF RunImpugnacao, DraftAfterExecution, OnPath, Due
<1>10. CASE RunProposal
  <2>1. parent.step = "approved" /\ Outcomes[ROUTING[parent.step]] = {"executed", "execution_failed"}
    BY <1>10, SupervisorStep DEF RunProposal, Due, ROUTING, Outcomes
  <2>2. result["proposal"] = "none"
    BY <2>1 DEF DraftAfterExecution
  <2>3. Stored("proposal", {"plain"}) => result'["proposal"] # "none"
    BY DEF Stored, TypeOK, Agent
  <2>4. QED
    BY <1>10, <2>1, <2>2, <2>3, ReturnIsAMove, RaiseStaysOnPath DEF RunProposal
<1>11. CASE RunContract
  <2>1. parent.step = "executed" /\ Outcomes[ROUTING[parent.step]] = {"completed"}
    BY <1>11, SupervisorStep DEF RunContract, Due, ROUTING, Outcomes
  <2>2. result'["proposal"] = result["proposal"] /\ result["proposal"] # "none"
    BY <1>11, <2>1 DEF RunContract, DraftAfterExecution
  <2>3. QED
    BY <1>11, <2>1, <2>2, ReturnIsAMove, RaiseStaysOnPath DEF RunContract, DraftAfterExecution
<1>12. QED
  BY <1>1, <1>2, <1>3, <1>4, <1>5, <1>6, <1>7, <1>8, <1>9, <1>10, <1>11
     DEF AgentStep

(* The human's answer is the move from decided to that answer.             *)
LEMMA InterruptOnPath ==
  ASSUME TypeOK, OnPath, Trail, DraftAfterExecution,
         NEW d \in Decision, HitlInterrupt(d)
  PROVE  /\ OnPath' /\ Trail' /\ DraftAfterExecution'
         /\ parent.step = "decided"
         /\ parent'.step = d
<1>1. parent.step = "decided"
  BY SupervisorStep DEF HitlInterrupt, Due
<1>2. parent.approvals = approvals /\ approvals \in [Decision -> Nat]
  BY DEF Trail, TypeOK
<1>3. /\ parent'.step = d
      /\ parent'.approvals = approvals'
  BY DEF HitlInterrupt, TypeOK
<1>4. d \in Step
  BY DEF Decision, Step
<1>5. OnPath'
  BY <1>3, <1>4, EntryIsOnPath DEF HitlInterrupt, OnPath
<1>6. approvals["approved"] = 0 /\ approvals["rejected"] = 0
  BY <1>1, <1>2 DEF Trail, ExecutionSteps, Decision
<1>7. approvals'[d] = 1 /\ \A x \in Decision \ {d} : approvals'[x] = 0
  BY <1>2, <1>6 DEF HitlInterrupt, Plus, Decision
<1>8. Trail'
  BY <1>3, <1>7 DEF Trail, Decision, ExecutionSteps
<1>9. DraftAfterExecution'
  BY <1>1, <1>3 DEF DraftAfterExecution, HitlInterrupt, Decision
<1>10. QED
  BY <1>1, <1>3, <1>5, <1>8, <1>9

(* The invariant holds of a run that has not started.                      *)
LEMMA InitOnPath == Init => IInv
<1> SUFFICES ASSUME Init PROVE IInv
  OBVIOUS
<1>1. TypeOK
  BY InitTypes
<1>2. OnPath
  BY EntryIsOnPath DEF Init, OnPath, Step
<1>3. Trail
  BY DEF Init, Trail, Zero, Decision, ExecutionSteps
<1>4. DraftAfterExecution
  BY DEF Init, DraftAfterExecution, Agent
<1>5. QED
  BY <1>1, <1>2, <1>3, <1>4 DEF IInv

(* The verdict the trail records is the one the supervisor's step tells.   *)
LEMMA VerdictFollowsStep ==
  /\ Trail => Verdict = IF parent.step \in ExecutionSteps THEN "approved"
                        ELSE IF parent.step = "rejected" THEN "rejected" ELSE "none"
  /\ Trail' => Verdict' = IF parent'.step \in ExecutionSteps THEN "approved"
                          ELSE IF parent'.step = "rejected" THEN "rejected" ELSE "none"
  BY DEF Trail, Verdict

(* The inductive invariant: where the nodes can be, what the trail of      *)
(* approvals says at each step, and when there is a draft.                 *)
THEOREM Invariance == Spec => []IInv
<1>1. IInv /\ [Next]_vars => IInv'
  <2> SUFFICES ASSUME IInv, [Next]_vars PROVE IInv'
    OBVIOUS
  <2>1. TypeOK /\ OnPath /\ Trail /\ DraftAfterExecution
    BY DEF IInv
  <2>2. CASE AgentStep
    BY <2>1, <2>2, AgentStepTypes, AgentStepOnPath DEF PathStep, IInv
  <2>3. CASE \E d \in Decision : HitlInterrupt(d)
    BY <2>1, <2>3, InterruptTypes, InterruptOnPath DEF IInv
  <2>4. CASE UNCHANGED vars
    BY <2>4 DEF IInv, TypeOK, OnPath, Trail, DraftAfterExecution, vars
  <2>5. QED
    BY <2>2, <2>3, <2>4 DEF Next
<1>2. QED
  BY InitOnPath, <1>1, PTL DEF Spec

(* Whatever the agents and the operators do, a proposal draft exists only  *)
(* in a run whose trail holds an approval and no rejection.                *)
THEOREM DraftOnlyAfterApproval == Spec => []DraftNeedsApproval
<1>1. IInv => DraftNeedsApproval
  <2> SUFFICES ASSUME IInv, result["proposal"] # "none"
               PROVE  approvals["approved"] > 0 /\ approvals["rejected"] = 0
    BY DEF DraftNeedsApproval
  <2>1. parent.step \in {"executed", "completed"}
    BY DEF IInv, DraftAfterExecution
  <2>2. approvals["approved"] > 0 /\ ~(approvals["rejected"] > 0)
    BY <2>1 DEF IInv, Trail, ExecutionSteps
  <2>3. approvals["rejected"] \in Nat
    BY DEF IInv, TypeOK, Decision
  <2>4. QED
    BY <2>2, <2>3
<1>2. QED
  BY Invariance, <1>1, PTL

(* The abstract run reads the same tables.                                 *)
LEMMA SameTables ==
  W!ROUTING = ROUTING /\ W!Outcomes = Outcomes /\ W!Decision = Decision
  BY DEF W!ROUTING, ROUTING, W!Outcomes, Outcomes, W!Decision, Decision, W!END, END

(* The node-level graph implements the safety part of the run its          *)
(* observers rely on: each node is either invisible to the supervisor or   *)
(* one move along the routing table, and only a human's answer leaves      *)
(* "decided".                                                              *)
THEOREM ImplementsWorkflowSteps == Spec => W!Safety
<1>1. Init => W!Init
  <2> SUFFICES ASSUME Init PROVE W!Init
    OBVIOUS
  <2>1. parent.step = "start" /\ result["proposal"] = "none"
    BY DEF Init, Agent
  <2>2. Verdict = "none"
    BY DEF Init, Verdict, Zero, Decision
  <2>3. QED
    BY <2>1, <2>2 DEF W!Init
<1>2. IInv /\ IInv' /\ [Next]_vars => [W!Next]_(W!vars)
  <2> SUFFICES ASSUME IInv, IInv', [Next]_vars PROVE [W!Next]_(W!vars)
    OBVIOUS
  <2> USE DEF IInv
  <2>1. CASE AgentStep
    <3>1. PathStep
      BY <2>1, AgentStepOnPath
    <3>2. Verdict' = Verdict
      BY <3>1, VerdictFollowsStep, OutcomeSteps DEF PathStep, TypeOK
    <3>3. CASE parent'.step = parent.step
      BY <3>2, <3>3 DEF W!vars, DraftAfterExecution
    <3>4. CASE parent'.step # parent.step
      <4>1. /\ parent.step # "decided"
            /\ parent'.step \in Outcomes[ROUTING[parent.step]]
        BY <3>1, <3>4 DEF PathStep
      <4>2. (result'["proposal"] # "none")
              = (result["proposal"] # "none" \/ parent'.step = "executed")
        BY <4>1 DEF DraftAfterExecution, Outcomes, ROUTING, TypeOK, Step, END, Decision
      <4>3. W!Advance
        BY <3>2, <4>1, <4>2, SameTables DEF W!Advance
      <4>4. QED
        BY <4>3 DEF W!Next
    <3>5. QED
      BY <3>3, <3>4
  <2>2. CASE \E d \in Decision : HitlInterrupt(d)
    <3>1. PICK d \in Decision : HitlInterrupt(d)
      BY <2>2
    <3>2. parent.step = "decided" /\ parent'.step = d
      BY <3>1, InterruptOnPath
    <3>3. Verdict' = d
      BY <3>2, VerdictFollowsStep DEF Decision, ExecutionSteps
    <3>4. UNCHANGED (result["proposal"] # "none")
      BY <3>1 DEF HitlInterrupt
    <3>5. W!Resume(d)
      BY <3>2, <3>3, <3>4 DEF W!Resume
    <3>6. QED
      BY <3>5, SameTables DEF W!Next
  <2>3. CASE UNCHANGED vars
    BY <2>3 DEF vars, W!vars, Verdict
  <2>4. QED
    BY <2>1, <2>2, <2>3 DEF Next
<1>3. QED
  BY Invariance, <1>1, <1>2, PTL DEF Spec, W!Safety
-----------------------------------------------------------------------------
(* The books of a run.  Turn numbers the nodes in the order they run; an   *)
(* agent has run when its subgraph has ended or a later node of it is due. *)
Turn ==
  [ interrupt_before_execution |-> 0, END |-> 0,
    read_parse |-> 1, tender_understanding |-> 2, legal_regime |-> 3,
    eligibility |-> 4, compliance |-> 5, blacklist |-> 6, pricing |-> 7,
    bid_no_bid |-> 8, impugnacao |-> 9, proposal |-> 10, contract |-> 11 ]

Ran(a) == Layer[a] <= Ended[parent.step] \/ Turn[a] < Turn[at]

(* An agent that has not run has left nothing.                             *)
Untouched ==
  \A a \in Agent : ~Ran(a) => result[a] = "none" /\ errors[a] = 0 /\ metrics[a] = 0

(* The supervisor holds the entries of the subgraphs that have ended, as   *)
(* often as the lists do, and none of the one that runs.                   *)
Held ==
  \A a \in Agent :
    /\ parent.errors[a] = IF Layer[a] <= Ended[parent.step] THEN errors[a] ELSE 0
    /\ parent.metrics[a] = IF Layer[a] <= Ended[parent.step] THEN metrics[a] ELSE 0

(* An agent that has run, and is not excused, has a result or an error.    *)
Accounted ==
  \A a \in Agent : Ran(a) /\ ~Excused(a) => (result[a] = "none") = (errors[a] > 0)

(* The regime is skipped only for a tender without schema.                 *)
Skipped ==
  at = "legal_regime" /\ step = "understanding_failed" =>
    result["tender_understanding"] = "none"

Books == Untouched /\ Held /\ Accounted /\ Skipped /\ ListsDoubleAtEverySubgraph

(* What the run of one agent does to the results and the lists it returns. *)
Records(a, e, m) ==
  /\ result' \in [Agent -> Result]
  /\ e \in [Agent -> Nat]
  /\ m \in [Agent -> Nat]
  /\ \A b \in Agent \ {a} :
       result'[b] = result[b] /\ e[b] = errors[b] /\ m[b] = metrics[b]
  /\ e[a] \in {0, 1}
  /\ m[a] \in {0, 1}
  /\ Excused(a)' \/ (result'[a] = "none") = (e[a] > 0)

(* The order of the nodes: agents of a subgraph have their turns together, *)
(* no two at once, and the supervisor enters a subgraph at its first.      *)
LEMMA Turns ==
  /\ \A a \in Agent : Turn[a] \in 1..11 /\ Layer[a] \in 1..6
  /\ \A a, b \in Agent : Turn[a] = Turn[b] => a = b
  /\ \A a, b \in Agent : Layer[a] < Layer[b] => Turn[a] < Turn[b]
  /\ \A s \in Step : Ended[s] \in 0..6
  /\ \A a \in Agent, s \in Step : Turn[a] < Turn[Entry[ROUTING[s]]] => Layer[a] <= Ended[s]
  /\ \A s \in Step : Turn[Entry[ROUTING[s]]] \in 0..11
<1>1. \A a \in Agent : Turn[a] \in 1..11 /\ Layer[a] \in 1..6
  BY DEF Agent, Turn, Layer
<1>2. \A a, b \in Agent : Turn[a] = Turn[b] => a = b
  BY DEF Agent, Turn
<1>3. \A a, b \in Agent : Layer[a] < Layer[b] => Turn[a] < Turn[b]
  BY DEF Agent, Turn, Layer
<1>4. \A s \in Step : Ended[s] \in 0..6
  BY DEF Step, Ended
<1>5. \A a \in Agent, s \in Step : Turn[a] < Turn[Entry[ROUTING[s]]] => Layer[a] <= Ended[s]
  BY DEF Agent, Step, Turn, Layer, Ended, Entry, ROUTING, END
<1>6. \A s \in Step : Turn[Entry[ROUTING[s]]] \in 0..11
  BY DEF Step, Turn, Entry, ROUTING, END
<1>7. QED
  BY <1>1, <1>2, <1>3, <1>4, <1>5, <1>6

(* The node that is due belongs to the subgraph after those that ended,    *)
(* and its agent has not run.                                              *)
LEMMA DueNode ==
  ASSUME TypeOK, OnPath, at \in Agent
  PROVE  /\ Layer[at] = Ended[parent.step] + 1
         /\ ~Ran(at)
<1>1. parent.step \in Step
  BY DEF TypeOK
<1>2. Layer[at] = Ended[parent.step] + 1
  BY <1>1 DEF OnPath, Running, Agent, Step, Layer, Ended, END
<1>3. QED
  BY <1>1, <1>2, Turns DEF Ran

(* The end of a subgraph doubles the copies of what was there before it.   *)
LEMMA CopiesDouble ==
  ASSUME NEW k \in 0..5, NEW n \in 1..6,
         Ended[parent.step] = k, Ended[parent'.step] = k + 1
  PROVE  /\ n <= k => Copies(n)' = Copies(n) + Copies(n)
         /\ n > k => Copies(n) = 1 /\ Copies(n)' = 1
         /\ Copies(n) \in Nat
<1> DEFINE powers == <<2, 4, 8, 16, 32>>
<1>1. \A i \in 1..4 : powers[i] \in Nat /\ powers[i + 1] = powers[i] + powers[i]
  <2>1. powers[1] = 2 /\ powers[2] = 4 /\ powers[3] = 8 /\ powers[4] = 16 /\ powers[5] = 32
    OBVIOUS
  <2> HIDE DEF powers
  <2>2. \A i \in 1..4 : i = 1 \/ i = 2 \/ i = 3 \/ i = 4
    OBVIOUS
  <2>3. QED
    BY <2>1, <2>2
<1>2. powers[1] = 2
  OBVIOUS
<1>3. /\ Copies(n) = IF k <= n THEN 1 ELSE powers[k - n]
      /\ Copies(n)' = IF k + 1 <= n THEN 1 ELSE powers[k + 1 - n]
  BY DEF Copies
<1> HIDE DEF powers
<1>4. CASE n > k
  BY <1>3, <1>4
<1>5. CASE n = k
  BY <1>2, <1>3, <1>5
<1>6. CASE n < k
  <2>1. k - n \in 1..4 /\ k + 1 - n = (k - n) + 1
    BY <1>6
  <2>2. QED
    BY <1>1, <1>3, <1>6, <2>1
<1>7. QED
  BY <1>4, <1>5, <1>6

(* Later agents change nothing an excuse was read from.                    *)
LEMMA ExcusesStand ==
  ASSUME TypeOK, OnPath, NEW a \in Agent, at = a, NEW e, NEW m, Records(a, e, m),
         NEW b \in Agent, Ran(b), ~Excused(b)'
  PROVE  ~Excused(b)
<1>1. /\ Layer["bid_no_bid"] <= Layer["impugnacao"] /\ Turn["bid_no_bid"] < Turn["impugnacao"]
      /\ Layer["compliance"] <= Layer["impugnacao"] /\ Turn["compliance"] < Turn["impugnacao"]
      /\ Layer["tender_understanding"] <= Layer["legal_regime"]
      /\ Turn["tender_understanding"] < Turn["legal_regime"]
  BY DEF Turn, Layer
<1> DEFINE k == Ended[parent.step]
<1>2. /\ k \in 0..6 /\ \A c \in Agent : Turn[c] \in 1..11 /\ Layer[c] \in 1..6
      /\ {"bid_no_bid", "compliance", "tender_understanding"} \subseteq Agent
  BY Turns DEF TypeOK, Agent
<1> HIDE DEF k
<1>3. ASSUME NEW c \in Agent, Layer[c] <= Layer[b], Turn[c] < Turn[b]
      PROVE  Ran(c)
  <2>1. Layer[b] <= k \/ Turn[b] < Turn[a]
    BY DEF Ran, k
  <2>2. Layer[c] <= k \/ Turn[c] < Turn[a]
    BY <1>2, <1>3, <2>1
  <2>3. QED
    BY <2>2 DEF Ran, k
<1>4. \A c \in Agent : Ran(c) => result'[c] = result[c]
  BY DueNode DEF Records
<1>5. QED
  BY <1>1, <1>2, <1>3, <1>4 DEF Excused, ShouldImpugnar

(* Inside a subgraph one more agent has run, and the supervisor holds what *)
(* it held.                                                                *)
LEMMA GotoBooks ==
  ASSUME TypeOK, OnPath, Books, NEW a \in Agent, at = a, NEW e, NEW m, Records(a, e, m),
         NEW n \in Agent, NEW s, Goto(n, s, e, m), Turn[n] = Turn[a] + 1,
         n = "legal_regime" /\ s = "understanding_failed" =>
           result'["tender_understanding"] = "none"
  PROVE  Books'
<1>1. /\ at' = n /\ step' = s /\ errors' = e /\ metrics' = m
      /\ approvals' = approvals /\ parent' = parent
      /\ parent.step \in Step
  BY DEF Goto, TypeOK
<1>2. \A b \in Agent : Ran(b)' <=> Ran(b) \/ b = a
  <2> SUFFICES ASSUME NEW b \in Agent
               PROVE  Turn[b] < Turn[a] + 1 <=> Turn[b] < Turn[a] \/ b = a
    BY <1>1 DEF Ran
  <2>1. Turn[b] \in 1..11 /\ Turn[a] \in 1..11 /\ (Turn[b] = Turn[a] => b = a)
    BY Turns
  <2>2. QED
    BY <2>1
<1>3. ~Ran(a) /\ Layer[a] = Ended[parent.step] + 1 /\ Ended[parent.step] \in Nat
  BY <1>1, DueNode, Turns
<1>4. Untouched'
  BY <1>1, <1>2 DEF Books, Untouched, Records
<1>5. Held'
  <2>1. ~(Layer[a] <= Ended[parent.step])
    BY <1>3
  <2>2. QED
    BY <1>1, <2>1 DEF Books, Held, Records
<1>6. Accounted'
  <2> SUFFICES ASSUME NEW b \in Agent, Ran(b)', ~Excused(b)'
               PROVE  (result'[b] = "none") = (errors'[b] > 0)
    BY DEF Accounted
  <2>1. CASE b = a
    BY <1>1, <2>1 DEF Records
  <2>2. CASE b # a
    <3>1. Ran(b) /\ ~Excused(b)
      BY <1>2, <2>2, ExcusesStand
    <3>2. QED
      BY <1>1, <2>2, <3>1 DEF Books, Accounted, Records
  <2>3. QED
    BY <2>1, <2>2
<1>7. Skipped'
  BY <1>1 DEF Skipped
<1>8. ListsDoubleAtEverySubgraph'
  <2>1. \A k \in Nat : Copies(k)' = Copies(k)
    BY <1>1 DEF Copies
  <2>2. Copies(Layer[a]) = 1
    BY <1>3 DEF Copies
  <2>3. \A b \in Agent : Layer[b] \in Nat
    BY Turns
  <2>4. QED
    BY <1>1, <2>1, <2>2, <2>3 DEF Books, ListsDoubleAtEverySubgraph, Records
<1>9. QED
  BY <1>4, <1>5, <1>6, <1>7, <1>8 DEF Books

(* At the end of a subgraph what the supervisor held is there twice, what  *)
(* the subgraph appended once, and its agents have all run or are excused. *)
LEMMA ReturnBooks ==
  ASSUME TypeOK, OnPath, Trail, Books, NEW a \in Agent, at = a, NEW e, NEW m, Records(a, e, m),
         NEW s \in Step, Return(s, e, m), Ended[s] = Ended[parent.step] + 1,
         \A b \in Agent : Layer[b] = Layer[a] /\ Turn[b] > Turn[a] => Excused(b)'
  PROVE  Books'
<1> DEFINE k == Ended[parent.step]
<1>1. /\ at' = Entry[ROUTING[s]] /\ step' = s
      /\ parent'.step = s /\ parent'.errors = errors' /\ parent'.metrics = metrics'
      /\ approvals' = Reduce(approvals, approvals)
  BY DEF Return, Trail
<1>2. \A b \in Agent : errors'[b] = parent.errors[b] + e[b] /\ metrics'[b] = parent.metrics[b] + m[b]
  BY DEF Return, Reduce, TypeOK
<1>3. k \in 0..5 /\ Layer[a] = k + 1 /\ ~Ran(a)
  <2>1. k \in 0..6 /\ Ended[s] \in 0..6
    BY Turns DEF TypeOK
  <2>2. QED
    BY <2>1, DueNode
<1>4. \A b \in Agent : Ran(b)' <=> Layer[b] <= k + 1
  BY <1>1, Turns DEF Ran
<1>5. \A b \in Agent : Layer[b] \in 1..6 /\ Turn[b] \in 1..11
  BY Turns
<1>6. \A b \in Agent : b # a => result'[b] = result[b] /\ e[b] = errors[b] /\ m[b] = metrics[b]
  BY DEF Records
<1>7. \A b \in Agent : Layer[b] > k + 1 => b # a /\ ~Ran(b)
  <2> SUFFICES ASSUME NEW b \in Agent, Layer[b] > k + 1
               PROVE  b # a /\ ~(Layer[b] <= k) /\ ~(Turn[b] < Turn[a])
    BY DEF Ran
  <2>1. Turn[a] < Turn[b]
    BY <1>3, Turns
  <2>2. QED
    BY <1>3, <1>5, <2>1
<1>8. \A b \in Agent :
        /\ Layer[b] <= k => errors'[b] = errors[b] + errors[b] /\ metrics'[b] = metrics[b] + metrics[b]
        /\ Layer[b] > k => errors'[b] = e[b] /\ metrics'[b] = m[b]
  <2> SUFFICES ASSUME NEW b \in Agent
               PROVE  /\ Layer[b] <= k => /\ errors'[b] = errors[b] + errors[b]
                                          /\ metrics'[b] = metrics[b] + metrics[b]
                      /\ Layer[b] > k => errors'[b] = e[b] /\ metrics'[b] = m[b]
    OBVIOUS
  <2>1. /\ parent.errors[b] = IF Layer[b] <= k THEN errors[b] ELSE 0
        /\ parent.metrics[b] = IF Layer[b] <= k THEN metrics[b] ELSE 0
    BY DEF Books, Held
  <2>2. e[b] \in Nat /\ m[b] \in Nat
    BY DEF Records
  <2>3. CASE Layer[b] <= k
    <3>1. b # a
      BY <1>3, <2>3
    <3>2. QED
      BY <1>2, <1>3, <1>5, <1>6, <2>1, <2>3, <3>1
  <2>4. CASE Layer[b] > k
    BY <1>2, <1>3, <1>5, <2>1, <2>2, <2>4
  <2>5. QED
    BY <2>3, <2>4
<1>9. Untouched'
  <2> SUFFICES ASSUME NEW b \in Agent, ~Ran(b)'
               PROVE  result'[b] = "none" /\ errors'[b] = 0 /\ metrics'[b] = 0
    BY DEF Untouched
  <2>1. Layer[b] > k + 1 /\ Layer[b] > k
    BY <1>3, <1>4, <1>5
  <2>2. b # a /\ ~Ran(b)
    BY <1>7, <2>1
  <2>3. QED
    BY <1>6, <1>8, <2>1, <2>2 DEF Books, Untouched
<1>10. Held'
  <2> SUFFICES ASSUME NEW b \in Agent, ~(Layer[b] <= k + 1)
               PROVE  errors'[b] = 0 /\ metrics'[b] = 0
    BY <1>1 DEF Held
  <2>1. ~Ran(b)'
    BY <1>4
  <2>2. QED
    BY <1>9, <2>1 DEF Untouched
<1>11. Accounted'
  <2> SUFFICES ASSUME NEW b \in Agent, Ran(b)', ~Excused(b)'
               PROVE  (result'[b] = "none") = (errors'[b] > 0)
    BY DEF Accounted
  <2>1. Layer[b] <= k + 1
    BY <1>4
  <2>2. CASE b = a
    BY <1>3, <1>8, <2>2 DEF Records
  <2>3. CASE b # a /\ Layer[b] = k + 1
    <3>1. Turn[b] < Turn[a]
      BY <1>3, <1>5, <2>3, Turns
    <3>2. Ran(b) /\ ~Excused(b)
      BY <3>1, ExcusesStand DEF Ran
    <3>3. errors'[b] = errors[b]
      BY <1>3, <1>5, <1>6, <1>8, <2>3
    <3>4. QED
      BY <1>6, <2>3, <3>2, <3>3 DEF Books, Accounted
  <2>4. CASE Layer[b] <= k
    <3>1. Ran(b) /\ ~Excused(b)
      BY <2>4, ExcusesStand DEF Ran
    <3>2. b # a
      BY <1>3, <2>4
    <3>3. errors[b] \in Nat
      BY DEF TypeOK
    <3>4. errors'[b] > 0 <=> errors[b] > 0
      BY <1>8, <2>4, <3>3
    <3>5. QED
      BY <1>6, <3>1, <3>2, <3>4 DEF Books, Accounted
  <2>5. QED
    BY <1>3, <1>5, <2>1, <2>2, <2>3, <2>4
<1>12. Skipped'
  BY <1>1, EntryIsOnPath DEF Skipped
<1>13. ListsDoubleAtEverySubgraph'
  <2>1. \A n \in 1..6 : /\ n <= k => Copies(n)' = Copies(n) + Copies(n)
                        /\ n > k => Copies(n) = 1 /\ Copies(n)' = 1
                        /\ Copies(n) \in Nat
    BY <1>1, <1>3, CopiesDouble
  <2>2. ASSUME NEW b \in Agent
        PROVE  errors'[b] \in {0, Copies(Layer[b])'} /\ metrics'[b] \in {0, Copies(Layer[b])'}
    <3>1. errors[b] \in {0, Copies(Layer[b])} /\ metrics[b] \in {0, Copies(Layer[b])}
      BY DEF Books, ListsDoubleAtEverySubgraph
    <3>2. CASE Layer[b] <= k
      BY <1>5, <1>8, <2>1, <3>1, <3>2
    <3>3. CASE Layer[b] > k
      <4>1. Copies(Layer[b]) = 1 /\ Copies(Layer[b])' = 1
        BY <1>5, <2>1, <3>3
      <4>2. e[b] \in {0, 1} /\ m[b] \in {0, 1}
        BY <1>6, <3>1, <4>1 DEF Records
      <4>3. QED
        BY <1>8, <3>3, <4>1, <4>2
    <3>4. QED
      BY <1>3, <1>5, <3>2, <3>3
  <2>3. ASSUME NEW d \in Decision
        PROVE  approvals'[d] \in {0, Copies(4)'}
    <3>1. approvals'[d] = approvals[d] + approvals[d] /\ approvals[d] \in {0, Copies(4)}
      BY <1>1 DEF Reduce, TypeOK, Books, ListsDoubleAtEverySubgraph
    <3>2. CASE 4 <= k
      BY <2>1, <3>1, <3>2
    <3>3. CASE ~(4 <= k)
      <4>1. parent.step \notin ExecutionSteps \cup {"rejected"}
        BY <3>3 DEF ExecutionSteps, Ended
      <4>2. approvals[d] = 0
        BY <4>1 DEF Trail, TypeOK, Decision
      <4>3. QED
        BY <3>1, <4>2
    <3>4. QED
      BY <3>2, <3>3
  <2>4. QED
    BY <2>2, <2>3 DEF ListsDoubleAtEverySubgraph
<1>14. QED
  BY <1>9, <1>10, <1>11, <1>12, <1>13 DEF Books

(* An agent that answers leaves its result, one that raises its error, and *)
(* one that is excused perhaps neither.                                    *)
LEMMA NodeRecords ==
  ASSUME TypeOK, OnPath, Books, NEW a \in Agent, at = a
  PROVE  /\ \A m \in Metered(a) \cup {metrics} : \A V \in SUBSET {"plain", "challenge"} :
              Stored(a, V) => Records(a, errors, m)
         /\ UNCHANGED result => Records(a, Failed(a), metrics)
         /\ \A m \in Metered(a) \cup {metrics} :
              UNCHANGED result /\ Excused(a) => Records(a, errors, m)
<1>1. result[a] = "none" /\ errors[a] = 0 /\ metrics[a] = 0
  BY DueNode DEF Books, Untouched
<1>2. /\ errors \in [Agent -> Nat]
      /\ metrics \in [Agent -> Nat]
      /\ result \in [Agent -> Result]
  BY DEF TypeOK
<1>3. ASSUME NEW m \in Metered(a) \cup {metrics}
      PROVE  /\ m \in [Agent -> Nat]
             /\ m[a] \in {0, 1}
             /\ \A b \in Agent \ {a} : m[b] = metrics[b]
  BY <1>1, <1>2, AgentCounts DEF Metered, Plus
<1>4. /\ Failed(a) \in [Agent -> Nat]
      /\ Failed(a)[a] = 1
      /\ \A b \in Agent \ {a} : Failed(a)[b] = errors[b]
  BY <1>1, <1>2, AgentCounts DEF Failed, Plus
<1>5. ASSUME NEW m \in Metered(a) \cup {metrics}, NEW V \in SUBSET {"plain", "challenge"},
             Stored(a, V)
      PROVE  Records(a, errors, m)
  <2>1. result' \in [Agent -> Result] /\ result'[a] # "none"
    BY <1>2, <1>5 DEF Stored, Result
  <2>2. \A b \in Agent \ {a} : result'[b] = result[b]
    BY <1>2, <1>5 DEF Stored
  <2>3. (result'[a] = "none") = (errors[a] > 0)
    BY <1>1, <2>1
  <2>4. QED
    BY <1>1, <1>2, <1>3, <2>1, <2>2, <2>3 DEF Records
<1>6. ASSUME UNCHANGED result
      PROVE  Records(a, Failed(a), metrics)
  <2>1. (result'[a] = "none") = (Failed(a)[a] > 0)
    BY <1>1, <1>4, <1>6
  <2>2. QED
    BY <1>1, <1>2, <1>4, <1>6, <2>1 DEF Records
<1>7. ASSUME NEW m \in Metered(a) \cup {metrics}, UNCHANGED result, Excused(a)
      PROVE  Records(a, errors, m)
  <2>1. Excused(a)'
    BY <1>7 DEF Excused, ShouldImpugnar
  <2>2. QED
    BY <1>1, <1>2, <1>3, <1>7, <2>1 DEF Records
<1>8. QED
  BY <1>5, <1>6, <1>7

(* Which node follows which, and where the subgraphs end.                  *)
LEMMA NodeOrder ==
  /\ Turn["legal_regime"] = Turn["tender_understanding"] + 1
  /\ Turn["compliance"] = Turn["eligibility"] + 1
  /\ Turn["blacklist"] = Turn["compliance"] + 1
  /\ Turn["bid_no_bid"] = Turn["pricing"] + 1
  /\ Turn["impugnacao"] = Turn["bid_no_bid"] + 1
  /\ \A a \in {"read_parse", "legal_regime", "blacklist", "impugnacao", "proposal", "contract"} :
       \A b \in Agent : ~(Layer[b] = Layer[a] /\ Turn[b] > Turn[a])
  /\ \A b \in Agent :
       Layer[b] = Layer["bid_no_bid"] /\ Turn[b] > Turn["bid_no_bid"] => b = "impugnacao"
  /\ \A s, p \in Step : <<p, s>> \in
       {<<"start", "ingested">>, <<"start", "ingestion_failed">>,
        <<"ingested", "understood">>, <<"ingested", "understanding_failed">>,
        <<"understood", "validated">>, <<"validated", "decided">>,
        <<"approved", "executed">>, <<"approved", "execution_failed">>,
        <<"executed", "completed">>} => Ended[s] = Ended[p] + 1
<1>1. \A a \in {"read_parse", "legal_regime", "blacklist", "impugnacao", "proposal", "contract"} :
        \A b \in Agent : ~(Layer[b] = Layer[a] /\ Turn[b] > Turn[a])
  BY DEF Turn, Layer, Agent
<1>2. \A b \in Agent :
        Layer[b] = Layer["bid_no_bid"] /\ Turn[b] > Turn["bid_no_bid"] => b = "impugnacao"
  BY DEF Turn, Layer, Agent
<1>3. QED
  BY <1>1, <1>2 DEF Turn, Ended

(* A raise leaves the books as they are.                                   *)
LEMMA RaiseBooks ==
  ASSUME Books, ConstructorRaises
  PROVE  Books'
  BY DEF ConstructorRaises, Books, Untouched, Held, Accounted, Skipped, Ran, Excused,
         ShouldImpugnar, ListsDoubleAtEverySubgraph, Copies

(* Every node keeps the books, answering, raising or skipped.              *)
LEMMA AgentStepBooks ==
  ASSUME TypeOK, OnPath, Trail, Books, AgentStep
  PROVE  Books'
<1>1. {"read_parse", "tender_understanding", "legal_regime", "eligibility",
       "compliance", "blacklist", "pricing", "bid_no_bid", "impugnacao",
       "proposal", "contract"} \subseteq Agent
  BY DEF Agent
<1>2. {"ingested", "ingestion_failed", "understood", "understanding_failed",
       "validated", "decided", "executed", "execution_failed", "completed",
       "start", "approved"} \subseteq Step
  BY DEF Step
<1>3. ASSUME NEW a \in Agent, at = a
      PROVE  /\ \A m \in Metered(a) \cup {metrics} :
                  /\ Stored(a, {"plain"}) => Records(a, errors, m)
                  /\ Stored(a, {"plain", "challenge"}) => Records(a, errors, m)
                  /\ UNCHANGED result /\ Excused(a) => Records(a, errors, m)
             /\ UNCHANGED result => Records(a, Failed(a), metrics)
  BY <1>3, NodeRecords
<1>4. CASE RunReadParse
  <2>1. at = "read_parse" /\ parent.step = "start"
    BY <1>4, SupervisorStep DEF RunReadParse, Due
  <2>2. QED
    BY <1>4, <1>1, <1>2, <1>3, <2>1, NodeOrder, ReturnBooks, RaiseBooks DEF RunReadParse
<1>5. CASE RunTenderUnderstanding
  <2>1. at = "tender_understanding" /\ step = "ingested"
    BY <1>5 DEF RunTenderUnderstanding, OnPath, Due
  <2>2. UNCHANGED result => result'["tender_understanding"] = "none"
    BY <1>1, <2>1, DueNode DEF Books, Untouched
  <2>3. QED
    BY <1>5, <1>1, <1>3, <2>1, <2>2, NodeOrder, GotoBooks, RaiseBooks DEF RunTenderUnderstanding
<1>6. CASE RunLegalRegime
  <2>1. at = "legal_regime" /\ parent.step = "ingested"
    BY <1>6, SupervisorStep DEF RunLegalRegime, Due
  <2>2. step = "understanding_failed" => Excused("legal_regime")
    BY <2>1 DEF Books, Skipped, Excused
  <2>3. QED
    BY <1>6, <1>1, <1>2, <1>3, <2>1, <2>2, NodeOrder, ReturnBooks, RaiseBooks DEF RunLegalRegime
<1>7. CASE RunEligibility
  <2>1. at = "eligibility"
    BY <1>7 DEF RunEligibility, Due
  <2>2. QED
    BY <1>7, <1>1, <1>3, <2>1, NodeOrder, GotoBooks, RaiseBooks DEF RunEligibility
<1>8. CASE RunCompliance
  <2>1. at = "compliance"
    BY <1>8 DEF RunCompliance, Due
  <2>2. QED
    BY <1>8, <1>1, <1>3, <2>1, NodeOrder, GotoBooks, RaiseBooks DEF RunCompliance
<1>9. CASE RunBlacklist
  <2>1. at = "blacklist" /\ parent.step = "understood"
    BY <1>9, SupervisorStep DEF RunBlacklist, Due
  <2>2. QED
    BY <1>9, <1>1, <1>2, <1>3, <2>1, NodeOrder, ReturnBooks, RaiseBooks DEF RunBlacklist
<1>10. CASE RunPricing
  <2>1. at = "pricing"
    BY <1>10 DEF RunPricing, Due
  <2>2. QED
    BY <1>10, <1>1, <1>3, <2>1, NodeOrder, GotoBooks, RaiseBooks DEF RunPricing
<1>11. CASE RunBidNoBid
  <2>1. at = "bid_no_bid" /\ parent.step = "validated"
    BY <1>11, SupervisorStep DEF RunBidNoBid, Due
  <2> SUFFICES ASSUME ~ConstructorRaises PROVE Books'
    BY RaiseBooks
  <2>2. PICK e, m : AfterBid(e, m) /\ Records("bid_no_bid", e, m)
    BY <1>11, <1>1, <1>3, <2>1 DEF RunBidNoBid
  <2>3. CASE ShouldImpugnar(result')
    BY <1>1, <2>1, <2>2, <2>3, NodeOrder, GotoBooks DEF AfterBid
  <2>4. CASE ~ShouldImpugnar(result')
    <3>1. Return("decided", e, m)
      BY <2>2, <2>4 DEF AfterBid
    <3>2. Excused("impugnacao")'
      BY <2>4 DEF Excused, ShouldImpugnar
    <3>3. QED
      BY <1>1, <1>2, <2>1, <2>2, <3>1, <3>2, NodeOrder, ReturnBooks
  <2>5. QED
    BY <2>3, <2>4
<1>12. CASE RunImpugnacao
  <2>1. at = "impugnacao" /\ parent.step = "validated" /\ step = "decided"
    BY <1>12, SupervisorStep DEF RunImpugnacao, Due, OnPath
  <2>2. QED
    BY <1>12, <1>1, <1>2, <1>3, <2>1, NodeOrder, ReturnBooks, RaiseBooks DEF RunImpugnacao
<1>13. CASE RunProposal
  <2>1. at = "proposal" /\ parent.step = "approved"
    BY <1>13, SupervisorStep DEF RunProposal, Due
  <2>2. QED
    BY <1>13, <1>1, <1>2, <1>3, <2>1, NodeOrder, ReturnBooks, RaiseBooks DEF RunProposal
<1>14. CASE RunContract
  <2>1. at = "contract" /\ parent.step = "executed" /\ Excused("contract")
    BY <1>14, SupervisorStep DEF RunContract, Due, Excused
  <2>2. QED
    BY <1>14, <1>1, <1>2, <1>3, <2>1, NodeOrder, ReturnBooks, RaiseBooks DEF RunContract
<1>15. QED
  BY <1>4, <1>5, <1>6, <1>7, <1>8, <1>9, <1>10, <1>11, <1>12, <1>13, <1>14
     DEF AgentStep

(* The human's answer is the one record that is not doubled on its way.    *)
LEMMA InterruptBooks ==
  ASSUME TypeOK, OnPath, Trail, Books, NEW d \in Decision, HitlInterrupt(d)
  PROVE  Books'
<1>1. /\ parent.step = "decided" /\ parent'.step = d
      /\ parent'.errors = parent.errors /\ parent'.metrics = parent.metrics
      /\ at' = Entry[ROUTING[d]]
      /\ UNCHANGED <<result, errors, metrics>>
      /\ d \in Step
  BY SupervisorStep DEF HitlInterrupt, Due, TypeOK, Decision, Step
<1>2. Ended[parent.step] = 4 /\ Ended[parent'.step] = 4
  BY <1>1 DEF Ended, Decision
<1>3. \A a \in Agent : (Ran(a) <=> Layer[a] <= 4) /\ (Ran(a)' <=> Layer[a] <= 4)
  <2>1. \A a \in Agent : ~(Turn[a] < Turn[at])
    BY DEF HitlInterrupt, Due, Turn, Agent
  <2>2. \A a \in Agent : Turn[a] < Turn[at'] => Layer[a] <= 4
    BY <1>1, <1>2, Turns
  <2>3. QED
    BY <1>2, <2>1, <2>2 DEF Ran
<1>4. Untouched' /\ Accounted'
  BY <1>1, <1>3 DEF Books, Untouched, Accounted, Excused, ShouldImpugnar
<1>5. Held'
  BY <1>1, <1>2 DEF Books, Held
<1>6. Skipped'
  BY <1>1, EntryIsOnPath DEF Skipped
<1>7. ListsDoubleAtEverySubgraph'
  <2>1. \A n \in Nat : Copies(n)' = Copies(n)
    BY <1>2 DEF Copies
  <2>2. Copies(4) = 1
    BY <1>2 DEF Copies
  <2>3. \A x \in Decision : approvals[x] = 0
    BY <1>1 DEF Trail, TypeOK, Decision, ExecutionSteps
  <2>4. \A x \in Decision : approvals'[x] \in {0, 1}
    BY <2>3 DEF HitlInterrupt, Plus, TypeOK
  <2>5. \A a \in Agent : Layer[a] \in Nat
    BY Turns
  <2>6. QED
    BY <1>1, <2>1, <2>2, <2>4, <2>5 DEF Books, ListsDoubleAtEverySubgraph
<1>8. QED
  BY <1>4, <1>5, <1>6, <1>7 DEF Books

(* Nobody has run, and there is nothing in the lists.                      *)
LEMMA InitBooks == Init => Books
<1> SUFFICES ASSUME Init PROVE Books
  OBVIOUS
<1>1. \A a \in Agent : ~Ran(a)
  <2>1. at = "read_parse" /\ Ended[parent.step] = 0
    BY DEF Init, Entry, ROUTING, Ended
  <2>2. \A a \in Agent : ~(Layer[a] <= 0) /\ ~(Turn[a] < Turn["read_parse"])
    BY DEF Layer, Turn, Agent
  <2>3. QED
    BY <2>1, <2>2 DEF Ran
<1>2. Untouched /\ Held /\ Accounted /\ Skipped
  BY <1>1 DEF Init, Untouched, Held, Accounted, Skipped, Zero
<1>3. ListsDoubleAtEverySubgraph
  BY DEF Init, ListsDoubleAtEverySubgraph, Zero
<1>4. QED
  BY <1>2, <1>3 DEF Books

(* The books of a run balance at every node.                               *)
THEOREM BooksBalance == Spec => []Books
<1>1. IInv /\ Books /\ [Next]_vars => Books'
  <2> SUFFICES ASSUME IInv, Books, [Next]_vars PROVE Books'
    OBVIOUS
  <2>1. TypeOK /\ OnPath /\ Trail
    BY DEF IInv
  <2>2. CASE AgentStep
    BY <2>1, <2>2, AgentStepBooks
  <2>3. CASE \E d \in Decision : HitlInterrupt(d)
    BY <2>1, <2>3, InterruptBooks
  <2>4. CASE UNCHANGED vars
    BY <2>4 DEF vars, Books, Untouched, Held, Accounted, Skipped, Ran, Excused,
                ShouldImpugnar, ListsDoubleAtEverySubgraph, Copies
  <2>5. QED
    BY <2>2, <2>3, <2>4 DEF Next
<1>2. QED
  BY Invariance, InitBooks, <1>1, PTL DEF Spec

(* No agent fails silently: when its subgraph has ended, its result or its *)
(* error is in the state, whatever failed before or after it.              *)
THEOREM NoSilentFailure == Spec => []EveryGapHasAnError
<1>1. Books => EveryGapHasAnError
  BY DEF Books, Accounted, Ran, EveryGapHasAnError
<1>2. QED
  BY BooksBalance, <1>1, PTL

(* Nothing is lost from the lists, and nothing is counted but 2^n times,   *)
(* n the number of subgraphs that ended after its own.                     *)
THEOREM ListsDouble == Spec => []ListsDoubleAtEverySubgraph
<1>1. Books => ListsDoubleAtEverySubgraph
  BY DEF Books
<1>2. QED
  BY BooksBalance, <1>1, PTL
=============================================================================
