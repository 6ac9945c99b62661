--------------------------- MODULE TenderPipeline ---------------------------
(***************************************************************************)
(* One run of the tender graph, node by node: the six compiled subgraphs   *)
(* behind the supervisor, the human interrupt, and the state they share.   *)
(*                                                                         *)
(* Every action is one node function: what it does when the agent answers, *)
(* what its except branch does when the agent raises, and that the agent's *)
(* constructor, which stands in front of the try, may raise: nobody        *)
(* catches that, and the run stops at the node.  The last node of a        *)
(* subgraph also returns the subgraph's state to the supervisor, which     *)
(* routes on current_step.                                                 *)
(*                                                                         *)
(* The list fields with an operator.add reducer (errors, metrics,          *)
(* human_approvals; audit_log and edital_pages behave alike) are kept as   *)
(* counts per author.  A compiled subgraph starts from the parent's lists  *)
(* and returns its whole state, which the parent reduces again with        *)
(* operator.add: what the parent held on entry is in the sum twice.        *)
(***************************************************************************)
EXTENDS TenderSteps, Naturals

Agent == {"read_parse", "tender_understanding", "legal_regime", "eligibility",
          "compliance", "blacklist", "pricing", "bid_no_bid", "impugnacao",
          "proposal", "contract"}

(* A result as the routing reads it: absent, present, or present and       *)
(* calling for a challenge to the tender (a bid recommendation of          *)
(* "impugnar"; a critical compliance risk or a blocking issue).            *)
Result == {"none", "plain", "challenge"}

VARIABLES
  at,        \* the node about to run, or END
  raised,    \* whether the node raised out of the graph: nothing runs after
  step,      \* current_step inside the running subgraph
  result,    \* the optional result fields of TenderState, by agent
  errors,    \* how many AgentErrors of each agent the list holds
  metrics,   \* how many AgentMetrics of each agent the list holds
  approvals, \* how many HumanApprovals of each decision the list holds
  parent     \* the supervisor's step and lists since the last subgraph ended

vars == <<at, raised, step, result, errors, metrics, approvals, parent>>

Zero(S) == [x \in S |-> 0]
Plus(list, x, n) == [list EXCEPT ![x] = @ + n]
(* Fault: the parent takes the returned list for its own. *)
ReduceByReplacing(old, new) == new

Reduce(old, new) == [x \in DOMAIN old |-> old[x] + new[x]]

(* The node a supervisor node starts with.                                 *)
Entry ==
  [ subgraph_ingestion         |-> "read_parse",
    subgraph_understanding     |-> "tender_understanding",
    subgraph_validation        |-> "eligibility",
    subgraph_decision          |-> "pricing",
    interrupt_before_execution |-> "interrupt_before_execution",
    subgraph_execution         |-> "proposal",
    subgraph_post_award        |-> "contract",
    END                        |-> END ]

Init ==
  /\ at = Entry[ROUTING["start"]]
  /\ raised = FALSE
  /\ step = "start"
  /\ result = [a \in Agent |-> "none"]
  /\ errors = Zero(Agent)
  /\ metrics = Zero(Agent)
  /\ approvals = Zero(Decision)
  /\ parent = [step |-> "start", errors |-> Zero(Agent),
               metrics |-> Zero(Agent), approvals |-> Zero(Decision)]
-----------------------------------------------------------------------------
(* The node whose turn it is, in a run that nothing has stopped.           *)
Due(node) == at = node /\ ~raised

(* How a node hands on: to the next node of its subgraph, or, at the end   *)
(* of the subgraph, to the supervisor and by its table to the next one.    *)

Goto(next, s, errs, mets) ==
  /\ at' = next
  /\ step' = s
  /\ errors' = errs
  /\ metrics' = mets
  /\ UNCHANGED <<approvals, parent, raised>>

Return(s, errs, mets) ==
  /\ at' = Entry[ROUTING[s]]
  /\ step' = s
  /\ errors' = Reduce(parent.errors, errs)
  /\ metrics' = Reduce(parent.metrics, mets)
  /\ approvals' = Reduce(parent.approvals, approvals)
  /\ parent' = [step |-> s, errors |-> errors', metrics |-> metrics',
                approvals |-> approvals']
  /\ UNCHANGED raised

(* The agent could not be built: its constructor reads the environment for *)
(* the model behind it, outside the try of the node, so the exception      *)
(* leaves the graph and no AgentError is written.  An agent is built once  *)
(* per process: whether this run is the one that builds it is left open.   *)
ConstructorRaises ==
  /\ raised' = TRUE
  /\ UNCHANGED <<at, step, result, errors, metrics, approvals, parent>>

(* The agent answered: its result is in the state.  Its metric may be      *)
(* missing: the slot it is read from belongs to every run of the process.  *)
Stored(a, values) == \E v \in values : result' = [result EXCEPT ![a] = v]
Metered(a) == {Plus(metrics, a, n) : n \in {0, 1}}

(* The agent raised: the except branch records who and why.                *)
FailedSilently(a) == errors  \* Fault: the error is swallowed.
Failed(a) == Plus(errors, a, 1)
-----------------------------------------------------------------------------
RunReadParse ==
  /\ Due("read_parse")
  /\ \/ /\ Stored("read_parse", {"plain"})
        /\ \E m \in Metered("read_parse") : Return("ingested", errors, m)
     \/ /\ Return("ingestion_failed", Failed("read_parse"), metrics)
        /\ UNCHANGED result
     \/ ConstructorRaises

(* Fault: a step the routing table does not know. *)
RunTenderUnderstandingBadStep ==
  /\ Due("tender_understanding")
  /\ Goto("legal_regime", "schema_failed", Failed("tender_understanding"), metrics)
  /\ UNCHANGED result

RunTenderUnderstanding ==
  /\ Due("tender_understanding")
  /\ \/ /\ Stored("tender_understanding", {"plain"})
        /\ \E m \in Metered("tender_understanding") :
             Goto("legal_regime", step, errors, m)
     \/ /\ Goto("legal_regime", "understanding_failed",
                Failed("tender_understanding"), metrics)
        /\ UNCHANGED result
     \/ ConstructorRaises

(* Fault: nothing is returned for a run whose schema is missing. *)
RunLegalRegimeNoSkip ==
  /\ Due("legal_regime")
  /\ step # "understanding_failed"
  /\ Stored("legal_regime", {"plain"})
  /\ Return("understood", errors, metrics)

(* Skipped, and the failure kept, when the schema could not be extracted.  *)
RunLegalRegime ==
  /\ Due("legal_regime")
  /\ \/ /\ step = "understanding_failed"
        /\ Return(step, errors, metrics)
        /\ UNCHANGED result
     \/ /\ step # "understanding_failed"
        /\ Stored("legal_regime", {"plain"})
        /\ \E m \in Metered("legal_regime") : Return("understood", errors, m)
     \/ /\ step # "understanding_failed"
        /\ Return("understanding_failed", Failed("legal_regime"), metrics)
        /\ UNCHANGED result
     \/ step # "understanding_failed" /\ ConstructorRaises

RunEligibility ==
  /\ Due("eligibility")
  /\ \/ /\ Stored("eligibility", {"plain"})
        /\ \E m \in Metered("eligibility") : Goto("compliance", step, errors, m)
     \/ /\ Goto("compliance", step, Failed("eligibility"), metrics)
        /\ UNCHANGED result
     \/ ConstructorRaises

RunCompliance ==
  /\ Due("compliance")
  /\ \/ /\ Stored("compliance", {"plain", "challenge"})
        /\ \E m \in Metered("compliance") : Goto("blacklist", step, errors, m)
     \/ /\ Goto("blacklist", step, Failed("compliance"), metrics)
        /\ UNCHANGED result
     \/ ConstructorRaises

(* No model behind it: nothing to build, no metric.  A failed lookup       *)
(* validates all the same.                                                 *)
RunBlacklist ==
  /\ Due("blacklist")
  /\ \/ /\ Stored("blacklist", {"plain"})
        /\ Return("validated", errors, metrics)
     \/ /\ Return("validated", Failed("blacklist"), metrics)
        /\ UNCHANGED result

RunPricing ==
  /\ Due("pricing")
  /\ \/ /\ Stored("pricing", {"plain"})
        /\ \E m \in Metered("pricing") : Goto("bid_no_bid", step, errors, m)
     \/ /\ Goto("bid_no_bid", step, Failed("pricing"), metrics)
        /\ UNCHANGED result
     \/ ConstructorRaises

ShouldImpugnar(res) == "challenge" \in {res["bid_no_bid"], res["compliance"]}

(* "decided" whether or not there is a decision; then perhaps a challenge. *)
AfterBid(errs, mets) ==
  IF ShouldImpugnar(result')
  THEN Goto("impugnacao", "decided", errs, mets)
  ELSE Return("decided", errs, mets)

RunBidNoBid ==
  /\ Due("bid_no_bid")
  /\ \/ /\ Stored("bid_no_bid", {"plain", "challenge"})
        /\ \E m \in Metered("bid_no_bid") : AfterBid(errors, m)
     \/ /\ UNCHANGED result
        /\ AfterBid(Failed("bid_no_bid"), metrics)
     \/ ConstructorRaises

RunImpugnacao ==
  /\ Due("impugnacao")
  /\ \/ /\ Stored("impugnacao", {"plain"})
        /\ \E m \in Metered("impugnacao") : Return(step, errors, m)
     \/ /\ Return(step, Failed("impugnacao"), metrics)
        /\ UNCHANGED result
     \/ ConstructorRaises

(* Fault: any answer proceeds. *)
HitlInterruptProceeds(d) ==
  /\ Due("interrupt_before_execution")
  /\ step' = "approved"
  /\ at' = Entry[ROUTING["approved"]]
  /\ approvals' = Plus(approvals, d, 1)
  /\ parent' = [parent EXCEPT !.step = "approved", !.approvals = approvals']
  /\ UNCHANGED <<result, errors, metrics, raised>>

(* The graph is paused here until Command(resume=...) arrives; anything    *)
(* but "approved" rejects.  A plain node: its delta is reduced once.       *)
HitlInterrupt(d) ==
  /\ Due("interrupt_before_execution")
  /\ step' = d
  /\ at' = Entry[ROUTING[d]]
  /\ approvals' = Plus(approvals, d, 1)
  /\ parent' = [parent EXCEPT !.step = d, !.approvals = approvals']
  /\ UNCHANGED <<result, errors, metrics, raised>>

RunProposal ==
  /\ Due("proposal")
  /\ \/ /\ Stored("proposal", {"plain"})
        /\ \E m \in Metered("proposal") : Return("executed", errors, m)
     \/ /\ Return("execution_failed", Failed("proposal"), metrics)
        /\ UNCHANGED result
     \/ ConstructorRaises

(* Fault: a failed contract report fails the run. *)
RunContractFails ==
  /\ Due("contract")
  /\ Return("execution_failed", Failed("contract"), metrics)
  /\ UNCHANGED result

(* The contract report is logged, not stored; a failure completes the run. *)
RunContract ==
  /\ Due("contract")
  /\ \/ \E m \in Metered("contract") : Return("completed", errors, m)
     \/ Return("completed", Failed("contract"), metrics)
     \/ ConstructorRaises
  /\ UNCHANGED result

AgentStep ==
  \/ RunReadParse \/ RunTenderUnderstanding \/ RunLegalRegime \/ RunEligibility
  \/ RunCompliance \/ RunBlacklist \/ RunPricing \/ RunBidNoBid \/ RunImpugnacao
  \/ RunProposal \/ RunContract

Next == AgentStep \/ \E d \in Decision : HitlInterrupt(d)

(* An agent is taken to answer or raise in the end; a human owes the run   *)
(* nothing.                                                                *)
Spec == Init /\ [][Next]_vars /\ WF_vars(AgentStep)
-----------------------------------------------------------------------------
(* The subgraph an agent runs in, counted from the first, and how many     *)
(* subgraphs have ended when the supervisor's step is s.                   *)
Layer ==
  [ read_parse |-> 1, tender_understanding |-> 2, legal_regime |-> 2,
    eligibility |-> 3, compliance |-> 3, blacklist |-> 3, pricing |-> 4,
    bid_no_bid |-> 4, impugnacao |-> 4, proposal |-> 5, contract |-> 6 ]

Ended ==
  [ start |-> 0, ingested |-> 1, ingestion_failed |-> 1, understood |-> 2,
    understanding_failed |-> 2, validated |-> 3, decided |-> 4,
    approved |-> 4, rejected |-> 4, executed |-> 5, execution_failed |-> 5,
    completed |-> 6 ]

(* How often an entry appended in subgraph n stands in its list now: once, *)
(* and doubled by every subgraph that ended after its own.                 *)
Copies(n) ==
  IF Ended[parent.step] <= n THEN 1
  ELSE <<2, 4, 8, 16, 32>>[Ended[parent.step] - n]

(* Whatever an agent does, the run is at a node of the graph with a step   *)
(* the supervisor's table can route.                                       *)
TypeOK ==
  /\ at \in Agent \cup {"interrupt_before_execution", END}
  /\ raised \in BOOLEAN
  /\ step \in Step
  /\ result \in [Agent -> Result]
  /\ errors \in [Agent -> Nat]
  /\ metrics \in [Agent -> Nat]
  /\ approvals \in [Decision -> Nat]
  /\ parent \in [step: Step, errors: [Agent -> Nat],
                 metrics: [Agent -> Nat], approvals: [Decision -> Nat]]

(* The interrupt in front of execution: a proposal draft exists only when  *)
(* the audit trail holds an approval and holds no rejection.               *)
DraftNeedsApproval ==
  result["proposal"] # "none" =>
    approvals["approved"] > 0 /\ approvals["rejected"] = 0

(* No agent fails silently: once the subgraph of an agent has ended, the   *)
(* agent's result or its error is in the state.  Excused are the challenge *)
(* nobody called for, the regime of a tender without schema, and the       *)
(* contract report, which is never stored.                                 *)
Excused(a) ==
  \/ a = "impugnacao" /\ ~ShouldImpugnar(result)
  \/ a = "legal_regime" /\ result["tender_understanding"] = "none"
  \/ a = "contract"

EveryGapHasAnError ==
  \A a \in Agent :
    Layer[a] <= Ended[parent.step] /\ ~Excused(a) =>
      (result[a] = "none") = (errors[a] > 0)

(* What the reducers do to the lists that /runs, /results and /cost show:  *)
(* an error, metric or approval is there once while its subgraph runs and  *)
(* is doubled at the end of every later subgraph.  An error, a cost or an  *)
(* approval is never lost, and it is counted Copies times, not once.       *)
ListsDoubleAtEverySubgraph ==
  /\ \A a \in Agent : errors[a] \in {0, Copies(Layer[a])}
  /\ \A a \in Agent : metrics[a] \in {0, Copies(Layer[a])}
  /\ \A d \in Decision : approvals[d] \in {0, Copies(4)}

(* One record per human decision, as the test of the interrupt states it.  *)
(* The doubling breaks it as soon as an approved run has been executed.    *)
OneRecordPerDecision == approvals["approved"] + approvals["rejected"] <= 1

(* The graph implements the run its observers rely on, and goes on as that *)
(* run does unless an agent's constructor raised out of it.                *)
Verdict ==
  IF approvals["approved"] > 0 THEN "approved"
  ELSE IF approvals["rejected"] > 0 THEN "rejected" ELSE "none"

W == INSTANCE TenderWorkflow
       WITH step <- parent.step, verdict <- Verdict,
            drafted <- result["proposal"] # "none"

ImplementsWorkflow == W!Safety /\ (<>raised \/ W!Progress)

(* However the agents answer or fail once they are built, a run comes to   *)
(* rest at the human interrupt or at the end of the graph with a step that *)
(* closes it.  It stops half way in one case: the constructor of an agent  *)
(* with a model behind it raised (so never at the blacklist).              *)
RunSettles ==
  <>[](\/ at = "interrupt_before_execution"
       \/ at = END /\ step \in TerminalSteps
       \/ raised /\ at # "blacklist")
=============================================================================
