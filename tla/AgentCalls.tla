----------------------------- MODULE AgentCalls -----------------------------
(***************************************************************************)
(* How the ten LLM agents account for what they cost.  A graph node builds *)
(* its agent once and every run of the process shares it.  The agent       *)
(* leaves the metric of a call in one slot (_last_metric), and the node    *)
(* takes it from there (get_last_metric) once its coroutine is resumed.    *)
(* Nine agents answer in a pool thread, so other calls of the same agent   *)
(* can set or take the slot in between; the impugnacao agent runs on the   *)
(* event loop and suspends only while it waits for the model.              *)
(***************************************************************************)
EXTENDS Absent, Naturals

CONSTANTS
  Calls,      \* the calls the runs of one process make
  MaxClauses  \* bound: severe clauses of one compliance result

(* What Services assumes of these constants. *)
CallsFit ==
  /\ MaxClauses \in Nat
  /\ None \notin Calls

Threaded == {"read_parse", "tender_understanding", "legal_regime", "eligibility",
             "compliance", "pricing", "bid_no_bid", "proposal", "contract"}
Agent == Threaded \cup {"impugnacao"}

VARIABLES
  callee,      \* the agent of each call
  phase,       \* idle, invoking, returned (by the thread), done, failed
  clauses,     \* severe clauses impugnacao was given
  left,        \* those among them it has still to ask the model about
  slot,        \* _last_metric of each agent: the call it belongs to
  collected,   \* the metric each call put into its run's state
  overwritten, \* history: metrics replaced in a slot before anyone took them
  shared       \* history: calls in flight together with another of their agent

CallsVars == <<callee, phase, clauses, left, slot, collected, overwritten, shared>>

CallsInit ==
  /\ callee = [c \in Calls |-> None]
  /\ phase = [c \in Calls |-> "idle"]
  /\ clauses = [c \in Calls |-> 0]
  /\ left = [c \in Calls |-> 0]
  /\ slot = [a \in Agent |-> None]
  /\ collected = [c \in Calls |-> None]
  /\ overwritten = {}
  /\ shared = {}

InFlight(c) == phase[c] \in {"invoking", "returned"}
Partners(a) == {d \in Calls : callee[d] = a /\ InFlight(d)}

(* A node hands its run's state to the agent and waits. *)
Invoke(c, a) ==
  /\ phase[c] = "idle"
  /\ callee' = [callee EXCEPT ![c] = a]
  /\ phase' = [phase EXCEPT ![c] = "invoking"]
  /\ shared' = IF Partners(a) = {} THEN shared ELSE shared \cup Partners(a) \cup {c}
-----------------------------------------------------------------------------
(* The agents a thread of the pool runs. *)
InThread(c, a) == Invoke(c, a) /\ UNCHANGED <<clauses, left, slot, collected, overwritten>>

ReadParse(c)           == InThread(c, "read_parse")
TenderUnderstanding(c) == InThread(c, "tender_understanding")
LegalRegime(c)         == InThread(c, "legal_regime")
Eligibility(c)         == InThread(c, "eligibility")
Compliance(c)          == InThread(c, "compliance")
Pricing(c)             == InThread(c, "pricing")
BidNoBid(c)            == InThread(c, "bid_no_bid")
Proposal(c)            == InThread(c, "proposal")
Contract(c)            == InThread(c, "contract")

(* The model raises, or it answers and the BigQuery client that has to log *)
(* the call cannot be built: the node reports an error and the slot is not *)
(* touched.                                                                *)
Raised(c) ==
  /\ phase[c] = "invoking"
  /\ phase' = [phase EXCEPT ![c] = "failed"]
  /\ UNCHANGED <<callee, clauses, left, slot, collected, overwritten, shared>>

(* The metric replaces whatever the slot holds; then an answer that does   *)
(* not parse raises, and its node never takes the metric.                  *)
SetLastMetric(c, parsed) ==
  LET a == callee[c]
  IN /\ phase[c] = "invoking"
     /\ a \in Threaded
     /\ slot' = [slot EXCEPT ![a] = c]
     /\ overwritten' = overwritten \cup ({slot[a]} \ {None})
     /\ phase' = [phase EXCEPT ![c] = IF parsed THEN "returned" ELSE "failed"]
     /\ UNCHANGED <<callee, clauses, left, collected, shared>>

(* Fault: the metric is read but stays in the slot. *)
GetLastMetricKept(c) ==
  /\ phase[c] = "returned"
  /\ collected' = [collected EXCEPT ![c] = slot[callee[c]]]
  /\ phase' = [phase EXCEPT ![c] = "done"]
  /\ UNCHANGED <<callee, clauses, left, slot, overwritten, shared>>

(* The node's coroutine is resumed. *)
GetLastMetric(c) ==
  /\ phase[c] = "returned"
  /\ collected' = [collected EXCEPT ![c] = slot[callee[c]]]
  /\ slot' = [slot EXCEPT ![callee[c]] = None]
  /\ phase' = [phase EXCEPT ![c] = "done"]
  /\ UNCHANGED <<callee, clauses, left, overwritten, shared>>
-----------------------------------------------------------------------------
(* One question for each severe clause.  Without any the model is not      *)
(* asked, and the node takes what the slot holds.                          *)
Impugnacao(c, n) ==
  \/ /\ n > 0
     /\ Invoke(c, "impugnacao")
     /\ clauses' = [clauses EXCEPT ![c] = n]
     /\ left' = [left EXCEPT ![c] = n]
     /\ UNCHANGED <<slot, collected, overwritten>>
  \/ /\ n = 0
     /\ phase[c] = "idle"
     /\ callee' = [callee EXCEPT ![c] = "impugnacao"]
     /\ phase' = [phase EXCEPT ![c] = "done"]
     /\ collected' = [collected EXCEPT ![c] = slot["impugnacao"]]
     /\ slot' = [slot EXCEPT !["impugnacao"] = None]
     /\ UNCHANGED <<clauses, left, overwritten, shared>>

(* A clause's answer, or an exception that is only logged. *)
ClauseAnswered(c) ==
  /\ phase[c] = "invoking"
  /\ left[c] > 1
  /\ left' = [left EXCEPT ![c] = @ - 1]
  /\ UNCHANGED <<callee, phase, clauses, slot, collected, overwritten, shared>>

(* Fault: the coroutine yields between setting and taking the metric. *)
LastClauseSuspends(c) ==
  /\ phase[c] = "invoking"
  /\ left[c] = 1
  /\ left' = [left EXCEPT ![c] = 0]
  /\ phase' = [phase EXCEPT ![c] = "returned"]
  /\ slot' = [slot EXCEPT !["impugnacao"] = c]
  /\ overwritten' = overwritten \cup ({slot["impugnacao"]} \ {None})
  /\ UNCHANGED <<callee, clauses, collected, shared>>

(* From the last answer on the coroutine does not suspend: the metric is   *)
(* set and taken in one step.                                              *)
LastClauseAnswered(c) ==
  /\ phase[c] = "invoking"
  /\ left[c] = 1
  /\ left' = [left EXCEPT ![c] = 0]
  /\ phase' = [phase EXCEPT ![c] = "done"]
  /\ overwritten' = overwritten \cup ({slot["impugnacao"]} \ {None})
  /\ collected' = [collected EXCEPT ![c] = c]
  /\ slot' = [slot EXCEPT !["impugnacao"] = None]
  /\ UNCHANGED <<callee, clauses, shared>>

CallsNext ==
  \E c \in Calls :
    \/ ReadParse(c) \/ TenderUnderstanding(c) \/ LegalRegime(c) \/ Eligibility(c)
    \/ Compliance(c) \/ Pricing(c) \/ BidNoBid(c) \/ Proposal(c) \/ Contract(c)
    \/ \E n \in 0..MaxClauses : Impugnacao(c, n)
    \/ Raised(c)
    \/ \E parsed \in BOOLEAN : SetLastMetric(c, parsed)
    \/ GetLastMetric(c)
    \/ ClauseAnswered(c)
    \/ LastClauseAnswered(c)

CallsSpec == CallsInit /\ [][CallsNext]_CallsVars
-----------------------------------------------------------------------------
CallsTypeOK ==
  /\ callee \in [Calls -> Agent \cup {None}]
  /\ phase \in [Calls -> {"idle", "invoking", "returned", "done", "failed"}]
  /\ clauses \in [Calls -> 0..MaxClauses]
  /\ left \in [Calls -> 0..MaxClauses]
  /\ slot \in [Agent -> Calls \cup {None}]
  /\ collected \in [Calls -> Calls \cup {None}]
  /\ overwritten \subseteq Calls
  /\ shared \subseteq Calls

(* A metric is in one place: the slot of its own agent, the state of one   *)
(* run, or overwritten.  However the calls of an agent interleave, no cost *)
(* is reported by two runs, none under another agent's name, and none that *)
(* was counted as lost turns up again.                                     *)
MetricInOnePlace ==
  \A c \in Calls :
    /\ \A d \in Calls : collected[d] = c =>
         /\ callee[d] = callee[c]
         /\ slot[callee[c]] # c
         /\ c \notin overwritten
         /\ \A e \in Calls : collected[e] = c => e = d
    /\ c \in overwritten => slot[callee[c]] # c
    /\ \A a \in Agent : slot[a] = c => callee[c] = a

(* A run reports the cost of its own call, whatever earlier calls failed   *)
(* and left behind, unless another call of the same agent was in flight at *)
(* the same time; the agent on the event loop is never mistaken, and       *)
(* reports nothing when it asked nothing.                                  *)
OwnMetricUnlessShared ==
  \A c \in Calls :
    /\ phase[c] = "done"
    /\ callee[c] = "impugnacao" \/ c \notin shared
    => collected[c] =
         IF callee[c] = "impugnacao" /\ clauses[c] = 0 THEN None ELSE c
=============================================================================
