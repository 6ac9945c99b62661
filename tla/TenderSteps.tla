---------------------------- MODULE TenderSteps ----------------------------
(***************************************************************************)
(* The vocabulary shared by every module about an analysis run: the values *)
(* of current_step, the supervisor's routing table, and what each          *)
(* supervisor node may leave in current_step.                              *)
(***************************************************************************)

END == "END"

(* The supervisor's nodes: six subgraphs and the human interrupt.          *)
Node == {"subgraph_ingestion", "subgraph_understanding", "subgraph_validation",
         "subgraph_decision", "interrupt_before_execution",
         "subgraph_execution", "subgraph_post_award"}

ROUTING ==
  [ start                |-> "subgraph_ingestion",
    ingested             |-> "subgraph_understanding",
    understood           |-> "subgraph_validation",
    validated            |-> "subgraph_decision",
    decided              |-> "interrupt_before_execution",
    approved             |-> "subgraph_execution",
    executed             |-> "subgraph_post_award",
    completed            |-> END,
    ingestion_failed     |-> END,
    understanding_failed |-> END,
    execution_failed     |-> END,
    rejected             |-> END ]

Step == {"start", "ingested", "understood", "validated", "decided", "approved",
         "executed", "completed", "ingestion_failed", "understanding_failed",
         "execution_failed", "rejected"}

TerminalSteps == {"completed", "rejected", "ingestion_failed",
                  "understanding_failed", "execution_failed"}

ApprovableSteps == {"decided"}

Decision == {"approved", "rejected"}

(* The steps in which each subgraph, or the human's answer, leaves the run. *)
Outcomes ==
  [ subgraph_ingestion         |-> {"ingested", "ingestion_failed"},
    subgraph_understanding     |-> {"understood", "understanding_failed"},
    subgraph_validation        |-> {"validated"},
    subgraph_decision          |-> {"decided"},
    interrupt_before_execution |-> Decision,
    subgraph_execution         |-> {"executed", "execution_failed"},
    subgraph_post_award        |-> {"completed"},
    END                        |-> {} ]

(* The steps of a run that a human has let into the execution phase.       *)
ExecutionSteps == {"approved", "executed", "completed", "execution_failed"}
=============================================================================
