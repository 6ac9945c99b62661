------------------------------- MODULE Services -------------------------------
(***************************************************************************)
(* The services of the application beside the analysis graph, its runs and *)
(* the watch.  They share no state: none of them reads or changes what     *)
(* another one keeps, so no step of one can matter to another, and a       *)
(* behaviour of all of them is an interleaving of behaviours of each.  The *)
(* steps of one area at a time are therefore all there is to explore.      *)
(***************************************************************************)
EXTENDS Calculators, Portals, AgentCalls, Billing, Board, Contracts,
        Notifications, Intake, Approvals

VARIABLE area \* the service whose steps are taken

vars == <<area, CallsVars, BillingVars, BoardVars, ContractsVars, NotificationsVars,
          IntakeVars, ApprovalsVars, PortalsVars, question>>

ASSUME ServicesFit ==
  /\ CallsFit /\ BillingFit /\ BoardFit /\ ContractsFit /\ NotificationsFit
  /\ IntakeFit /\ ApprovalsFit /\ PortalsFit /\ CalculatorsFit

Areas == {"agents", "billing", "board", "contracts", "notifications",
          "intake", "approvals", "portals", "calculators"}

Init ==
  /\ area \in Areas
  /\ CallsInit /\ BillingInit /\ BoardInit /\ ContractsInit /\ NotificationsInit
  /\ IntakeInit /\ ApprovalsInit /\ PortalsInit /\ CalculatorsInit
-----------------------------------------------------------------------------
AgentStep ==
  /\ area = "agents"
  /\ CallsNext
  /\ UNCHANGED <<area, BillingVars, BoardVars, ContractsVars, NotificationsVars,
                 IntakeVars, ApprovalsVars, PortalsVars, question>>

BillingStep ==
  /\ area = "billing"
  /\ BillingNext
  /\ UNCHANGED <<area, CallsVars, BoardVars, ContractsVars, NotificationsVars,
                 IntakeVars, ApprovalsVars, PortalsVars, question>>

BoardStep ==
  /\ area = "board"
  /\ BoardNext
  /\ UNCHANGED <<area, CallsVars, BillingVars, ContractsVars, NotificationsVars,
                 IntakeVars, ApprovalsVars, PortalsVars, question>>

ContractStep ==
  /\ area = "contracts"
  /\ ContractsNext
  /\ UNCHANGED <<area, CallsVars, BillingVars, BoardVars, NotificationsVars,
                 IntakeVars, ApprovalsVars, PortalsVars, question>>

NotificationStep ==
  /\ area = "notifications"
  /\ NotificationsNext
  /\ UNCHANGED <<area, CallsVars, BillingVars, BoardVars, ContractsVars,
                 IntakeVars, ApprovalsVars, PortalsVars, question>>

IntakeStep ==
  /\ area = "intake"
  /\ IntakeNext
  /\ UNCHANGED <<area, CallsVars, BillingVars, BoardVars, ContractsVars,
                 NotificationsVars, ApprovalsVars, PortalsVars, question>>

ApprovalStep ==
  /\ area = "approvals"
  /\ ApprovalsNext
  /\ UNCHANGED <<area, CallsVars, BillingVars, BoardVars, ContractsVars,
                 NotificationsVars, IntakeVars, PortalsVars, question>>

PortalStep ==
  /\ area = "portals"
  /\ PortalsNext
  /\ UNCHANGED <<area, CallsVars, BillingVars, BoardVars, ContractsVars,
                 NotificationsVars, IntakeVars, ApprovalsVars, question>>

CalculatorStep ==
  /\ area = "calculators"
  /\ CalculatorsNext
  /\ UNCHANGED <<area, CallsVars, BillingVars, BoardVars, ContractsVars,
                 NotificationsVars, IntakeVars, ApprovalsVars, PortalsVars>>

Next ==
  \/ AgentStep \/ BillingStep \/ BoardStep \/ ContractStep \/ NotificationStep
  \/ IntakeStep \/ ApprovalStep \/ PortalStep \/ CalculatorStep

(* Nothing is promised to happen in the end.                               *)
Spec == Init /\ [][Next]_vars
-----------------------------------------------------------------------------
(* Every service keeps its state in its type. *)
TypeOK ==
  /\ area \in Areas
  /\ CallsTypeOK /\ BillingTypeOK /\ BoardTypeOK /\ ContractsTypeOK /\ NotificationsTypeOK
  /\ IntakeTypeOK /\ ApprovalsTypeOK /\ PortalsTypeOK /\ CalculatorsTypeOK
=============================================================================
