------------------------------ MODULE Approvals ------------------------------
(***************************************************************************)
(* The approval queue: rows of hitl_queue, and requests to approve or to   *)
(* reject a run that may meet.  A request commits its UPDATE, which only   *)
(* changes a pending row, and then publishes its decision without asking   *)
(* whether the UPDATE found one.  The database decides which of two        *)
(* UPDATEs of a row comes first.  Who inserts rows is not in the source;   *)
(* that a run has one row at most is an assumption, since the table only   *)
(* indexes run_id.                                                         *)
(***************************************************************************)
EXTENDS Absent, Naturals

CONSTANTS Queued, Requests \* Queued: the runs a row may be queued for

(* What Services assumes of these constants. *)
ApprovalsFit == None \notin Queued

QueueDecision == {"approved", "rejected"}

VARIABLES
  row,       \* the status of each run's row, absent before it is inserted
  request,   \* each request: its run, its decision and how far it is
  published  \* the hitl-decided events, with the request they came from

ApprovalsVars == <<row, request, published>>

NoRequest == [run |-> None, decision |-> "none", at |-> "unsent"]

ApprovalsInit ==
  /\ row = [r \in Queued |-> "absent"]
  /\ request = [q \in Requests |-> NoRequest]
  /\ published = {}

InsertRow(r) ==
  /\ row[r] = "absent"
  /\ row' = [row EXCEPT ![r] = "pending"]
  /\ UNCHANGED <<request, published>>
-----------------------------------------------------------------------------
(* Fault: the UPDATE does not ask for a pending row. *)
DecideAnyRow(q, r, decision) ==
  /\ request[q] = NoRequest
  /\ row' = [row EXCEPT ![r] = IF @ = "absent" THEN @ ELSE decision]
  /\ request' = [request EXCEPT ![q] =
       [run |-> r, decision |-> decision, at |-> IF row[r] = "pending" THEN "won" ELSE "late"]]
  /\ UNCHANGED published

(* The transaction; "won" if the UPDATE found a pending row, which the     *)
(* code does not look at.                                                  *)
Decide(q, r, decision) ==
  /\ request[q] = NoRequest
  /\ row' = [row EXCEPT ![r] = IF @ = "pending" THEN decision ELSE @]
  /\ request' = [request EXCEPT ![q] =
       [run |-> r, decision |-> decision, at |-> IF row[r] = "pending" THEN "won" ELSE "late"]]
  /\ UNCHANGED published

(* The event goes out and the client is told its decision was taken. *)
Publish(q) ==
  /\ request[q].at \in {"won", "late"}
  /\ published' = published \cup
       {[run |-> request[q].run, decision |-> request[q].decision, by |-> q,
         late |-> request[q].at = "late"]}
  /\ request' = [request EXCEPT ![q].at = "answered"]
  /\ UNCHANGED row

(* Publishing raises, or the process dies after the commit. *)
PublishFails(q) ==
  /\ request[q].at \in {"won", "late"}
  /\ request' = [request EXCEPT ![q].at = "failed"]
  /\ UNCHANGED <<row, published>>

ApprovalsNext ==
  \/ \E r \in Queued : InsertRow(r)
  \/ \E q \in Requests :
       \/ \E r \in Queued, decision \in QueueDecision : Decide(q, r, decision)
       \/ Publish(q) \/ PublishFails(q)

ApprovalsSpec == ApprovalsInit /\ [][ApprovalsNext]_ApprovalsVars
-----------------------------------------------------------------------------
ApprovalsTypeOK ==
  /\ row \in [Queued -> QueueDecision \cup {"absent", "pending"}]
  /\ request \in [Requests -> [run: Queued \cup {None}, decision: QueueDecision \cup {"none"},
                               at: {"unsent", "won", "late", "answered", "failed"}]]
  /\ published \subseteq [run: Queued, decision: QueueDecision, by: Requests, late: BOOLEAN]

(* What the subscribers of hitl-decided are told and what the queue says   *)
(* part in two ways only: a request that came too late (or too early, for  *)
(* a run without a row) announces its decision all the same, and the       *)
(* decision on record is never announced when its publication failed.      *)
AnnouncedMatchesUnlessLate ==
  /\ \A p, o \in published :
       /\ ~p.late => row[p.run] = p.decision
       /\ p.run = o.run /\ ~p.late /\ ~o.late => p = o
  /\ \A r \in Queued : row[r] \in QueueDecision =>
       \/ \E p \in published : p.run = r /\ p.decision = row[r] /\ ~p.late
       \/ \E q \in Requests :
            /\ request[q].run = r
            /\ request[q].decision = row[r]
            /\ request[q].at \in {"won", "failed"}
=============================================================================
