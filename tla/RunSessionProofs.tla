-------------------------- MODULE RunSessionProofs --------------------------
(***************************************************************************)
(* Proofs about one run in the API, for any number of requests, streams    *)
(* and processes.  IInv gives the type invariant, that a queue which has   *)
(* seen a closing step has its cleanup pending, and that nothing is        *)
(* executed without an accepted approval.  DInv adds what holds while one  *)
(* decision was accepted: its answer is its outcome, and the snapshot      *)
(* implements TenderWorkflow.  FInv adds the queue and the stream of a run *)
(* that has one stream.                                                    *)
(***************************************************************************)
EXTENDS RunSession, FiniteSetTheorems, TLAPS

(* What ties the tasks to the requests and to the checkpoint they load:    *)
(* only a submitted run has a task, a resume task belongs to an accepted   *)
(* request, and there is a checkpoint before there is anything to resume.  *)
Unsubmitted ==
  task[Analysis].pc = "none" =>
    home = None /\ lastStep = None /\ \A r \in Requests : task[r].pc = "none"

Resumable ==
  checkpoint = None =>
    snapshot \in {None, "start"} /\ \A r \in Requests : task[r].pc = "none"

Underway == \A t \in Tasks : task[t].pc = "running" => task[t].at \in Step

Carried ==
  /\ \A r \in Requests : task[r].pc # "none" => r \in Accepted
  /\ \A r \in Accepted : request[r].decision \in Decision

IInv ==
  /\ TypeOK
  /\ Unsubmitted
  /\ Resumable
  /\ Underway
  /\ Carried
  /\ QueueReclaimArmed
  /\ ExecutionNeedsAcceptedApproval

Approved == \E r \in Accepted : request[r].decision = "approved"

Positions == {snapshot, checkpoint} \cup {task[t].at : t \in Tasks}
-----------------------------------------------------------------------------
(* Where the routing table can take a task, and that it takes none into    *)
(* the execution phase from outside it except at "decided".                *)
LEMMA RoutesStay ==
  ASSUME NEW s \in Step, NEW x \in Outcomes[ROUTING[s]]
  PROVE  /\ x \in Step
         /\ s # "decided" /\ x \in ExecutionSteps => s \in ExecutionSteps
  BY DEF Step, Outcomes, ROUTING, ExecutionSteps, Decision, END

(* None is no step, and every decision is the step it leads to.            *)
LEMMA StepValues ==
  /\ None \notin Step
  /\ Decision \subseteq Step
  /\ {"start", "decided"} \subseteq Step
  /\ None \notin ExecutionSteps
  /\ None \notin SSE_CLOSE_STEPS
  /\ "start" \notin ExecutionSteps \cup SSE_CLOSE_STEPS
  /\ \A d \in Decision : d \in ExecutionSteps => d = "approved"
  BY ConstantsDiffer
     DEF Step, Decision, ExecutionSteps, SSE_CLOSE_STEPS, TerminalSteps

(* A task's state changes and its position does not.                       *)
LEMMA PcChange ==
  ASSUME NEW S, NEW P, NEW A, NEW f \in [S -> [pc: P, at: A]],
         NEW t \in S, NEW p \in P
  PROVE  /\ [f EXCEPT ![t].pc = p] \in [S -> [pc: P, at: A]]
         /\ [f EXCEPT ![t].pc = p][t].pc = p
         /\ \A u \in S : [f EXCEPT ![t].pc = p][u].at = f[u].at
         /\ \A u \in S : u # t => [f EXCEPT ![t].pc = p][u].pc = f[u].pc
<1>1. f[t] \in [pc: P, at: A]
  OBVIOUS
<1>2. [f EXCEPT ![t].pc = p][t] = [f[t] EXCEPT !.pc = p]
  OBVIOUS
<1>3. \A u \in S : u # t => [f EXCEPT ![t].pc = p][u] = f[u]
  OBVIOUS
<1>4. /\ [f[t] EXCEPT !.pc = p].pc = p
      /\ [f[t] EXCEPT !.pc = p].at = f[t].at
      /\ [f[t] EXCEPT !.pc = p] \in [pc: P, at: A]
  BY <1>1
<1>5. QED
  BY <1>2, <1>3, <1>4

(* What store.update may touch, whichever branch it takes.                 *)
LEMMA UpdateKeeps ==
  ASSUME TypeOK, QueueReclaimArmed, NEW s \in Step, Update(s)
  PROVE  /\ snapshot' = s
         /\ home' = home
         /\ queued' = queued
         /\ lastStep' \in {lastStep, s}
         /\ queue' \in Seq(Step)
         /\ timer' \in BOOLEAN
         /\ QueueReclaimArmed'
<1>1. CASE queued /\ s # lastStep
  <2>1. Append(queue, s) \in Seq(Step)
    BY DEF TypeOK
  <2>2. QED
    BY <1>1, <2>1 DEF Update, TypeOK, QueueReclaimArmed
<1>2. CASE ~(queued /\ s # lastStep)
  BY <1>2 DEF Update, TypeOK, QueueReclaimArmed
<1>3. QED
  BY <1>1, <1>2

(* An action that enters no position of the execution phase which was not  *)
(* entered before, and revokes no approval, needs no new approval.         *)
LEMMA NoNewExecution ==
  ASSUME ExecutionNeedsAcceptedApproval,
         Approved => Approved',
         Positions' \cap ExecutionSteps # {} =>
           Positions \cap ExecutionSteps # {} \/ Approved'
  PROVE  ExecutionNeedsAcceptedApproval'
  BY DEF ExecutionNeedsAcceptedApproval, Positions, Approved
-----------------------------------------------------------------------------
(* The initial store is empty.                                             *)
LEMMA InitHolds == Init => IInv
<1> SUFFICES ASSUME Init PROVE IInv
  OBVIOUS
<1>1. TypeOK
  <2>1. <<>> \in Seq(Step)
    OBVIOUS
  <2>2. client \in [Clients -> [pc: {"off", "open"}, got: Seq(Step)]]
    BY <2>1 DEF Init
  <2>3. queue \in Seq(Step)
    BY <2>1 DEF Init
  <2>4. QED
    BY <2>2, <2>3 DEF Init, TypeOK
<1>2. Unsubmitted /\ Resumable /\ Underway /\ Carried
  BY DEF Init, Unsubmitted, Resumable, Underway, Carried, Accepted, Tasks
<1>3. QueueReclaimArmed
  BY DEF Init, QueueReclaimArmed
<1>4. ExecutionNeedsAcceptedApproval
  BY StepValues DEF Init, ExecutionNeedsAcceptedApproval, Tasks
<1>5. QED
  BY <1>1, <1>2, <1>3, <1>4 DEF IInv

(* A new run starts with an empty queue and an entry at "start".           *)
LEMMA SubmitHolds ==
  ASSUME IInv, NEW p \in Processes, Submit(p)
  PROVE  IInv'
<1>1. TypeOK'
  BY StepValues DEF IInv, TypeOK, Submit, Tasks
<1>2. task'[Analysis].pc = "created" /\ \A r \in Requests : task'[r] = task[r]
  BY ConstantsDiffer DEF IInv, TypeOK, Submit, Tasks
<1>3. Accepted' = Accepted
  BY DEF Submit, Accepted
<1>4. Unsubmitted'
  BY <1>2 DEF Unsubmitted
<1>5. Resumable'
  BY <1>2 DEF IInv, Resumable, Submit
<1>6. Underway'
  BY <1>2 DEF IInv, TypeOK, Underway, Submit, Tasks
<1>7. Carried'
  BY <1>2, <1>3 DEF IInv, Carried, Submit
<1>8. QueueReclaimArmed'
  BY StepValues DEF IInv, Unsubmitted, QueueReclaimArmed, Submit
<1>9. \A t \in Tasks : task'[t].at = task[t].at
  BY DEF IInv, TypeOK, Submit
<1>10. ExecutionNeedsAcceptedApproval'
  <2>1. Approved <=> Approved'
    BY <1>3 DEF Approved, Submit
  <2>2. Positions' \subseteq Positions \cup {"start"}
    BY <1>9 DEF Positions, Submit
  <2>3. QED
    BY <2>1, <2>2, StepValues, NoNewExecution DEF IInv
<1>11. QED
  BY <1>1, <1>4, <1>5, <1>6, <1>7, <1>8, <1>10 DEF IInv
-----------------------------------------------------------------------------
(* A chunk: the task is at the step, the checkpoint has it, and the store  *)
(* is updated with it.                                                     *)
LEMMA ChunkHolds ==
  ASSUME IInv, NEW t \in Tasks, NEW s \in Step,
         task[t].pc # "none",
         task' = [task EXCEPT ![t] = [pc |-> "running", at |-> s]],
         checkpoint' = s, Update(s), UNCHANGED <<request, client>>,
         s \in ExecutionSteps => Positions \cap ExecutionSteps # {} \/ Approved
  PROVE  IInv'
<1>1. /\ snapshot' = s
      /\ home' = home
      /\ queued' = queued
      /\ lastStep' \in {lastStep, s}
      /\ queue' \in Seq(Step)
      /\ timer' \in BOOLEAN
      /\ QueueReclaimArmed'
  BY UpdateKeeps DEF IInv
<1>2. task'[t].at = s /\ \A u \in Tasks : u # t => task'[u] = task[u]
  BY DEF IInv, TypeOK
<1>3. \A u \in Tasks : (task'[u].pc = "none") <=> (task[u].pc = "none")
  BY <1>2 DEF IInv, TypeOK
<1>4. TypeOK'
  <2>1. task' \in [Tasks ->
          [pc: {"none", "created", "running", "done", "failed"}, at: Step \cup {None}]]
    BY DEF IInv, TypeOK
  <2>2. QED
    BY <1>1, <2>1 DEF IInv, TypeOK
<1>5. task[Analysis].pc # "none"
  BY DEF IInv, Unsubmitted, Tasks
<1>6. Unsubmitted'
  BY <1>3, <1>5 DEF Unsubmitted, Tasks
<1>7. Resumable'
  BY StepValues DEF Resumable
<1>8. Underway'
  BY <1>2 DEF IInv, Underway
<1>9. Accepted' = Accepted
  BY DEF Accepted
<1>10. Carried'
  BY <1>3, <1>9 DEF IInv, Carried, Tasks
<1>11. ExecutionNeedsAcceptedApproval'
  <2>1. Approved <=> Approved'
    BY <1>9 DEF Approved
  <2>2. Positions' \subseteq Positions \cup {s}
    BY <1>1, <1>2 DEF Positions
  <2>3. QED
    BY <2>1, <2>2, NoNewExecution DEF IInv
<1>12. QED
  BY <1>1, <1>4, <1>6, <1>7, <1>8, <1>10, <1>11 DEF IInv

(* A resume starts where the checkpoint is, and there is one.              *)
LEMMA BeginHolds ==
  ASSUME IInv, NEW t \in Tasks, Begin(t)
  PROVE  IInv'
<1>1. task[t].pc # "none"
  BY DEF Begin
<1>2. checkpoint' \in Step
  BY <1>1, StepValues DEF Begin, IInv, TypeOK, Resumable, Tasks
<1>3. checkpoint' \in ExecutionSteps => Positions \cap ExecutionSteps # {}
  BY StepValues DEF Begin, Positions
<1>4. QED
  BY <1>1, <1>2, <1>3, ChunkHolds DEF Begin

(* A task enters execution only at "decided", with an approval it carries. *)
LEMMA AdvanceHolds ==
  ASSUME IInv, NEW t \in Tasks, Advance(t)
  PROVE  IInv'
<1>1. PICK s \in NextSteps(t) :
         /\ task' = [task EXCEPT ![t].at = s]
         /\ checkpoint' = s
         /\ Update(s)
  BY DEF Advance
<1>2. task[t].pc = "running" /\ task[t].at \in Step
  BY DEF Advance, IInv, Underway
<1>3. task' = [task EXCEPT ![t] = [pc |-> "running", at |-> s]]
  <2>1. task[t] \in [pc: {"none", "created", "running", "done", "failed"},
                     at: Step \cup {None}]
    BY DEF IInv, TypeOK
  <2>2. [task[t] EXCEPT !.at = s] = [pc |-> "running", at |-> s]
    BY <1>2, <2>1
  <2>3. QED
    BY <1>1, <2>2
<1>4. /\ s \in Step
      /\ s \in ExecutionSteps => Positions \cap ExecutionSteps # {} \/ Approved
  <2>1. CASE task[t].at = "decided"
    <3>1. t \in Requests /\ s = request[t].decision
      BY <1>1, <2>1 DEF NextSteps, Tasks
    <3>2. t \in Accepted /\ s \in Decision
      BY <1>2, <3>1 DEF IInv, Carried
    <3>3. QED
      BY <3>1, <3>2, StepValues DEF Approved
  <2>2. CASE task[t].at # "decided"
    <3>1. s \in Outcomes[ROUTING[task[t].at]]
      BY <1>1, <2>2 DEF NextSteps
    <3>2. task[t].at \in Positions
      BY DEF Positions
    <3>3. QED
      BY <1>2, <2>2, <3>1, <3>2, RoutesStay
  <2>3. QED
    BY <2>1, <2>2
<1>5. QED
  BY <1>1, <1>2, <1>3, <1>4, ChunkHolds DEF Advance

(* A task that ends, either way, leaves everything where it is.            *)
LEMMA EndHolds ==
  ASSUME IInv, NEW t \in Tasks, Finish(t) \/ Fail(t)
  PROVE  IInv'
<1>1. /\ UNCHANGED <<entry, checkpoint, request, client>>
      /\ task[t].pc # "none"
      /\ \E p \in {"done", "failed"} : task' = [task EXCEPT ![t].pc = p]
  BY DEF Finish, Fail
<1>2. /\ task' \in [Tasks ->
           [pc: {"none", "created", "running", "done", "failed"}, at: Step \cup {None}]]
      /\ \A u \in Tasks :
           /\ (task'[u].pc = "none") <=> (task[u].pc = "none")
           /\ task'[u].pc = "running" => task[u].pc = "running"
           /\ task'[u].at = task[u].at
  <2>1. PICK p \in {"done", "failed"} : task' = [task EXCEPT ![t].pc = p]
    BY <1>1
  <2>2. task \in [Tasks ->
          [pc: {"none", "created", "running", "done", "failed"}, at: Step \cup {None}]]
    BY DEF IInv, TypeOK
  <2>3. QED
    BY <1>1, <2>1, <2>2, PcChange
<1>3. TypeOK'
  BY <1>1, <1>2 DEF IInv, TypeOK, entry
<1>4. Accepted' = Accepted /\ request' = request
  BY <1>1 DEF Accepted
<1>5. Unsubmitted' /\ Resumable'
  BY <1>1, <1>2 DEF IInv, Unsubmitted, Resumable, Tasks, entry
<1>6. Underway'
  BY <1>2 DEF IInv, Underway
<1>7. Carried'
  BY <1>2, <1>4 DEF IInv, Carried, Tasks
<1>8. QueueReclaimArmed'
  BY <1>1 DEF IInv, QueueReclaimArmed, entry
<1>9. ExecutionNeedsAcceptedApproval'
  <2>1. Approved <=> Approved'
    BY <1>4 DEF Approved
  <2>2. Positions' = Positions
    BY <1>1, <1>2 DEF Positions, entry
  <2>3. QED
    BY <2>1, <2>2, NoNewExecution DEF IInv
<1>10. QED
  BY <1>3, <1>5, <1>6, <1>7, <1>8, <1>9 DEF IInv
-----------------------------------------------------------------------------
(* A handler: its request moves on, an accepted one stays accepted with    *)
(* its decision, and a task is created for it only in a submitted run that *)
(* has a checkpoint.                                                       *)
LEMMA RequestHolds ==
  ASSUME IInv, NEW r \in Requests,
         NEW v \in [pc: {"idle", "waiting", "ok", "conflict", "unknown", "error"},
                    decision: Decision \cup {None}, seen: Step \cup {None}],
         request' = [request EXCEPT ![r] = v],
         UNCHANGED <<entry, checkpoint, client>>,
         v.pc \in {"waiting", "ok", "error"} => v.decision \in Decision,
         r \in Accepted => /\ v.pc \in {"waiting", "ok", "error"}
                          /\ v.decision = request[r].decision,
         \/ UNCHANGED task
         \/ /\ task' = [task EXCEPT ![r].pc = "created"]
            /\ v.pc = "waiting"
            /\ home # None
            /\ snapshot \in ApprovableSteps
  PROVE  IInv'
<1>1. /\ request'[r] = v
      /\ \A q \in Requests : q # r => request'[q] = request[q]
      /\ request' \in [Requests ->
           [pc: {"idle", "waiting", "ok", "conflict", "unknown", "error"},
            decision: Decision \cup {None}, seen: Step \cup {None}]]
  BY DEF IInv, TypeOK
<1>2. task \in [Tasks ->
        [pc: {"none", "created", "running", "done", "failed"}, at: Step \cup {None}]]
  BY DEF IInv, TypeOK
<1>3. /\ task' \in [Tasks ->
           [pc: {"none", "created", "running", "done", "failed"}, at: Step \cup {None}]]
      /\ \A t \in Tasks : task'[t].at = task[t].at
      /\ \A t \in Tasks : task'[t].pc # task[t].pc =>
           /\ t = r
           /\ task'[t].pc = "created"
           /\ v.pc = "waiting"
           /\ home # None
           /\ snapshot = "decided"
  <2>1. CASE UNCHANGED task
    BY <1>2, <2>1
  <2>2. CASE /\ task' = [task EXCEPT ![r].pc = "created"]
             /\ v.pc = "waiting"
             /\ home # None
             /\ snapshot \in ApprovableSteps
    <3>1. r \in Tasks
      BY DEF Tasks
    <3>2. QED
      BY <1>2, <2>2, <3>1, PcChange DEF ApprovableSteps
  <2>3. QED
    BY <2>1, <2>2
<1>4. TypeOK'
  BY <1>1, <1>3 DEF IInv, TypeOK, entry
<1>5. Accepted \subseteq Accepted' /\ (v.pc = "waiting" => r \in Accepted')
  BY <1>1 DEF Accepted
<1>6. Unsubmitted'
  BY <1>3, ConstantsDiffer DEF IInv, Unsubmitted, Tasks, entry
<1>7. Resumable'
  BY <1>3, StepValues DEF IInv, Resumable, Tasks, entry
<1>8. Underway'
  BY <1>3 DEF IInv, Underway
<1>9. Carried'
  <2>1. ASSUME NEW q \in Requests, task'[q].pc # "none"
        PROVE  q \in Accepted'
    BY <1>3, <1>5, <2>1 DEF IInv, Carried, Tasks
  <2>2. ASSUME NEW q \in Accepted'
        PROVE  request'[q].decision \in Decision
    BY <1>1, <2>2 DEF IInv, Carried, Accepted
  <2>3. QED
    BY <2>1, <2>2 DEF Carried
<1>10. QueueReclaimArmed'
  BY DEF IInv, QueueReclaimArmed, entry
<1>11. ExecutionNeedsAcceptedApproval'
  <2>1. Approved => Approved'
    BY <1>1, <1>5 DEF Approved
  <2>2. Positions' = Positions
    BY <1>3 DEF Positions, entry
  <2>3. QED
    BY <2>1, <2>2, NoNewExecution DEF IInv
<1>12. QED
  BY <1>4, <1>6, <1>7, <1>8, <1>9, <1>10, <1>11 DEF IInv

(* POST /approve and POST /reject, accepted, refused and answered.         *)
LEMMA RequestStepHolds ==
  ASSUME IInv, NEW r \in Requests, RequestStep(r)
  PROVE  IInv'
<1>1. /\ request \in [Requests ->
           [pc: {"idle", "waiting", "ok", "conflict", "unknown", "error"},
            decision: Decision \cup {None}, seen: Step \cup {None}]]
      /\ snapshot \in Step \cup {None}
  BY DEF IInv, TypeOK
<1> DEFINE Old == request[r]
           Refused(pc, d) == [pc |-> pc, decision |-> d, seen |-> Old.seen]
<1>2. Old \in [pc: {"idle", "waiting", "ok", "conflict", "unknown", "error"},
              decision: Decision \cup {None}, seen: Step \cup {None}]
  BY <1>1
<1>3. ASSUME NEW d \in Decision, NEW pc \in {"waiting", "conflict", "unknown"},
             request' = [request EXCEPT ![r].pc = pc, ![r].decision = d]
      PROVE  request' = [request EXCEPT ![r] = Refused(pc, d)]
  <2>1. [[request[r] EXCEPT !.pc = pc] EXCEPT !.decision = d] = Refused(pc, d)
    <3>1. [request[r] EXCEPT !.pc = pc] =
            [pc |-> pc, decision |-> Old.decision, seen |-> Old.seen]
      BY <1>2
    <3>2. [[pc |-> pc, decision |-> Old.decision, seen |-> Old.seen]
             EXCEPT !.decision = d] = Refused(pc, d)
      OBVIOUS
    <3>3. QED
      BY <3>1, <3>2
  <2>2. QED
    BY <1>1, <1>3, <2>1
<1>4. CASE \E d \in Decision : Decide(r, d)
  <2>1. PICK d \in Decision : Decide(r, d)
    BY <1>4
  <2>2. r \notin Accepted
    BY <2>1 DEF Decide, Accepted
  <2>3. request' = [request EXCEPT ![r] = Refused("waiting", d)]
    BY <1>3, <2>1 DEF Decide
  <2>4. QED
    BY <1>2, <2>1, <2>2, <2>3, RequestHolds DEF Decide, entry
<1>5. CASE \E d \in Decision :
             DecideConflict(r, d) \/ \E p \in Processes : DecideElsewhere(r, d, p)
  <2>1. PICK d \in Decision, pc \in {"conflict", "unknown"} :
          /\ request[r].pc = "idle"
          /\ request' = [request EXCEPT ![r].pc = pc, ![r].decision = d]
          /\ UNCHANGED <<entry, checkpoint, task, client>>
    BY <1>5 DEF DecideConflict, DecideElsewhere
  <2>2. r \notin Accepted
    BY <2>1 DEF Accepted
  <2>3. request' = [request EXCEPT ![r] = Refused(pc, d)]
    BY <1>3, <2>1
  <2>4. QED
    BY <1>2, <2>1, <2>2, <2>3, RequestHolds DEF entry
<1>6. CASE Answer(r)
  <2>1. request' = [request EXCEPT ![r] =
                      [pc |-> "ok", decision |-> Old.decision, seen |-> snapshot]]
    <3>1. [[request[r] EXCEPT !.pc = "ok"] EXCEPT !.seen = snapshot] =
            [pc |-> "ok", decision |-> Old.decision, seen |-> snapshot]
      <4>1. [request[r] EXCEPT !.pc = "ok"] =
              [pc |-> "ok", decision |-> Old.decision, seen |-> Old.seen]
        BY <1>2
      <4>2. [[pc |-> "ok", decision |-> Old.decision, seen |-> Old.seen]
               EXCEPT !.seen = snapshot] =
              [pc |-> "ok", decision |-> Old.decision, seen |-> snapshot]
        OBVIOUS
      <4>3. QED
        BY <4>1, <4>2
    <3>2. QED
      BY <1>1, <1>6, <3>1 DEF Answer
  <2>2. r \in Accepted /\ Old.decision \in Decision
    BY <1>6 DEF Answer, Accepted, IInv, Carried
  <2>3. QED
    BY <1>1, <1>2, <1>6, <2>1, <2>2, RequestHolds DEF Answer, entry
<1>7. CASE AnswerError(r)
  <2>1. request' = [request EXCEPT ![r] =
                      [pc |-> "error", decision |-> Old.decision, seen |-> Old.seen]]
    <3>1. [request[r] EXCEPT !.pc = "error"] =
            [pc |-> "error", decision |-> Old.decision, seen |-> Old.seen]
      BY <1>2
    <3>2. QED
      BY <1>1, <1>7, <3>1 DEF AnswerError
  <2>2. r \in Accepted /\ Old.decision \in Decision
    BY <1>7 DEF AnswerError, Accepted, IInv, Carried
  <2>3. QED
    BY <1>1, <1>2, <1>7, <2>1, <2>2, RequestHolds DEF AnswerError, entry
<1>8. QED
  BY <1>4, <1>5, <1>6, <1>7 DEF RequestStep
-----------------------------------------------------------------------------
(* The streams read the store and the queue, and decide nothing.           *)
LEMMA QuietHolds ==
  ASSUME IInv, TypeOK',
         UNCHANGED <<home, snapshot, lastStep, checkpoint, task, request>>,
         (queued' = queued /\ timer' = timer) \/ queued' = FALSE
  PROVE  IInv'
<1>1. Unsubmitted' /\ Resumable' /\ Underway'
  BY DEF IInv, Unsubmitted, Resumable, Underway
<1>2. Accepted' = Accepted
  BY DEF Accepted
<1>3. Carried'
  BY <1>2 DEF IInv, Carried
<1>4. QueueReclaimArmed'
  BY DEF IInv, QueueReclaimArmed
<1>5. ExecutionNeedsAcceptedApproval'
  BY <1>2 DEF IInv, ExecutionNeedsAcceptedApproval
<1>6. QED
  BY <1>1, <1>3, <1>4, <1>5 DEF IInv

(* GET /stream: opening, delivering a step, and every way of ending.       *)
LEMMA ClientStepHolds ==
  ASSUME IInv, NEW c \in Clients, ClientStep(c)
  PROVE  IInv'
<1> DEFINE Stream == [pc: {"off", "open"}, got: Seq(Step)]
<1>1. /\ client \in [Clients -> Stream]
      /\ queue \in Seq(Step)
      /\ snapshot \in Step \cup {None}
  BY DEF IInv, TypeOK
<1>2. client[c] \in Stream
  BY <1>1
<1>3. ASSUME NEW v \in Stream, client' = [client EXCEPT ![c] = v],
             UNCHANGED <<entry, checkpoint, task, request>>
      PROVE  IInv'
  <2>1. client' \in [Clients -> Stream]
    BY <1>1, <1>3
  <2>2. TypeOK'
    BY <1>3, <2>1 DEF IInv, TypeOK, entry
  <2>3. QED
    BY <1>3, <2>2, QuietHolds DEF entry
<1>4. CASE Connect(c)
  <2>1. [pc |-> "off", got |-> <<>>] \in Stream /\ [pc |-> "open", got |-> <<>>] \in Stream
    OBVIOUS
  <2>2. ASSUME snapshot \in SSE_CLOSE_STEPS
        PROVE  [pc |-> "off", got |-> <<snapshot>>] \in Stream
    <3>1. snapshot \in Step
      BY <1>1, <2>2, StepValues
    <3>2. <<snapshot>> \in Seq(Step)
      BY <3>1
    <3>3. QED
      BY <3>2
  <2>3. QED
    BY <1>3, <1>4, <2>1, <2>2 DEF Connect
<1>5. CASE Deliver(c)
  <2>1. queue # <<>>
    BY <1>5 DEF Deliver
  <2>2. Head(queue) \in Step /\ Tail(queue) \in Seq(Step)
    BY <1>1, <2>1
  <2>3. Append(client[c].got, Head(queue)) \in Seq(Step)
    BY <1>2, <2>2
  <2> DEFINE v == [pc |-> IF Head(queue) \in SSE_CLOSE_STEPS THEN "off" ELSE "open",
                   got |-> Append(client[c].got, Head(queue))]
  <2>4. v \in Stream
    BY <2>3
  <2>5. client' = [client EXCEPT ![c] = v]
    BY <1>5 DEF Deliver
  <2>6. client' \in [Clients -> Stream]
    BY <1>1, <2>4, <2>5
  <2>7. TypeOK'
    BY <1>5, <2>2, <2>6 DEF Deliver, IInv, TypeOK
  <2>8. QED
    BY <1>5, <2>7, QuietHolds DEF Deliver
<1>6. CASE IdleTimeout(c) \/ Disconnect(c)
  <2>1. /\ client' = [client EXCEPT ![c].pc = "off"]
        /\ UNCHANGED <<entry, checkpoint, task, request>>
    BY <1>6 DEF IdleTimeout, Disconnect
  <2>2. [client[c] EXCEPT !.pc = "off"] \in Stream
    BY <1>2
  <2>3. client' = [client EXCEPT ![c] = [client[c] EXCEPT !.pc = "off"]]
    BY <2>1
  <2>4. QED
    BY <1>3, <2>1, <2>2, <2>3
<1>7. QED
  BY <1>4, <1>5, <1>6 DEF ClientStep

(* The timer takes the queue and itself away together.                     *)
LEMMA CleanupHolds ==
  ASSUME IInv, CleanupFires
  PROVE  IInv'
<1>1. TypeOK'
  BY DEF CleanupFires, IInv, TypeOK
<1>2. QED
  BY <1>1, QuietHolds DEF CleanupFires

(* After a crash the checkpoint is all there is, and it was authorised.    *)
LEMMA CrashHolds ==
  ASSUME IInv, Crash
  PROVE  IInv'
<1> DEFINE Job == [pc: {"none", "created", "running", "done", "failed"},
                   at: Step \cup {None}]
           Handler == [pc: {"idle", "waiting", "ok", "conflict", "unknown", "error"},
                       decision: Decision \cup {None}, seen: Step \cup {None}]
           Stream == [pc: {"off", "open"}, got: Seq(Step)]
<1>1. /\ task \in [Tasks -> Job]
      /\ request \in [Requests -> Handler]
      /\ client \in [Clients -> Stream]
  BY DEF IInv, TypeOK
<1>2. \A t \in Tasks : /\ [task[t] EXCEPT !.pc = "failed"] \in Job
                       /\ [task[t] EXCEPT !.pc = "failed"].pc = "failed"
                       /\ [task[t] EXCEPT !.pc = "failed"].at = task[t].at
  BY <1>1
<1>3. \A r \in Requests :
        /\ [request[r] EXCEPT !.pc = "error"] \in Handler
        /\ [request[r] EXCEPT !.pc = "error"].pc = "error"
        /\ [request[r] EXCEPT !.pc = "error"].decision = request[r].decision
  BY <1>1
<1>4. \A c \in Clients : [client[c] EXCEPT !.pc = "off"] \in Stream
  BY <1>1
<1>5. /\ task' \in [Tasks -> Job]
      /\ request' \in [Requests -> Handler]
      /\ client' \in [Clients -> Stream]
  BY <1>1, <1>2, <1>3, <1>4 DEF Crash
<1>6. \A t \in Tasks : /\ task'[t].at = task[t].at
                       /\ (task'[t].pc = "none") <=> (task[t].pc = "none")
                       /\ task'[t].pc # "running"
  BY <1>2 DEF Crash
<1>7. \A r \in Requests : /\ request'[r].decision = request[r].decision
                          /\ (r \in Accepted') <=> (r \in Accepted)
  BY <1>3 DEF Crash, Accepted
<1> HIDE DEF Job, Handler, Stream
<1>8. TypeOK'
  <2>1. <<>> \in Seq(Step)
    OBVIOUS
  <2>2. QED
    BY <1>5, <2>1 DEF Crash, IInv, TypeOK, Job, Handler, Stream
<1>9. Unsubmitted'
  BY <1>6 DEF Crash, IInv, Unsubmitted, Tasks
<1>10. Resumable'
  BY <1>6 DEF Crash, IInv, Resumable, Tasks
<1>11. Underway'
  <2>1. ASSUME NEW t \in Tasks PROVE task'[t].pc # "running"
    BY <1>6
  <2>2. QED
    BY <2>1 DEF Underway
<1>12. Carried'
  <2>1. ASSUME NEW r \in Requests, task'[r].pc # "none"
        PROVE  r \in Accepted'
    <3>1. task[r].pc # "none"
      BY <1>6, <2>1 DEF Tasks
    <3>2. r \in Accepted
      BY <3>1 DEF IInv, Carried
    <3>3. QED
      BY <1>7, <3>2
  <2>2. ASSUME NEW r \in Accepted'
        PROVE  request'[r].decision \in Decision
    <3>1. r \in Requests
      BY <2>2 DEF Accepted
    <3>2. r \in Accepted
      BY <1>7, <2>2, <3>1
    <3>3. request[r].decision \in Decision
      BY <3>2 DEF IInv, Carried
    <3>4. QED
      BY <1>7, <3>1, <3>3
  <2>3. QED
    BY <2>1, <2>2 DEF Carried
<1>13. QueueReclaimArmed'
  BY DEF Crash, QueueReclaimArmed
<1>14. ExecutionNeedsAcceptedApproval'
  <2>1. Approved => Approved'
    BY <1>7 DEF Approved, Accepted
  <2>2. Positions' \subseteq Positions \cup {None}
    BY <1>6 DEF Positions, Crash
  <2>3. QED
    BY <2>1, <2>2, StepValues, NoNewExecution DEF IInv
<1>15. QED
  BY <1>8, <1>9, <1>10, <1>11, <1>12, <1>13, <1>14 DEF IInv
-----------------------------------------------------------------------------
(* Every step of the API keeps what ties the store, the checkpoint, the    *)
(* tasks and the requests together.                                        *)
THEOREM SessionInvariance == Spec => []IInv
<1>1. IInv /\ [Next]_vars => IInv'
  <2> SUFFICES ASSUME IInv, [Next]_vars
               PROVE  IInv'
    OBVIOUS
  <2>1. CASE \E p \in Processes : Submit(p)
    BY <2>1, SubmitHolds
  <2>2. CASE \E t \in Tasks : TaskStep(t) \/ Fail(t)
    BY <2>2, BeginHolds, AdvanceHolds, EndHolds DEF TaskStep
  <2>3. CASE \E r \in Requests : RequestStep(r)
    BY <2>3, RequestStepHolds
  <2>4. CASE \E c \in Clients : ClientStep(c)
    BY <2>4, ClientStepHolds
  <2>5. CASE CleanupFires
    BY <2>5, CleanupHolds
  <2>6. CASE Crash
    BY <2>6, CrashHolds
  <2>7. CASE UNCHANGED vars
    <3>1. TypeOK'
      BY <2>7 DEF IInv, TypeOK, vars
    <3>2. QED
      BY <2>7, <3>1, QuietHolds DEF vars
  <2>8. QED
    BY <2>1, <2>2, <2>3, <2>4, <2>5, <2>6, <2>7 DEF Next
<1>2. QED
  BY InitHolds, <1>1, PTL DEF Spec

(* The store, its queue, the tasks, the handlers and the streams are never *)
(* outside their types: no handler publishes, answers or resumes from a    *)
(* step the run is not in.                                                 *)
THEOREM SessionTypes == Spec => []TypeOK
<1>1. IInv => TypeOK
  BY DEF IInv
<1>2. QED
  BY SessionInvariance, <1>1, PTL

(* A queue that has been given a closing step always has its cleanup       *)
(* pending: no order of resumes, repetitions and timers leaks one.         *)
THEOREM ReclaimAlwaysArmed == Spec => []QueueReclaimArmed
<1>1. IInv => QueueReclaimArmed
  BY DEF IInv
<1>2. QED
  BY SessionInvariance, <1>1, PTL

(* However many decisions race, time out or die with their process, a run  *)
(* is in its execution phase only if some approval was accepted.           *)
THEOREM ExecutionAuthorised == Spec => []ExecutionNeedsAcceptedApproval
<1>1. IInv => ExecutionNeedsAcceptedApproval
  BY DEF IInv
<1>2. QED
  BY SessionInvariance, <1>1, PTL
-----------------------------------------------------------------------------
(* What holds as long as no two decisions were accepted.  The process that *)
(* lost the run has nothing under way for it; one that has it keeps the    *)
(* snapshot, and the last step of its queue, at the checkpoint; the        *)
(* analysis is ahead of everything until a decision is accepted, and then  *)
(* stands at "decided"; the task of the decision leads from there.         *)
Sole == \A q, r \in Accepted : q = r

Alive ==
  home = None =>
    /\ ~queued
    /\ \A t \in Tasks : task[t].pc \notin {"created", "running"}
    /\ \A r \in Requests : request[r].pc # "waiting"
    /\ \A c \in Clients : client[c].pc # "open"

Synced ==
  home # None =>
    /\ snapshot = IF checkpoint = None THEN "start" ELSE checkpoint
    /\ queued => lastStep = checkpoint

AnalysisLeads ==
  /\ task[Analysis].pc \in {"none", "created"} => checkpoint = None
  /\ Accepted = {} /\ task[Analysis].pc = "running" => task[Analysis].at = checkpoint
  /\ Accepted # {} => task[Analysis].pc \notin {"none", "created"}
  /\ Accepted # {} /\ task[Analysis].pc = "running" => task[Analysis].at = "decided"

(* Where a run can be that has been decided in this way.                   *)
Reach(d) == {"decided"} \cup (IF d = "rejected" THEN {"rejected"} ELSE ExecutionSteps)

DecisionLeads ==
  Sole =>
    \A r \in Accepted :
      /\ checkpoint \in Reach(request[r].decision)
      /\ task[r].pc = "created" => checkpoint = "decided"
      /\ task[r].pc \in {"running", "done"} => task[r].at = checkpoint
      /\ task[r].pc = "done" => checkpoint \in TerminalSteps

Honoured ==
  Sole =>
    \A r \in Requests : request[r].pc = "ok" =>
      request[r].seen \in (IF request[r].decision = "rejected" THEN {"rejected"}
                           ELSE {"completed", "execution_failed"})

DInv ==
  /\ IsFiniteSet(Accepted)
  /\ Alive
  /\ Synced
  /\ AnalysisLeads
  /\ DecisionLeads
  /\ Honoured

(* The moves of the supervisor's table, and of the human at "decided".     *)
Successors(s) == Outcomes[ROUTING[s]]

(* Whom a chunk may come from, and where it takes the checkpoint.          *)
Moves(t, s) ==
  \/ /\ t = Analysis
     /\ Accepted = {}
     /\ IF checkpoint = None THEN s = "start"
        ELSE checkpoint # "decided" /\ s \in Successors(checkpoint)
  \/ /\ t \in Accepted
     /\ Sole => \/ s = checkpoint
                \/ checkpoint = "decided" /\ s = request[t].decision
                \/ checkpoint # "decided" /\ s \in Successors(checkpoint)
-----------------------------------------------------------------------------
(* Cardinality counts what Sole says, since only so many have decided.     *)
LEMMA SoleIsSole ==
  ASSUME IsFiniteSet(Accepted)
  PROVE  SoleDecision <=> Sole
<1>1. ASSUME SoleDecision, NEW q \in Accepted, NEW r \in Accepted
      PROVE  q = r
  <2> SUFFICES ASSUME q # r PROVE FALSE
    OBVIOUS
  <2>1. IsFiniteSet({q}) /\ Cardinality({q}) = 1
    BY FS_Singleton
  <2>2. Cardinality({q} \cup {r}) = 2
    <3>1. Cardinality({q} \cup {r}) = Cardinality({q}) + 1
      BY <2>1, FS_AddElement
    <3>2. QED
      BY <2>1, <3>1
  <2>3. {q} \cup {r} \in SUBSET Accepted
    OBVIOUS
  <2>4. Cardinality({q} \cup {r}) <= Cardinality(Accepted)
    BY <2>3, FS_Subset
  <2>5. Cardinality(Accepted) \in Nat
    BY FS_CardinalityType
  <2>6. QED
    BY <1>1, <2>2, <2>4, <2>5 DEF SoleDecision
<1>2. ASSUME Sole
      PROVE  SoleDecision
  <2>1. CASE Accepted = {}
    BY <2>1, FS_EmptySet DEF SoleDecision
  <2>2. CASE Accepted # {}
    <3>1. PICK r \in Accepted : Accepted = {r}
      BY <1>2, <2>2 DEF Sole
    <3>2. Cardinality(Accepted) = 1
      BY <3>1, FS_Singleton
    <3>3. QED
      BY <3>2 DEF SoleDecision
  <2>3. QED
    BY <2>1, <2>2
<1>3. QED
  BY <1>1, <1>2 DEF Sole

(* A decided run stays where its decision can lead, and ends there.        *)
LEMMA ReachCloses ==
  ASSUME NEW d \in Decision, NEW s \in Reach(d)
  PROVE  /\ s \in Step
         /\ d \in Reach(d)
         /\ s # "decided" => Successors(s) \subseteq Reach(d)
         /\ s \in TerminalSteps =>
              s \in (IF d = "rejected" THEN {"rejected"} ELSE {"completed", "execution_failed"})
  BY DEF Reach, Decision, Successors, Step, Outcomes, ROUTING, ExecutionSteps, TerminalSteps, END

(* A run has nowhere to go exactly at the steps that close it.             *)
LEMMA TerminalEnds ==
  ASSUME NEW s \in Step
  PROVE  /\ Successors(s) = {} <=> s \in TerminalSteps
         /\ Successors(s) \subseteq Step
         /\ Successors("decided") = Decision
  BY DEF Successors, Step, Outcomes, ROUTING, TerminalSteps, END, Decision
-----------------------------------------------------------------------------
(* A chunk comes from the analysis before a decision, from the task of a   *)
(* decision after one, and moves the run along the table.                  *)
Chunk(t, s) ==
  /\ task[t].pc \in {"created", "running"}
  /\ task' = [task EXCEPT ![t] = [pc |-> "running", at |-> s]]
  /\ checkpoint' = s
  /\ Update(s)
  /\ UNCHANGED <<request, client>>

(* The first chunk of a task is a chunk of the run.                        *)
LEMMA BeginIsChunk ==
  ASSUME IInv, DInv, NEW t \in Tasks, Begin(t)
  PROVE  \E s \in Step : Chunk(t, s) /\ Moves(t, s)
<1>1. task[t].pc = "created" /\ Chunk(t, checkpoint')
  BY DEF Begin, Chunk
<1>2. CASE t = Analysis
  <2>1. checkpoint = None /\ Accepted = {}
    BY <1>1, <1>2 DEF DInv, AnalysisLeads
  <2>2. checkpoint' = "start" /\ "start" \in Step
    BY <1>2, StepValues DEF Begin
  <2>3. QED
    BY <1>1, <1>2, <2>1, <2>2 DEF Moves
<1>3. CASE t # Analysis
  <2>1. t \in Requests /\ t \in Accepted
    BY <1>1, <1>3 DEF Tasks, IInv, Carried
  <2>2. checkpoint' = checkpoint /\ checkpoint \in Step
    BY <1>1, <1>3, <2>1 DEF Begin, IInv, Resumable, TypeOK
  <2>3. QED
    BY <1>1, <2>1, <2>2 DEF Moves
<1>4. QED
  BY <1>2, <1>3

(* So is every later one, from where the task stands.                      *)
LEMMA AdvanceIsChunk ==
  ASSUME IInv, DInv, NEW t \in Tasks, Advance(t)
  PROVE  \E s \in Step : Chunk(t, s) /\ Moves(t, s)
<1>1. PICK s \in NextSteps(t) :
         /\ task' = [task EXCEPT ![t].at = s]
         /\ checkpoint' = s
         /\ Update(s)
  BY DEF Advance
<1>2. task[t].pc = "running" /\ task[t].at \in Step
  BY DEF Advance, IInv, Underway
<1>3. Chunk(t, s)
  <2>1. task[t] \in [pc: {"none", "created", "running", "done", "failed"},
                     at: Step \cup {None}]
    BY DEF IInv, TypeOK
  <2>2. [task[t] EXCEPT !.at = s] = [pc |-> "running", at |-> s]
    BY <1>2, <2>1
  <2>3. task' = [task EXCEPT ![t] = [pc |-> "running", at |-> s]]
    BY <1>1, <2>2
  <2>4. QED
    BY <1>1, <1>2, <2>3 DEF Advance, Chunk
<1>4. task[t].at # "decided" => s \in Successors(task[t].at)
  BY <1>1 DEF NextSteps, Successors
<1>5. CASE t = Analysis
  <2>1. task[t].at # "decided"
    BY <1>1, <1>5 DEF NextSteps
  <2>2. Accepted = {} /\ task[t].at = checkpoint
    BY <1>2, <1>5, <2>1 DEF DInv, AnalysisLeads
  <2>3. s \in Successors(checkpoint) /\ s \in Step /\ checkpoint # None
    BY <1>2, <1>4, <2>1, <2>2, TerminalEnds, StepValues
  <2>4. QED
    BY <1>3, <1>5, <2>1, <2>2, <2>3 DEF Moves
<1>6. CASE t # Analysis
  <2>1. t \in Requests /\ t \in Accepted /\ request[t].decision \in Decision
    BY <1>2, <1>6 DEF Tasks, IInv, Carried
  <2>2. task[t].at = "decided" => s = request[t].decision
    BY <1>1, <1>6 DEF NextSteps
  <2>3. s \in Step
    BY <1>2, <1>4, <2>1, <2>2, TerminalEnds, StepValues
  <2>4. Sole => task[t].at = checkpoint
    BY <1>2, <2>1 DEF DInv, DecisionLeads
  <2>5. QED
    BY <1>3, <1>4, <2>1, <2>2, <2>3, <2>4 DEF Moves
<1>7. QED
  BY <1>5, <1>6

(* What a chunk does to the entry, repeated or not.                        *)
LEMMA ChunkEntry ==
  ASSUME IInv, DInv, NEW t \in Tasks, NEW s \in Step, Chunk(t, s)
  PROVE  /\ home # None /\ home' = home
         /\ snapshot' = s /\ checkpoint' = s
         /\ queued' = queued
         /\ queued => lastStep' = s
         /\ task'[t] = [pc |-> "running", at |-> s]
         /\ \A u \in Tasks : u # t => task'[u] = task[u]
         /\ Accepted' = Accepted
<1>1. home # None
  BY DEF DInv, Alive, Chunk
<1>2. Accepted' = Accepted
  BY DEF Chunk, Accepted
<1>3. task'[t] = [pc |-> "running", at |-> s] /\ \A u \in Tasks : u # t => task'[u] = task[u]
  BY DEF Chunk, IInv, TypeOK
<1>4. QED
  BY <1>1, <1>2, <1>3 DEF Chunk, Update

(* A chunk takes checkpoint, entry and task to one step, and keeps a       *)
(* decision within its reach.                                              *)
LEMMA ChunkLeads ==
  ASSUME IInv, DInv, NEW t \in Tasks, NEW s \in Step, Chunk(t, s), Moves(t, s)
  PROVE  DInv'
<1>1. /\ home # None /\ home' = home
      /\ snapshot' = s /\ checkpoint' = s
      /\ queued => lastStep' = s
      /\ queued' = queued
      /\ task'[t] = [pc |-> "running", at |-> s]
      /\ \A u \in Tasks : u # t => task'[u] = task[u]
      /\ Accepted' = Accepted /\ request' = request
  BY ChunkEntry DEF Chunk
<1>2. IsFiniteSet(Accepted')
  BY <1>1 DEF DInv
<1>3. Alive'
  BY <1>1 DEF Alive
<1>4. Synced'
  BY <1>1, StepValues DEF Synced
<1>5. AnalysisLeads'
  <2>1. CASE t = Analysis
    BY <1>1, <2>1, ConstantsDiffer DEF AnalysisLeads, Moves, Accepted
  <2>2. CASE t # Analysis
    <3>1. t \in Accepted
      BY <2>2 DEF Moves
    <3>2. task'[Analysis] = task[Analysis]
      BY <1>1, <2>2 DEF Tasks
    <3>3. QED
      BY <1>1, <3>1, <3>2 DEF DInv, AnalysisLeads
  <2>3. QED
    BY <2>1, <2>2
<1>6. DecisionLeads'
  <2> SUFFICES ASSUME Sole', NEW r \in Accepted
               PROVE  /\ s \in Reach(request[r].decision)
                      /\ task'[r].pc = "running" /\ task'[r].at = s
    BY <1>1 DEF DecisionLeads
  <2>1. r = t /\ r \in Requests /\ request[r].decision \in Decision /\ Sole
    BY <1>1 DEF Sole, Moves, IInv, Carried, Accepted
  <2>2. checkpoint \in Reach(request[r].decision)
    BY <2>1 DEF DInv, DecisionLeads
  <2>3. s \in Reach(request[r].decision)
    BY <2>1, <2>2, ReachCloses DEF Moves
  <2>4. QED
    BY <1>1, <2>1, <2>3
<1>7. Honoured'
  BY <1>1 DEF DInv, Honoured, Sole
<1>8. QED
  BY <1>2, <1>3, <1>4, <1>5, <1>6, <1>7 DEF DInv

(* Submission is the first thing that happens to a run.                    *)
LEMMA SubmitLeads ==
  ASSUME IInv, DInv, NEW p \in Processes, Submit(p)
  PROVE  DInv'
<1>1. /\ task'[Analysis].pc = "created"
      /\ \A r \in Requests : task'[r] = task[r]
      /\ Accepted' = Accepted
  BY ConstantsDiffer DEF IInv, TypeOK, Submit, Tasks, Accepted
<1>2. /\ checkpoint = None
      /\ Accepted = {}
      /\ home = None
      /\ lastStep = None
  BY DEF Submit, IInv, Unsubmitted, DInv, AnalysisLeads
<1>3. IsFiniteSet(Accepted')
  BY <1>1 DEF DInv
<1>4. Alive' /\ Synced'
  BY <1>2, ConstantsDiffer DEF Alive, Synced, Submit
<1>5. AnalysisLeads' /\ DecisionLeads'
  BY <1>1, <1>2 DEF AnalysisLeads, DecisionLeads, Submit
<1>6. Honoured'
  BY <1>1 DEF DInv, Honoured, Sole, Submit
<1>7. QED
  BY <1>3, <1>4, <1>5, <1>6 DEF DInv

(* A task that returns has nowhere to go from where it stands.             *)
LEMMA EndLeads ==
  ASSUME IInv, DInv, NEW t \in Tasks, Finish(t) \/ Fail(t)
  PROVE  DInv'
<1>1. /\ UNCHANGED <<entry, checkpoint, request, client>>
      /\ task[t].pc \in {"created", "running"}
      /\ \E p \in {"done", "failed"} : task' = [task EXCEPT ![t].pc = p]
  BY DEF Finish, Fail
<1>2. /\ task'[t].pc \in {"done", "failed"}
      /\ \A u \in Tasks : task'[u].at = task[u].at
      /\ \A u \in Tasks : u # t => task'[u].pc = task[u].pc
  <2>1. PICK p \in {"done", "failed"} : task' = [task EXCEPT ![t].pc = p]
    BY <1>1
  <2>2. task \in [Tasks ->
          [pc: {"none", "created", "running", "done", "failed"}, at: Step \cup {None}]]
    BY DEF IInv, TypeOK
  <2>3. QED
    BY <2>1, <2>2, PcChange
<1>3. task'[t].pc = "done" => task[t].pc = "running" /\ NextSteps(t) = {}
  <2>1. CASE Finish(t)
    BY <2>1 DEF Finish
  <2>2. CASE Fail(t)
    BY <2>2 DEF Fail, IInv, TypeOK
  <2>3. QED
    BY <2>1, <2>2
<1>4. Accepted' = Accepted /\ request' = request
  BY <1>1 DEF Accepted
<1>5. IsFiniteSet(Accepted')
  BY <1>4 DEF DInv
<1>6. Alive'
  BY <1>1, <1>2 DEF DInv, Alive, entry
<1>7. Synced'
  BY <1>1 DEF DInv, Synced, entry
<1>8. AnalysisLeads'
  <2>1. Analysis \in Tasks
    BY DEF Tasks
  <2>2. QED
    BY <1>1, <1>2, <1>4, <2>1 DEF DInv, AnalysisLeads
<1>9. DecisionLeads'
  <2> SUFFICES ASSUME Sole, NEW r \in Accepted
               PROVE  /\ task'[r].pc = "created" => task[r].pc = "created"
                      /\ task'[r].pc \in {"running", "done"} => task[r].at = checkpoint
                      /\ task'[r].pc = "done" => checkpoint \in TerminalSteps
    <3>1. \A r \in Accepted : r \in Tasks
      BY DEF Accepted, Tasks
    <3>2. Sole' => Sole
      BY <1>4 DEF Sole
    <3>3. QED
      BY <1>1, <1>2, <1>4, <3>1, <3>2 DEF DInv, DecisionLeads
  <2>1. r \in Tasks /\ r \in Requests /\ r # Analysis /\ request[r].decision \in Decision
    BY ConstantsDiffer DEF Accepted, Tasks, IInv, Carried
  <2>2. CASE r # t
    BY <1>2, <2>1, <2>2 DEF DInv, DecisionLeads
  <2>3. CASE r = t
    <3>1. task'[r].pc = "done" => checkpoint \in TerminalSteps
      <4> SUFFICES ASSUME task'[r].pc = "done"
                   PROVE  checkpoint \in TerminalSteps
        OBVIOUS
      <4>1. task[r].pc = "running" /\ NextSteps(r) = {} /\ task[r].at \in Step
        BY <1>3, <2>1, <2>3 DEF IInv, Underway
      <4>2. task[r].at # "decided" /\ Successors(task[r].at) = {}
        BY <2>1, <4>1 DEF NextSteps, Successors
      <4>3. task[r].at = checkpoint
        BY <4>1 DEF DInv, DecisionLeads
      <4>4. QED
        BY <4>1, <4>2, <4>3, TerminalEnds
    <3>2. task'[r].pc = "done" => task[r].at = checkpoint
      BY <1>3, <2>3 DEF DInv, DecisionLeads
    <3>3. QED
      BY <1>2, <2>3, <3>1, <3>2
  <2>4. QED
    BY <2>2, <2>3
<1>10. Honoured'
  BY <1>4 DEF DInv, Honoured, Sole
<1>11. QED
  BY <1>5, <1>6, <1>7, <1>8, <1>9, <1>10 DEF DInv

(* A decision is accepted at "decided", by everything that has the run.    *)
LEMMA DecideLeads ==
  ASSUME IInv, DInv, NEW r \in Requests, NEW d \in Decision, Decide(r, d)
  PROVE  DInv'
<1>1. /\ r \notin Accepted
      /\ home # None /\ snapshot = "decided"
      /\ UNCHANGED <<entry, checkpoint, client>>
  BY DEF Decide, Accepted, ApprovableSteps
<1>2. /\ request'[r].pc = "waiting" /\ request'[r].decision = d
      /\ \A q \in Requests : q # r => request'[q] = request[q]
  <2>1. request[r] \in [pc: {"idle", "waiting", "ok", "conflict", "unknown", "error"},
                        decision: Decision \cup {None}, seen: Step \cup {None}]
    BY DEF IInv, TypeOK
  <2>2. request' = [request EXCEPT ![r] =
                      [[request[r] EXCEPT !.pc = "waiting"] EXCEPT !.decision = d]]
    BY DEF Decide, IInv, TypeOK
  <2>3. [request[r] EXCEPT !.pc = "waiting"] =
          [pc |-> "waiting", decision |-> request[r].decision, seen |-> request[r].seen]
    BY <2>1
  <2>4. [[pc |-> "waiting", decision |-> request[r].decision, seen |-> request[r].seen]
           EXCEPT !.decision = d] = [pc |-> "waiting", decision |-> d, seen |-> request[r].seen]
    OBVIOUS
  <2>5. request' = [request EXCEPT ![r] = [pc |-> "waiting", decision |-> d, seen |-> request[r].seen]]
    BY <2>2, <2>3, <2>4
  <2>6. QED
    BY <2>5 DEF IInv, TypeOK
<1>3. Accepted' = Accepted \cup {r}
  BY <1>2 DEF Accepted
<1>4. checkpoint = "decided"
  BY <1>1 DEF DInv, Synced
<1>5. /\ task'[r].pc = "created"
      /\ \A u \in Tasks : u # r => task'[u] = task[u]
  BY DEF Decide, IInv, TypeOK, Tasks
<1>6. IsFiniteSet(Accepted')
  BY <1>3, FS_AddElement DEF DInv
<1>7. Alive' /\ Synced'
  BY <1>1 DEF DInv, Alive, Synced, entry
<1>8. AnalysisLeads'
  <2>1. task'[Analysis] = task[Analysis]
    BY <1>5, ConstantsDiffer DEF Tasks
  <2>2. task[Analysis].pc \notin {"none", "created"}
    BY <1>4, StepValues DEF DInv, AnalysisLeads
  <2>3. task[Analysis].pc = "running" => task[Analysis].at = "decided"
    BY <1>4 DEF DInv, AnalysisLeads
  <2>4. QED
    BY <1>3, <2>1, <2>2, <2>3 DEF AnalysisLeads
<1>9. Sole' => Accepted' = {r}
  BY <1>3 DEF Sole
<1>10. DecisionLeads'
  BY <1>1, <1>2, <1>4, <1>5, <1>9 DEF DecisionLeads, Reach
<1>11. Honoured'
  <2> SUFFICES ASSUME Sole', NEW q \in Requests, request'[q].pc = "ok" PROVE FALSE
    BY DEF Honoured
  <2>1. q # r /\ q \in Accepted
    BY <1>2 DEF Accepted
  <2>2. QED
    BY <1>3, <1>9, <2>1
<1>12. QED
  BY <1>6, <1>7, <1>8, <1>10, <1>11 DEF DInv

(* The other handlers accept nothing; an answer is what its task led to.   *)
LEMMA HandlerLeads ==
  ASSUME IInv, DInv, NEW r \in Requests,
         NEW v \in [pc: {"ok", "conflict", "unknown", "error"},
                    decision: Decision \cup {None}, seen: Step \cup {None}],
         request' = [request EXCEPT ![r] = v],
         UNCHANGED <<entry, checkpoint, task, client>>,
         IF v.pc \in {"ok", "error"}
         THEN request[r].pc = "waiting" /\ v.decision = request[r].decision
         ELSE request[r].pc = "idle",
         v.pc = "ok" => task[r].pc = "done" /\ v.seen = snapshot
  PROVE  DInv'
<1>1. request'[r] = v /\ \A q \in Requests : q # r => request'[q] = request[q]
  BY DEF IInv, TypeOK
<1>2. Accepted' = Accepted
  BY <1>1 DEF Accepted
<1>3. \A q \in Accepted : request'[q].decision = request[q].decision
  BY <1>1 DEF Accepted
<1>4. IsFiniteSet(Accepted') /\ Synced' /\ AnalysisLeads'
  BY <1>2 DEF DInv, Synced, AnalysisLeads, entry
<1>5. Alive'
  BY <1>1 DEF DInv, Alive, entry
<1>6. DecisionLeads'
  BY <1>2, <1>3 DEF DInv, DecisionLeads, Sole
<1>7. Honoured'
  <2> SUFFICES ASSUME Sole, v.pc = "ok"
               PROVE  v.seen \in (IF v.decision = "rejected" THEN {"rejected"}
                                  ELSE {"completed", "execution_failed"})
    BY <1>1, <1>2 DEF DInv, Honoured, Sole
  <2>1. r \in Accepted /\ v.decision \in Decision
    BY DEF Accepted, IInv, Carried
  <2>2. checkpoint \in Reach(v.decision) /\ checkpoint \in TerminalSteps
    BY <2>1 DEF DInv, DecisionLeads
  <2>3. checkpoint # None
    BY <2>1, <2>2, ReachCloses, StepValues
  <2>4. v.seen = checkpoint
    BY <2>3 DEF DInv, Alive, Synced
  <2>5. QED
    BY <2>1, <2>2, <2>4, ReachCloses
<1>8. QED
  BY <1>4, <1>5, <1>6, <1>7 DEF DInv

(* Every handler is one of the two kinds.                                  *)
LEMMA RequestStepLeads ==
  ASSUME IInv, DInv, NEW r \in Requests, RequestStep(r)
  PROVE  DInv'
<1> DEFINE Old == request[r]
<1>1. /\ Old \in [pc: {"idle", "waiting", "ok", "conflict", "unknown", "error"},
                   decision: Decision \cup {None}, seen: Step \cup {None}]
      /\ request \in [Requests ->
           [pc: {"idle", "waiting", "ok", "conflict", "unknown", "error"},
            decision: Decision \cup {None}, seen: Step \cup {None}]]
      /\ snapshot \in Step \cup {None}
  BY DEF IInv, TypeOK
<1>2. ASSUME NEW pc PROVE [Old EXCEPT !.pc = pc] = [pc |-> pc, decision |-> Old.decision, seen |-> Old.seen]
  BY <1>1
<1>3. CASE \E d \in Decision : Decide(r, d)
  BY <1>3, DecideLeads
<1>4. CASE \E d \in Decision :
             DecideConflict(r, d) \/ \E p \in Processes : DecideElsewhere(r, d, p)
  <2>1. PICK d \in Decision, pc \in {"conflict", "unknown"} :
          /\ request[r].pc = "idle"
          /\ request' = [request EXCEPT ![r].pc = pc, ![r].decision = d]
          /\ UNCHANGED <<entry, checkpoint, task, client>>
    BY <1>4 DEF DecideConflict, DecideElsewhere
  <2> DEFINE v == [pc |-> pc, decision |-> d, seen |-> Old.seen]
  <2>2. [[Old EXCEPT !.pc = pc] EXCEPT !.decision = d] = v
    <3>1. [Old EXCEPT !.pc = pc] = [pc |-> pc, decision |-> Old.decision, seen |-> Old.seen]
      BY <1>2
    <3>2. [[pc |-> pc, decision |-> Old.decision, seen |-> Old.seen] EXCEPT !.decision = d] = v
      OBVIOUS
    <3>3. QED
      BY <3>1, <3>2
  <2>3. request' = [request EXCEPT ![r] = v]
    BY <1>1, <2>1, <2>2
  <2>4. v \in [pc: {"ok", "conflict", "unknown", "error"},
               decision: Decision \cup {None}, seen: Step \cup {None}]
    BY <1>1
  <2>5. QED
    BY <2>1, <2>3, <2>4, HandlerLeads
<1>5. CASE Answer(r)
  <2> DEFINE v == [pc |-> "ok", decision |-> Old.decision, seen |-> snapshot]
  <2>1. [[Old EXCEPT !.pc = "ok"] EXCEPT !.seen = snapshot] = v
    <3>1. [Old EXCEPT !.pc = "ok"] = [pc |-> "ok", decision |-> Old.decision, seen |-> Old.seen]
      BY <1>2
    <3>2. [[pc |-> "ok", decision |-> Old.decision, seen |-> Old.seen] EXCEPT !.seen = snapshot] = v
      OBVIOUS
    <3>3. QED
      BY <3>1, <3>2
  <2>2. request' = [request EXCEPT ![r] = v]
    BY <1>1, <1>5, <2>1 DEF Answer
  <2>3. v \in [pc: {"ok", "conflict", "unknown", "error"},
               decision: Decision \cup {None}, seen: Step \cup {None}]
    BY <1>1
  <2>4. QED
    BY <1>5, <2>2, <2>3, HandlerLeads DEF Answer
<1>6. CASE AnswerError(r)
  <2> DEFINE v == [pc |-> "error", decision |-> Old.decision, seen |-> Old.seen]
  <2>1. request' = [request EXCEPT ![r] = v]
    BY <1>2, <1>6 DEF AnswerError
  <2>2. v \in [pc: {"ok", "conflict", "unknown", "error"},
               decision: Decision \cup {None}, seen: Step \cup {None}]
    BY <1>1
  <2>3. QED
    BY <1>6, <2>1, <2>2, HandlerLeads DEF AnswerError
<1>7. QED
  BY <1>3, <1>4, <1>5, <1>6 DEF RequestStep

(* Streams need a store to connect to, and change nothing in it.           *)
LEMMA ClientStepLeads ==
  ASSUME IInv, DInv, NEW c \in Clients, ClientStep(c)
  PROVE  DInv'
<1>1. UNCHANGED <<home, snapshot, lastStep, queued, checkpoint, task, request>>
  BY DEF ClientStep, Connect, Deliver, IdleTimeout, Disconnect, entry
<1>2. home # None
  BY DEF DInv, Alive, ClientStep, Connect, Deliver, IdleTimeout, Disconnect
<1>3. Accepted' = Accepted
  BY <1>1 DEF Accepted
<1>4. QED
  BY <1>1, <1>2, <1>3 DEF DInv, Alive, Synced, AnalysisLeads, DecisionLeads, Honoured, Sole

(* The cleanup only takes the queue away.                                  *)
LEMMA CleanupLeads ==
  ASSUME IInv, DInv, CleanupFires
  PROVE  DInv'
<1>1. Accepted' = Accepted
  BY DEF CleanupFires, Accepted
<1>2. QED
  BY <1>1
     DEF CleanupFires, DInv, Alive, Synced, AnalysisLeads, DecisionLeads, Honoured, Sole

(* What a crash leaves of a decision is its outcome and its checkpoint.    *)
LEMMA CrashLeads ==
  ASSUME IInv, DInv, Crash
  PROVE  DInv'
<1>1. /\ task \in [Tasks ->
           [pc: {"none", "created", "running", "done", "failed"}, at: Step \cup {None}]]
      /\ request \in [Requests ->
           [pc: {"idle", "waiting", "ok", "conflict", "unknown", "error"},
            decision: Decision \cup {None}, seen: Step \cup {None}]]
      /\ client \in [Clients -> [pc: {"off", "open"}, got: Seq(Step)]]
  BY DEF IInv, TypeOK
<1>2. \A t \in Tasks :
        /\ task'[t].at = task[t].at
        /\ task'[t].pc = IF task[t].pc \in {"created", "running"} THEN "failed" ELSE task[t].pc
  BY <1>1 DEF Crash
<1>3. \A r \in Requests :
        /\ request'[r].decision = request[r].decision
        /\ request'[r].seen = request[r].seen
        /\ request'[r].pc = IF request[r].pc = "waiting" THEN "error" ELSE request[r].pc
  BY <1>1 DEF Crash
<1>4. \A c \in Clients : client'[c].pc = "off"
  BY <1>1 DEF Crash
<1>5. Accepted' = Accepted
  BY <1>3 DEF Accepted
<1>6. IsFiniteSet(Accepted')
  BY <1>5 DEF DInv
<1>7. Alive' /\ Synced'
  BY <1>2, <1>3, <1>4 DEF Alive, Synced, Crash
<1>8. AnalysisLeads'
  BY <1>2, <1>5 DEF DInv, AnalysisLeads, Crash, Tasks
<1>9. DecisionLeads'
  <2>1. \A r \in Accepted : r \in Requests /\ r \in Tasks
    BY DEF Accepted, Tasks
  <2>2. QED
    BY <1>2, <1>3, <1>5, <2>1 DEF DInv, DecisionLeads, Sole, Crash
<1>10. Honoured'
  BY <1>3, <1>5 DEF DInv, Honoured, Sole
<1>11. QED
  BY <1>6, <1>7, <1>8, <1>9, <1>10 DEF DInv

(* Nothing is submitted, let alone decided.                                *)
LEMMA InitLeads == Init => DInv
<1> SUFFICES ASSUME Init PROVE DInv
  OBVIOUS
<1>1. Accepted = {}
  BY DEF Init, Accepted
<1>2. IsFiniteSet(Accepted)
  BY <1>1, FS_EmptySet
<1>3. QED
  BY <1>1, <1>2
     DEF Init, DInv, Alive, Synced, AnalysisLeads, DecisionLeads, Honoured, Tasks

(* Every step of the API keeps the decision and what it leads to.          *)
LEMMA StepLeads ==
  ASSUME IInv, DInv, [Next]_vars
  PROVE  DInv'
<1>1. CASE \E p \in Processes : Submit(p)
  BY <1>1, SubmitLeads
<1>2. CASE \E t \in Tasks : TaskStep(t) \/ Fail(t)
  BY <1>2, BeginIsChunk, AdvanceIsChunk, ChunkLeads, EndLeads DEF TaskStep
<1>3. CASE \E r \in Requests : RequestStep(r)
  BY <1>3, RequestStepLeads
<1>4. CASE \E c \in Clients : ClientStep(c)
  BY <1>4, ClientStepLeads
<1>5. CASE CleanupFires
  BY <1>5, CleanupLeads
<1>6. CASE Crash
  BY <1>6, CrashLeads
<1>7. CASE UNCHANGED vars
  <2>1. Accepted' = Accepted
    BY <1>7 DEF Accepted, vars
  <2>2. QED
    BY <1>7, <2>1
       DEF vars, DInv, Alive, Synced, AnalysisLeads, DecisionLeads, Honoured, Sole
<1>8. QED
  BY <1>1, <1>2, <1>3, <1>4, <1>5, <1>6, <1>7 DEF Next

(* The analysis, the checkpoint, the entry and the task of a lone decision *)
(* keep together, through failures, timeouts and the death of the process. *)
THEOREM DecisionInvariance == Spec => []DInv
<1>1. IInv /\ DInv /\ [Next]_vars => DInv'
  BY StepLeads
<1>2. QED
  BY SessionInvariance, InitLeads, <1>1, PTL DEF Spec

(* Whoever decides alone gets the outcome of that decision: a 200 of       *)
(* /reject says "rejected", one of /approve that the execution ended.      *)
THEOREM LoneDecisionHonoured == Spec => []SoleDecisionHonoured
<1>1. DInv => SoleDecisionHonoured
  BY SoleIsSole DEF DInv, Honoured, SoleDecisionHonoured
<1>2. QED
  BY DecisionInvariance, <1>1, PTL
-----------------------------------------------------------------------------
(* The snapshot as a run of the abstract workflow.                         *)
LEMMA SameTables ==
  W!ROUTING = ROUTING /\ W!Outcomes = Outcomes /\ W!Decision = Decision
  BY DEF W!ROUTING, ROUTING, W!Outcomes, Outcomes, W!Decision, Decision, W!END, END

(* A move along the table, seen through the mapping: the machine's own     *)
(* from any step but "decided", the human's from there.                    *)
LEMMA MoveIsWorkflowStep ==
  ASSUME snapshot \in Step, snapshot' \in Successors(snapshot)
  PROVE  W!Next
<1>1. CASE snapshot = "decided"
  <2>1. snapshot' \in Decision
    BY <1>1, TerminalEnds
  <2>2. W!Resume(snapshot')
    BY <1>1, <2>1 DEF W!Resume, Decision, ExecutionSteps
  <2>3. QED
    BY <2>1, <2>2, SameTables DEF W!Next
<1>2. CASE snapshot # "decided"
  <2>1. /\ snapshot' \in ExecutionSteps <=> snapshot \in ExecutionSteps
        /\ snapshot' # "rejected" /\ snapshot # "rejected"
        /\ snapshot' \in {"executed", "completed"} <=>
             snapshot \in {"executed", "completed"} \/ snapshot' = "executed"
    BY <1>2 DEF Successors, Step, Outcomes, ROUTING, ExecutionSteps, Decision, END
  <2>2. W!Advance
    BY <1>2, <2>1, SameTables DEF W!Advance, Successors
  <2>3. QED
    BY <2>2 DEF W!Next
<1>3. QED
  BY <1>1, <1>2

(* With one decision every chunk repeats the snapshot or moves it.         *)
LEMMA ChunkMovesSnapshot ==
  ASSUME IInv, DInv, Sole, NEW t \in Tasks, NEW s \in Step, Chunk(t, s), Moves(t, s)
  PROVE  /\ snapshot \in Step
         /\ s = snapshot \/ s \in Successors(snapshot)
         /\ checkpoint # None => snapshot = checkpoint
<1>1. home # None
  BY ChunkEntry
<1>2. snapshot = IF checkpoint = None THEN "start" ELSE checkpoint
  BY <1>1 DEF DInv, Synced
<1>3. snapshot \in Step
  BY <1>2, StepValues DEF IInv, TypeOK
<1>4. ASSUME t \in Accepted
      PROVE  s = checkpoint \/ s \in Successors(checkpoint)
  <2>1. request[t].decision \in Successors("decided")
    BY <1>4, TerminalEnds, StepValues DEF IInv, Carried
  <2>2. QED
    BY <1>4, <2>1, ConstantsDiffer DEF Moves, Accepted
<1>5. ASSUME t \notin Accepted
      PROVE  s = snapshot \/ s \in Successors(snapshot)
  BY <1>2, <1>5 DEF Moves
<1>6. checkpoint = None => Accepted = {}
  BY StepValues, ReachCloses DEF DInv, DecisionLeads, IInv, Carried
<1>7. QED
  BY <1>2, <1>3, <1>4, <1>5, <1>6

(* Only a chunk, a submission and a crash change the snapshot.             *)
LEMMA SnapshotSteps ==
  ASSUME IInv, DInv, [Next]_vars, home # None, home' # None, snapshot' # snapshot
  PROVE  \E t \in Tasks : \E s \in Step : Chunk(t, s) /\ Moves(t, s)
<1>1. CASE \E p \in Processes : Submit(p)
  BY <1>1 DEF Submit, IInv, Unsubmitted
<1>2. CASE \E t \in Tasks : TaskStep(t) \/ Fail(t)
  <2>1. PICK t \in Tasks : TaskStep(t) \/ Fail(t)
    BY <1>2
  <2>2. Begin(t) \/ Advance(t)
    BY <2>1 DEF TaskStep, Finish, Fail, entry
  <2>3. QED
    BY <2>2, BeginIsChunk, AdvanceIsChunk
<1>3. CASE \E r \in Requests : RequestStep(r)
  BY <1>3 DEF RequestStep, Decide, DecideConflict, DecideElsewhere, Answer, AnswerError, entry
<1>4. CASE \E c \in Clients : ClientStep(c)
  BY <1>4 DEF ClientStep, Connect, Deliver, IdleTimeout, Disconnect, entry
<1>5. CASE CleanupFires \/ Crash \/ UNCHANGED vars
  BY <1>5 DEF CleanupFires, Crash, vars
<1>6. QED
  BY <1>1, <1>2, <1>3, <1>4, <1>5 DEF Next

(* The store implements the workflow: with one decision, however resumes   *)
(* repeat steps and tasks and answers are lost, the snapshot of a process  *)
(* that has the run moves along the routing table and nowhere else.        *)
THEOREM SnapshotIsAWorkflow == Spec => SoleDecisionFollowsWorkflow
<1>1. IInv /\ DInv /\ DInv' /\ [Next]_vars =>
        (home # None /\ home' # None /\ SoleDecision' => [W!Next]_(W!vars))
  <2> SUFFICES ASSUME IInv, DInv, DInv', [Next]_vars,
                      home # None, home' # None, SoleDecision', snapshot' # snapshot
               PROVE  W!Next
    BY DEF W!vars
  <2>1. PICK t \in Tasks, s \in Step : Chunk(t, s) /\ Moves(t, s)
    BY SnapshotSteps
  <2>2. Accepted' = Accepted /\ snapshot' = s
    BY <2>1, ChunkEntry
  <2>3. Sole
    BY <2>2, SoleIsSole DEF DInv, SoleDecision
  <2>4. snapshot \in Step /\ s \in Successors(snapshot)
    BY <2>1, <2>2, <2>3, ChunkMovesSnapshot
  <2>5. QED
    BY <2>2, <2>4, MoveIsWorkflowStep
<1>2. QED
  BY SessionInvariance, DecisionInvariance, <1>1, PTL DEF Spec, SoleDecisionFollowsWorkflow
-----------------------------------------------------------------------------
(* The streams, as long as the run has one of them: several share a queue, *)
(* and what one takes another never sees.                                  *)
OneStream == \A b, c \in Clients : b = c

Contiguous(s) == \A i \in 1..(Len(s) - 1) : s[i + 1] \in Successors(s[i])

(* What waits in the queue continues what the open stream has been sent,   *)
(* and ends where store.update compares the next chunk with.               *)
Flow ==
  Sole =>
    /\ Contiguous(queue)
    /\ queue # <<>> => queue[Len(queue)] = lastStep
    /\ \A c \in Clients :
         /\ Contiguous(client[c].got)
         /\ client[c].pc = "open" /\ client[c].got # <<>> =>
              IF queue = <<>>
              THEN client[c].got[Len(client[c].got)] = lastStep
              ELSE Head(queue) \in Successors(client[c].got[Len(client[c].got)])

FInv == OpenStreamWillClose /\ Flow

(* A stretch of the routing is extended by a move from where it ends.      *)
LEMMA ContiguousAppend ==
  ASSUME NEW s \in Seq(Step), NEW x \in Step, Contiguous(s),
         s # <<>> => x \in Successors(s[Len(s)])
  PROVE  /\ Contiguous(Append(s, x))
         /\ Append(s, x) # <<>>
         /\ Append(s, x)[Len(Append(s, x))] = x
         /\ Head(Append(s, x)) = IF s = <<>> THEN x ELSE Head(s)
<1>1. /\ Len(Append(s, x)) = Len(s) + 1
      /\ \A i \in 1..Len(s) : Append(s, x)[i] = s[i]
      /\ Append(s, x)[Len(s) + 1] = x
      /\ Len(s) \in Nat
  OBVIOUS
<1>2. ASSUME NEW i \in 1..(Len(Append(s, x)) - 1)
      PROVE  Append(s, x)[i + 1] \in Successors(Append(s, x)[i])
  <2>1. CASE i = Len(s)
    BY <1>1, <2>1
  <2>2. CASE i # Len(s)
    <3>1. i \in 1..(Len(s) - 1) /\ i \in 1..Len(s) /\ i + 1 \in 1..Len(s)
      BY <1>1, <2>2
    <3>2. QED
      BY <1>1, <3>1 DEF Contiguous
  <2>3. QED
    BY <2>1, <2>2
<1>3. Append(s, x) # <<>> /\ Append(s, x)[Len(Append(s, x))] = x
  <2>1. Append(s, x)[Len(Append(s, x))] = x
    BY <1>1
  <2>2. Len(Append(s, x)) # 0
    BY <1>1
  <2>3. QED
    BY <2>1, <2>2
<1>4. Head(Append(s, x)) = IF s = <<>> THEN x ELSE Head(s)
  <2>1. Head(Append(s, x)) = Append(s, x)[1]
    BY <1>1
  <2>2. CASE s = <<>>
    BY <1>1, <2>1, <2>2
  <2>3. CASE s # <<>>
    BY <1>1, <2>1, <2>3
  <2>4. QED
    BY <2>2, <2>3
<1>5. QED
  BY <1>2, <1>3, <1>4 DEF Contiguous

(* What is left after the first step is taken is still such a stretch.     *)
LEMMA ContiguousTail ==
  ASSUME NEW s \in Seq(Step), s # <<>>, Contiguous(s)
  PROVE  /\ Contiguous(Tail(s))
         /\ Tail(s) # <<>> => /\ Tail(s)[Len(Tail(s))] = s[Len(s)]
                             /\ Head(Tail(s)) \in Successors(Head(s))
         /\ Tail(s) = <<>> => Head(s) = s[Len(s)]
<1>1. /\ Len(Tail(s)) = Len(s) - 1
      /\ \A i \in 1..(Len(s) - 1) : Tail(s)[i] = s[i + 1]
      /\ Len(s) \in Nat \ {0}
      /\ Head(s) = s[1]
      /\ Tail(s) \in Seq(Step)
  OBVIOUS
<1>2. Contiguous(Tail(s))
  <2> SUFFICES ASSUME NEW i \in 1..(Len(Tail(s)) - 1)
               PROVE  Tail(s)[i + 1] \in Successors(Tail(s)[i])
    BY DEF Contiguous
  <2>1. /\ i \in 1..(Len(s) - 1) /\ i + 1 \in 1..(Len(s) - 1)
        /\ Tail(s)[i] = s[i + 1] /\ Tail(s)[i + 1] = s[(i + 1) + 1]
    BY <1>1
  <2>2. QED
    BY <2>1 DEF Contiguous
<1>3. ASSUME Tail(s) # <<>>
      PROVE  /\ Tail(s)[Len(Tail(s))] = s[Len(s)]
             /\ Head(Tail(s)) \in Successors(Head(s))
  <2>1. Len(s) > 1
    BY <1>1, <1>3
  <2>2. Tail(s)[Len(s) - 1] = s[(Len(s) - 1) + 1] /\ Head(Tail(s)) = s[1 + 1]
    BY <1>1, <2>1
  <2>3. s[1 + 1] \in Successors(s[1])
    BY <1>1, <2>1 DEF Contiguous
  <2>4. QED
    BY <1>1, <2>1, <2>2, <2>3
<1>4. Tail(s) = <<>> => Head(s) = s[Len(s)]
  BY <1>1
<1>5. QED
  BY <1>2, <1>3, <1>4

(* Decisions are only ever added to those that were accepted.              *)
LEMMA AcceptedStays ==
  ASSUME IInv, [Next]_vars
  PROVE  Accepted \subseteq Accepted'
<1>1. CASE \E r \in Requests : RequestStep(r)
  <2>1. PICK r \in Requests : RequestStep(r)
    BY <1>1
  <2>2. request \in [Requests ->
          [pc: {"idle", "waiting", "ok", "conflict", "unknown", "error"},
           decision: Decision \cup {None}, seen: Step \cup {None}]]
    BY DEF IInv, TypeOK
  <2>3. \A q \in Requests : q # r => request'[q] = request[q]
    BY <2>1, <2>2
       DEF RequestStep, Decide, DecideConflict, DecideElsewhere, Answer, AnswerError
  <2>4. CASE r \notin Accepted
    BY <2>3, <2>4 DEF Accepted
  <2>5. CASE r \in Accepted
    <3>1. Answer(r) \/ AnswerError(r)
      BY <2>1, <2>5 DEF Accepted, RequestStep, Decide, DecideConflict, DecideElsewhere
    <3>2. request'[r].pc \in {"ok", "error"}
      BY <2>2, <3>1 DEF Answer, AnswerError
    <3>3. QED
      BY <2>3, <3>2 DEF Accepted
  <2>6. QED
    BY <2>4, <2>5
<1>2. CASE Crash
  <2>1. \A r \in Requests :
          request'[r].pc = IF request[r].pc = "waiting" THEN "error" ELSE request[r].pc
    BY <1>2 DEF Crash, IInv, TypeOK
  <2>2. QED
    BY <2>1 DEF Accepted
<1>3. CASE UNCHANGED request
  BY <1>3 DEF Accepted
<1>4. QED
  BY <1>1, <1>2, <1>3
     DEF Next, vars, Submit, TaskStep, Begin, Advance, Finish, Fail, CleanupFires,
         ClientStep, Connect, Deliver, IdleTimeout, Disconnect

(* A chunk that the queue does not have continues it; one that it has,     *)
(* last, changes nothing a stream could miss.                              *)
LEMMA ChunkFlows ==
  ASSUME IInv, DInv, FInv, NEW t \in Tasks, NEW s \in Step, Chunk(t, s), Moves(t, s)
  PROVE  FInv'
<1>1. /\ home # None /\ snapshot' = s /\ queued' = queued /\ Accepted' = Accepted
      /\ client' = client
  BY ChunkEntry DEF Chunk
<1>2. /\ queue \in Seq(Step) /\ lastStep \in Step \cup {None}
      /\ client \in [Clients -> [pc: {"off", "open"}, got: Seq(Step)]]
  BY DEF IInv, TypeOK
<1>3. IF queued /\ s # lastStep
      THEN lastStep' = s /\ queue' = Append(queue, s)
      ELSE lastStep' = lastStep /\ queue' = queue
  BY DEF Chunk, Update
<1>4. OpenStreamWillClose'
  <2> SUFFICES ASSUME NEW c \in Clients, client[c].pc = "open", queued, s \in SSE_CLOSE_STEPS
               PROVE  \E i \in 1..Len(queue') : queue'[i] \in SSE_CLOSE_STEPS
    BY <1>1 DEF OpenStreamWillClose
  <2>1. CASE s # lastStep
    <3>1. queue' = Append(queue, s)
      BY <1>3, <2>1
    <3>2. Len(queue') \in 1..Len(queue') /\ queue'[Len(queue')] = s
      BY <1>2, <3>1
    <3>3. QED
      BY <3>2
  <2>2. CASE s = lastStep
    <3>1. snapshot = s
      BY <1>1, <2>2, StepValues DEF DInv, Synced
    <3>2. QED
      BY <1>3, <2>2, <3>1 DEF FInv, OpenStreamWillClose
  <2>3. QED
    BY <2>1, <2>2
<1>5. Flow'
  <2>1. CASE ~(queued /\ s # lastStep)
    BY <1>1, <1>3, <2>1 DEF FInv, Flow, Sole
  <2>2. CASE (queued /\ s # lastStep) /\ Sole
    <3>1. lastStep # None => s \in Successors(lastStep)
      <4>1. lastStep = checkpoint
        BY <1>1, <2>2 DEF DInv, Synced
      <4>2. QED
        BY <2>2, <4>1, ChunkMovesSnapshot
    <3>2. queue # <<>> => queue[Len(queue)] \in Step /\ s \in Successors(queue[Len(queue)])
      <4>1. queue # <<>> => queue[Len(queue)] \in Step
        BY <1>2
      <4>2. QED
        BY <2>2, <3>1, <4>1, StepValues DEF FInv, Flow
    <3>3. Contiguous(queue)
      BY <2>2 DEF FInv, Flow
    <3>4. /\ Contiguous(queue') /\ queue' # <<>> /\ queue'[Len(queue')] = s
          /\ Head(queue') = IF queue = <<>> THEN s ELSE Head(queue)
      BY <1>2, <1>3, <2>2, <3>2, <3>3, ContiguousAppend
    <3>5. ASSUME NEW c \in Clients, client[c].pc = "open", client[c].got # <<>>
          PROVE  Head(queue') \in Successors(client[c].got[Len(client[c].got)])
      <4>1. CASE queue = <<>>
        <5>1. client[c].got[Len(client[c].got)] = lastStep
          BY <2>2, <3>5, <4>1 DEF FInv, Flow
        <5>2. client[c].got[Len(client[c].got)] \in Step
          <6>1. client[c].got \in Seq(Step)
            BY <1>2
          <6>2. QED
            BY <3>5, <6>1
        <5>3. QED
          BY <3>1, <3>4, <4>1, <5>1, <5>2, StepValues
      <4>2. CASE queue # <<>>
        BY <2>2, <3>4, <3>5, <4>2 DEF FInv, Flow
      <4>3. QED
        BY <4>1, <4>2
    <3>6. \A c \in Clients : Contiguous(client[c].got)
      BY <2>2 DEF FInv, Flow
    <3>7. QED
      BY <1>1, <1>3, <2>2, <3>4, <3>5, <3>6 DEF Flow
  <2>3. CASE ~Sole
    BY <1>1, <2>3 DEF Flow, Sole
  <2>4. QED
    BY <2>1, <2>2, <2>3
<1>6. QED
  BY <1>4, <1>5 DEF FInv

(* What a stream is sent, how it opens and how it ends.                    *)
LEMMA ClientStepFlows ==
  ASSUME IInv, DInv, FInv, OneStream, NEW c \in Clients, ClientStep(c)
  PROVE  FInv'
<1>1. /\ queue \in Seq(Step)
      /\ snapshot \in Step \cup {None}
      /\ client \in [Clients -> [pc: {"off", "open"}, got: Seq(Step)]]
  BY DEF IInv, TypeOK
<1>2. client' = [b \in Clients |-> client'[c]]
  BY <1>1 DEF ClientStep, Connect, Deliver, IdleTimeout, Disconnect, OneStream
<1>3. /\ UNCHANGED <<snapshot, lastStep, queued>>
      /\ Accepted' = Accepted
      /\ \A b \in Clients : client'[b] = client'[c]
  BY <1>2 DEF ClientStep, Connect, Deliver, IdleTimeout, Disconnect, entry, Accepted
<1>4. CASE Connect(c)
  <2>1. queue' = queue
    BY <1>4 DEF Connect, entry
  <2>2. /\ client'[c].pc = "open" => client'[c].got = <<>> /\ snapshot \notin SSE_CLOSE_STEPS
        /\ Contiguous(client'[c].got)
    <3>1. CASE queued /\ snapshot \in SSE_CLOSE_STEPS
      <4>1. client'[c] = [pc |-> "off", got |-> <<snapshot>>]
        BY <1>1, <1>4, <3>1 DEF Connect
      <4>2. Contiguous(<<snapshot>>)
        BY DEF Contiguous
      <4>3. QED
        BY <4>1, <4>2
    <3>2. CASE ~(queued /\ snapshot \in SSE_CLOSE_STEPS)
      <4>1. client'[c] \in {[pc |-> "off", got |-> <<>>], [pc |-> "open", got |-> <<>>]}
        BY <1>1, <1>4, <3>2 DEF Connect
      <4>2. client'[c].pc = "open" => snapshot \notin SSE_CLOSE_STEPS
        BY <1>1, <1>4, <3>2 DEF Connect
      <4>3. Contiguous(<<>>)
        BY DEF Contiguous
      <4>4. QED
        BY <4>1, <4>2, <4>3
    <3>3. QED
      BY <3>1, <3>2
  <2>3. QED
    BY <1>3, <2>1, <2>2 DEF FInv, OpenStreamWillClose, Flow, Sole
<1>5. CASE Deliver(c)
  <2> DEFINE h == Head(queue)
             g == client[c].got
  <2>1. /\ client[c].pc = "open" /\ queue # <<>> /\ queue' = Tail(queue)
        /\ client'[c].pc = IF h \in SSE_CLOSE_STEPS THEN "off" ELSE "open"
        /\ client'[c].got = Append(g, h)
        /\ h \in Step /\ g \in Seq(Step)
    BY <1>1, <1>5 DEF Deliver
  <2>2. OpenStreamWillClose'
    <3> SUFFICES ASSUME h \notin SSE_CLOSE_STEPS, queued, snapshot \in SSE_CLOSE_STEPS
                 PROVE  \E i \in 1..Len(Tail(queue)) : Tail(queue)[i] \in SSE_CLOSE_STEPS
      BY <1>3, <2>1 DEF OpenStreamWillClose
    <3>1. PICK i \in 1..Len(queue) : queue[i] \in SSE_CLOSE_STEPS
      BY <2>1 DEF FInv, OpenStreamWillClose
    <3>2. i # 1
      BY <1>1, <2>1, <3>1
    <3>3. i - 1 \in 1..Len(Tail(queue)) /\ Tail(queue)[i - 1] = queue[i]
      BY <1>1, <2>1, <3>2
    <3>4. QED
      BY <3>1, <3>3
  <2>3. Flow'
    <3> SUFFICES ASSUME Sole
                 PROVE  /\ Contiguous(Tail(queue))
                        /\ Tail(queue) # <<>> => Tail(queue)[Len(Tail(queue))] = lastStep
                        /\ Contiguous(Append(g, h))
                        /\ LET last == Append(g, h)[Len(Append(g, h))]
                           IN  IF Tail(queue) = <<>> THEN last = lastStep
                               ELSE Head(Tail(queue)) \in Successors(last)
      BY <1>3, <2>1 DEF Flow, Sole
    <3>1. /\ Contiguous(queue) /\ queue[Len(queue)] = lastStep
          /\ Contiguous(g)
          /\ g # <<>> => h \in Successors(g[Len(g)])
      BY <2>1 DEF FInv, Flow
    <3>2. Contiguous(Append(g, h)) /\ Append(g, h)[Len(Append(g, h))] = h
      BY <2>1, <3>1, ContiguousAppend
    <3>3. QED
      BY <1>1, <2>1, <3>1, <3>2, ContiguousTail
  <2>4. QED
    BY <2>2, <2>3 DEF FInv
<1>6. CASE IdleTimeout(c) \/ Disconnect(c)
  <2>1. queue' = queue /\ client' = [client EXCEPT ![c].pc = "off"]
    BY <1>6 DEF IdleTimeout, Disconnect, entry
  <2>2. client'[c].pc = "off" /\ client'[c].got = client[c].got
    BY <1>1, <2>1
  <2>3. QED
    BY <1>3, <2>1, <2>2 DEF FInv, OpenStreamWillClose, Flow, Sole
<1>7. QED
  BY <1>4, <1>5, <1>6 DEF ClientStep

(* Steps that leave the queue and the streams alone, or take the whole     *)
(* store and the streams with it.                                          *)
LEMMA OtherFlows ==
  ASSUME IInv, DInv, FInv, [Next]_vars,
         \/ /\ UNCHANGED <<lastStep, queue, client>>
            /\ queued' => (queued /\ snapshot' = snapshot) \/ snapshot' = "start"
         \/ Crash
  PROVE  FInv'
<1>1. Sole' => Sole
  BY AcceptedStays DEF Sole
<1>2. CASE UNCHANGED <<lastStep, queue, client>> /\
           (queued' => (queued /\ snapshot' = snapshot) \/ snapshot' = "start")
  BY <1>1, <1>2, StepValues DEF FInv, OpenStreamWillClose, Flow
<1>3. CASE Crash
  <2>1. /\ \A c \in Clients : client'[c].pc = "off" /\ client'[c].got = client[c].got
        /\ queue' = <<>>
    BY <1>3 DEF Crash, IInv, TypeOK
  <2>2. Contiguous(<<>>)
    BY DEF Contiguous
  <2>3. QED
    BY <1>1, <2>1, <2>2 DEF FInv, OpenStreamWillClose, Flow
<1>4. QED
  BY <1>2, <1>3

(* Nothing has been published or sent.                                     *)
LEMMA InitFlows == Init => FInv
<1> SUFFICES ASSUME Init PROVE FInv
  OBVIOUS
<1>1. Contiguous(<<>>)
  BY DEF Contiguous
<1>2. QED
  BY <1>1 DEF Init, FInv, OpenStreamWillClose, Flow

(* Every step of the API keeps the queue and the stream on the routing.    *)
LEMMA StepFlows ==
  ASSUME IInv, DInv, FInv, OneStream, [Next]_vars
  PROVE  FInv'
<1>1. CASE \E p \in Processes : Submit(p)
  BY <1>1, OtherFlows DEF Submit
<1>2. CASE \E t \in Tasks : Begin(t) \/ Advance(t)
  BY <1>2, BeginIsChunk, AdvanceIsChunk, ChunkFlows
<1>3. CASE \E t \in Tasks : Finish(t) \/ Fail(t)
  BY <1>3, OtherFlows DEF Finish, Fail, entry
<1>4. CASE \E r \in Requests : RequestStep(r)
  BY <1>4, OtherFlows
     DEF RequestStep, Decide, DecideConflict, DecideElsewhere, Answer, AnswerError, entry
<1>5. CASE \E c \in Clients : ClientStep(c)
  BY <1>5, ClientStepFlows
<1>6. CASE CleanupFires \/ Crash \/ UNCHANGED vars
  BY <1>6, OtherFlows DEF CleanupFires, vars
<1>7. QED
  BY <1>1, <1>2, <1>3, <1>4, <1>5, <1>6 DEF Next, TaskStep

(* A run that is followed by one stream keeps its queue and what the       *)
(* stream was sent on the supervisor's routing.                            *)
THEOREM StreamInvariance ==
  ASSUME OneStream
  PROVE  Spec => []FInv
<1>1. IInv /\ DInv /\ FInv /\ [Next]_vars => FInv'
  BY OneStream, StepFlows
<1>2. QED
  BY SessionInvariance, DecisionInvariance, InitFlows, <1>1, PTL DEF Spec

(* A stream never waits for a closing step that has already passed: the    *)
(* chunk store.update drops as a repetition is one the queue still has.    *)
THEOREM StreamWillClose ==
  ASSUME OneStream
  PROVE  Spec => []OpenStreamWillClose
<1>1. FInv => OpenStreamWillClose
  BY DEF FInv
<1>2. QED
  BY StreamInvariance, <1>1, PTL

(* With one decision, what the stream is sent is a contiguous stretch of   *)
(* the routing, over resumes, reconnections, backlogs and cleanups.        *)
THEOREM StreamOnRouting ==
  ASSUME OneStream
  PROVE  Spec => []StreamFollowsRouting
<1>1. DInv /\ FInv => StreamFollowsRouting
  BY SoleIsSole DEF DInv, FInv, Flow, Contiguous, Successors, StreamFollowsRouting
<1>2. QED
  BY DecisionInvariance, StreamInvariance, <1>1, PTL
=============================================================================
