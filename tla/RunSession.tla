----------------------------- MODULE RunSession -----------------------------
(***************************************************************************)
(* One run as the HTTP API keeps it: its RunStore entry and step queue,    *)
(* the background task of POST /analyze, the approve and reject requests   *)
(* with the tasks that resume the graph, the SSE streams, the queue's      *)
(* cleanup timer, and the process that holds all of this in memory.  Runs  *)
(* never touch each other's entries, so one run is the whole store.        *)
(*                                                                         *)
(* The store's lock is never held across a suspension, so what a coroutine *)
(* does between two awaits that can suspend is one action.  The graph is   *)
(* taken at the grain of its values stream: a chunk carries current_step,  *)
(* is in the checkpoint of the thread, and is passed to store.update.      *)
(***************************************************************************)
EXTENDS TenderSteps, Naturals, Sequences, FiniteSets

CONSTANTS
  Requests,   \* the POSTs of /approve and /reject that will be made
  Clients,    \* the browsers that follow the run by SSE
  Processes,  \* the API's worker processes, each with a RunStore of its own
  Analysis,   \* the task of POST /analyze, beside one task per request
  None

ASSUME ConstantsDiffer ==
  /\ Analysis \notin Requests
  /\ None \notin Step \cup Decision \cup Processes

VARIABLES
  home,       \* the process whose store has the run, None if no store has
  snapshot,   \* current_step of the entry's snapshot
  lastStep,   \* the entry's last_step: what was last put on the queue
  queued,     \* whether the run still has its queue in the store
  queue,      \* the contents of that queue object
  timer,      \* whether a cleanup task is pending for the run
  checkpoint, \* current_step of the thread's latest checkpoint
  task,       \* the asyncio tasks that consume the graph's stream
  request,    \* the approve and reject handlers
  client      \* the streams, and what each has been sent

entry == <<home, snapshot, lastStep, queued, queue, timer>>
vars == <<home, snapshot, lastStep, queued, queue, timer,
          checkpoint, task, request, client>>

Tasks == Requests \cup {Analysis}

SSE_CLOSE_STEPS == TerminalSteps \cup {"decided"}

Init ==
  /\ home = None
  /\ snapshot = None
  /\ lastStep = None
  /\ queued = FALSE
  /\ queue = <<>>
  /\ timer = FALSE
  /\ checkpoint = None
  /\ task = [t \in Tasks |-> [pc |-> "none", at |-> None]]
  /\ request = [r \in Requests |-> [pc |-> "idle", decision |-> None, seen |-> None]]
  /\ client = [c \in Clients |-> [pc |-> "off", got |-> <<>>]]
-----------------------------------------------------------------------------
(* POST /analyze: the entry, its queue and the task that runs the graph.   *)
Submit(p) ==
  /\ task[Analysis].pc = "none"
  /\ home' = p
  /\ snapshot' = "start"
  /\ queued' = TRUE
  /\ task' = [task EXCEPT ![Analysis].pc = "created"]
  /\ UNCHANGED <<lastStep, queue, timer, checkpoint, request, client>>

(* Fault: only a terminal step starts the cleanup. *)
UpdateArmsLate(s) ==
  /\ snapshot' = s
  /\ IF queued /\ s # lastStep
     THEN /\ lastStep' = s
          /\ queue' = Append(queue, s)
          /\ timer' = (timer \/ s \in TerminalSteps)
     ELSE UNCHANGED <<lastStep, queue, timer>>
  /\ UNCHANGED <<home, queued>>

(* Fault: the step that was current before is published. *)
UpdatePublishesOld(s) ==
  /\ snapshot' = s
  /\ IF queued /\ s # lastStep
     THEN /\ lastStep' = s
          /\ queue' = Append(queue, lastStep)
          /\ timer' = (timer \/ s \in SSE_CLOSE_STEPS)
     ELSE UNCHANGED <<lastStep, queue, timer>>
  /\ UNCHANGED <<home, queued>>

(* store.update: the snapshot always, the queue only for a new step and as *)
(* long as the run has one; a closing step starts the timer once.          *)
Update(s) ==
  /\ snapshot' = s
  /\ IF queued /\ s # lastStep
     THEN /\ lastStep' = s
          /\ queue' = Append(queue, s)
          /\ timer' = (timer \/ s \in SSE_CLOSE_STEPS)
     ELSE UNCHANGED <<lastStep, queue, timer>>
  /\ UNCHANGED <<home, queued>>

(* Fault: only a queue that has been read to the end is reclaimed. *)
CleanupFiresWhenDrained ==
  /\ timer
  /\ queue = <<>>
  /\ queued' = FALSE
  /\ timer' = FALSE
  /\ UNCHANGED <<home, snapshot, lastStep, queue, checkpoint, task, request, client>>

(* QUEUE_CLEANUP_DELAY_SECONDS after the timer was started.  The entry     *)
(* stays, and a stream that holds the queue object can still drain it.     *)
CleanupFires ==
  /\ timer
  /\ queued' = FALSE
  /\ timer' = FALSE
  /\ UNCHANGED <<home, snapshot, lastStep, queue, checkpoint, task, request, client>>
-----------------------------------------------------------------------------
(* The tasks: async for chunk in graph.astream(...): store.update(chunk).  *)

(* Fault: the resumed thread is not found and starts anew. *)
BeginAnew(t) ==
  /\ task[t].pc = "created"
  /\ checkpoint' = "start"
  /\ task' = [task EXCEPT ![t] = [pc |-> "running", at |-> checkpoint']]
  /\ Update(checkpoint')
  /\ UNCHANGED <<request, client>>

(* The first chunk is the input of the analysis, or, for a resume, the     *)
(* state of the checkpoint it loads, wherever other tasks have taken it.   *)
Begin(t) ==
  /\ task[t].pc = "created"
  /\ checkpoint' = IF t = Analysis THEN "start" ELSE checkpoint
  /\ task' = [task EXCEPT ![t] = [pc |-> "running", at |-> checkpoint']]
  /\ Update(checkpoint')
  /\ UNCHANGED <<request, client>>

(* Fault: a resumed run is an approved run. *)
NextStepsProceed(t) ==
  IF task[t].at = "decided"
  THEN IF t = Analysis THEN {} ELSE {"approved"}
  ELSE Outcomes[ROUTING[task[t].at]]

(* The interrupt stops the analysis and takes the decision of a resume.    *)
NextSteps(t) ==
  IF task[t].at = "decided"
  THEN IF t = Analysis THEN {} ELSE {request[t].decision}
  ELSE Outcomes[ROUTING[task[t].at]]

Advance(t) ==
  /\ task[t].pc = "running"
  /\ \E s \in NextSteps(t) :
       /\ task' = [task EXCEPT ![t].at = s]
       /\ checkpoint' = s
       /\ Update(s)
  /\ UNCHANGED <<request, client>>

Finish(t) ==
  /\ task[t].pc = "running"
  /\ NextSteps(t) = {}
  /\ task' = [task EXCEPT ![t].pc = "done"]
  /\ UNCHANGED <<entry, checkpoint, request, client>>

(* An exception that leaves astream (the checkpointer's, the callback      *)
(* handler's, that of an agent's constructor): nobody awaits the analysis, *)
(* and the entry is not told.                                              *)
Fail(t) ==
  /\ task[t].pc \in {"created", "running"}
  /\ task' = [task EXCEPT ![t].pc = "failed"]
  /\ UNCHANGED <<entry, checkpoint, request, client>>
-----------------------------------------------------------------------------
(* POST /approve and POST /reject.                                         *)

(* Fault: the answer waits for a task nobody started. *)
DecideIdly(r, d) ==
  /\ request[r].pc = "idle"
  /\ home # None
  /\ snapshot \in ApprovableSteps
  /\ request' = [request EXCEPT ![r].pc = "waiting", ![r].decision = d]
  /\ UNCHANGED <<entry, checkpoint, task, client>>

(* Accepted: create_task, set_task and wait, without a suspension between. *)
Decide(r, d) ==
  /\ request[r].pc = "idle"
  /\ home # None
  /\ snapshot \in ApprovableSteps
  /\ request' = [request EXCEPT ![r].pc = "waiting", ![r].decision = d]
  /\ task' = [task EXCEPT ![r].pc = "created"]
  /\ UNCHANGED <<entry, checkpoint, client>>

(* 409, by the process that has the run.                                   *)
DecideConflict(r, d) ==
  /\ request[r].pc = "idle"
  /\ home # None
  /\ snapshot \notin ApprovableSteps
  /\ request' = [request EXCEPT ![r].pc = "conflict", ![r].decision = d]
  /\ UNCHANGED <<entry, checkpoint, task, client>>

(* 404, by a process that does not.                                        *)
DecideElsewhere(r, d, p) ==
  /\ request[r].pc = "idle"
  /\ task[Analysis].pc # "none"
  /\ p # home
  /\ request' = [request EXCEPT ![r].pc = "unknown", ![r].decision = d]
  /\ UNCHANGED <<entry, checkpoint, task, client>>

(* Fault: the task is not awaited. *)
AnswerAtOnce(r) ==
  /\ request[r].pc = "waiting"
  /\ request' = [request EXCEPT ![r].pc = "ok", ![r].seen = snapshot]
  /\ UNCHANGED <<entry, checkpoint, task, client>>

(* 200, with the snapshot as it is when the handler wakes up.              *)
Answer(r) ==
  /\ request[r].pc = "waiting"
  /\ task[r].pc = "done"
  /\ request' = [request EXCEPT ![r].pc = "ok", ![r].seen = snapshot]
  /\ UNCHANGED <<entry, checkpoint, task, client>>

(* 500: the task raised, or the 30 s of wait_for passed; the task is       *)
(* shielded and goes on.                                                   *)
AnswerError(r) ==
  /\ request[r].pc = "waiting"
  /\ task[r].pc # "done"
  /\ request' = [request EXCEPT ![r].pc = "error"]
  /\ UNCHANGED <<entry, checkpoint, task, client>>
-----------------------------------------------------------------------------
(* GET /stream.  The browser's EventSource connects again after every end. *)

(* Fault: the current step is not looked at. *)
ConnectBlindly(c) ==
  /\ client[c].pc = "off"
  /\ home # None
  /\ client' = [client EXCEPT ![c] =
       IF ~queued THEN [pc |-> "off", got |-> <<>>]
       ELSE [pc |-> "open", got |-> <<>>]]
  /\ UNCHANGED <<entry, checkpoint, task, request>>

(* Fault: the stream starts with the current step, then reads the backlog. *)
ConnectShowsCurrent(c) ==
  /\ client[c].pc = "off"
  /\ home # None
  /\ client' = [client EXCEPT ![c] =
       IF ~queued THEN [pc |-> "off", got |-> <<>>]
       ELSE IF snapshot \in SSE_CLOSE_STEPS THEN [pc |-> "off", got |-> <<snapshot>>]
       ELSE [pc |-> "open", got |-> <<snapshot>>]]
  /\ UNCHANGED <<entry, checkpoint, task, request>>

(* Without a queue the stream is empty, at a closing step it is that step; *)
(* otherwise it opens on what the queue holds, backlog included.           *)
Connect(c) ==
  /\ client[c].pc = "off"
  /\ home # None
  /\ client' = [client EXCEPT ![c] =
       IF ~queued THEN [pc |-> "off", got |-> <<>>]
       ELSE IF snapshot \in SSE_CLOSE_STEPS THEN [pc |-> "off", got |-> <<snapshot>>]
       ELSE [pc |-> "open", got |-> <<>>]]
  /\ UNCHANGED <<entry, checkpoint, task, request>>

(* A step goes to one stream: all of them get from the same queue.         *)
Deliver(c) ==
  /\ client[c].pc = "open"
  /\ queue # <<>>
  /\ client' = [client EXCEPT ![c] =
       [pc |-> IF Head(queue) \in SSE_CLOSE_STEPS THEN "off" ELSE "open",
        got |-> Append(@.got, Head(queue))]]
  /\ queue' = Tail(queue)
  /\ UNCHANGED <<home, snapshot, lastStep, queued, timer, checkpoint, task, request>>

(* Fault: a stream that has been sent something is never given up. *)
IdleTimeoutOnce(c) ==
  /\ client[c].pc = "open"
  /\ queue = <<>>
  /\ client[c].got = <<>>
  /\ client' = [client EXCEPT ![c].pc = "off"]
  /\ UNCHANGED <<entry, checkpoint, task, request>>

(* 120 s without a step.                                                   *)
IdleTimeout(c) ==
  /\ client[c].pc = "open"
  /\ queue = <<>>
  /\ client' = [client EXCEPT ![c].pc = "off"]
  /\ UNCHANGED <<entry, checkpoint, task, request>>

Disconnect(c) ==
  /\ client[c].pc = "open"
  /\ client' = [client EXCEPT ![c].pc = "off"]
  /\ UNCHANGED <<entry, checkpoint, task, request>>
-----------------------------------------------------------------------------
(* The process that has the run dies: its store, tasks, requests and       *)
(* streams are gone, the checkpoint of the thread is not.                  *)
Crash ==
  /\ home # None
  /\ home' = None
  /\ snapshot' = None
  /\ lastStep' = None
  /\ queued' = FALSE
  /\ queue' = <<>>
  /\ timer' = FALSE
  /\ task' = [t \in Tasks |->
       IF task[t].pc \in {"created", "running"}
       THEN [task[t] EXCEPT !.pc = "failed"] ELSE task[t]]
  /\ request' = [r \in Requests |->
       IF request[r].pc = "waiting"
       THEN [request[r] EXCEPT !.pc = "error"] ELSE request[r]]
  /\ client' = [c \in Clients |-> [client[c] EXCEPT !.pc = "off"]]
  /\ UNCHANGED checkpoint

TaskStep(t) == Begin(t) \/ Advance(t) \/ Finish(t)

RequestStep(r) ==
  \/ \E d \in Decision :
       \/ Decide(r, d) \/ DecideConflict(r, d)
       \/ \E p \in Processes : DecideElsewhere(r, d, p)
  \/ Answer(r) \/ AnswerError(r)

ClientStep(c) == Connect(c) \/ Deliver(c) \/ IdleTimeout(c) \/ Disconnect(c)

Next ==
  \/ \E p \in Processes : Submit(p)
  \/ \E t \in Tasks : TaskStep(t) \/ Fail(t)
  \/ \E r \in Requests : RequestStep(r)
  \/ \E c \in Clients : ClientStep(c)
  \/ CleanupFires
  \/ Crash

(* The event loop runs what is ready and its timers expire; agents are     *)
(* taken to return or raise.  Nobody has to submit, decide or connect.     *)
Fairness ==
  /\ \A t \in Tasks : WF_vars(TaskStep(t))
  /\ \A r \in Requests : WF_vars(Answer(r) \/ AnswerError(r))
  /\ \A c \in Clients : WF_vars(Deliver(c) \/ IdleTimeout(c))
  /\ WF_vars(CleanupFires)

Spec == Init /\ [][Next]_vars

FairSpec == Spec /\ Fairness
-----------------------------------------------------------------------------
(* The store, the queue, the tasks, the handlers and the streams stay in   *)
(* their states; in particular only known steps are ever published.        *)
TypeOK ==
  /\ home \in Processes \cup {None}
  /\ snapshot \in Step \cup {None}
  /\ lastStep \in Step \cup {None}
  /\ queued \in BOOLEAN
  /\ queue \in Seq(Step)
  /\ timer \in BOOLEAN
  /\ checkpoint \in Step \cup {None}
  /\ task \in [Tasks ->
       [pc: {"none", "created", "running", "done", "failed"}, at: Step \cup {None}]]
  /\ request \in [Requests ->
       [pc: {"idle", "waiting", "ok", "conflict", "unknown", "error"},
        decision: Decision \cup {None}, seen: Step \cup {None}]]
  /\ client \in [Clients -> [pc: {"off", "open"}, got: Seq(Step)]]

Accepted == {r \in Requests : request[r].pc \in {"waiting", "ok", "error"}}

SoleDecision == Cardinality(Accepted) <= 1

(* A queue does not outlive its run: once a closing step has been put on   *)
(* it, a cleanup is pending for as long as the queue is there, although    *)
(* the timer is only started when the step is new.                         *)
QueueReclaimArmed == queued /\ lastStep \in SSE_CLOSE_STEPS => timer

(* A stream does not wait for a step that has already passed: when the run *)
(* stands at a closing step, an open stream still finds one in its queue,  *)
(* whatever was dropped as a repetition.  (For one stream: with several,   *)
(* another one may have taken it.)                                         *)
OpenStreamWillClose ==
  \A c \in Clients :
    client[c].pc = "open" /\ queued /\ snapshot \in SSE_CLOSE_STEPS =>
      \E i \in 1..Len(queue) : queue[i] \in SSE_CLOSE_STEPS

(* What a stream is sent is a contiguous stretch of the supervisor's       *)
(* routing, no step twice and none left out, over resumes, reconnections   *)
(* and backlogs, as long as no two decisions were accepted.                *)
StreamFollowsRouting ==
  SoleDecision =>
    \A c \in Clients : \A i \in 1..(Len(client[c].got) - 1) :
      client[c].got[i + 1] \in Outcomes[ROUTING[client[c].got[i]]]

(* Who decides alone is answered with the outcome of that decision: a 200  *)
(* of /reject says "rejected", a 200 of /approve that execution ended.     *)
SoleDecisionHonoured ==
  SoleDecision =>
    \A r \in Requests : request[r].pc = "ok" =>
      request[r].seen \in (IF request[r].decision = "rejected" THEN {"rejected"}
                           ELSE {"completed", "execution_failed"})

(* The human in the loop: nothing of the execution phase is in the store,  *)
(* in a checkpoint or under way in a task unless an approval was accepted. *)
ExecutionNeedsAcceptedApproval ==
  ({snapshot, checkpoint} \cup {task[t].at : t \in Tasks}) \cap ExecutionSteps # {} =>
    \E r \in Accepted : request[r].decision = "approved"

(* With one decision the store's snapshot is a run of the workflow: the    *)
(* repeated chunk of a resume, the failure of a task and a lost answer do  *)
(* not take it off the routing table or back.                              *)
W == INSTANCE TenderWorkflow
       WITH step <- snapshot,
            verdict <- IF snapshot \in ExecutionSteps THEN "approved"
                       ELSE IF snapshot = "rejected" THEN "rejected" ELSE "none",
            drafted <- snapshot \in {"executed", "completed"}

SoleDecisionFollowsWorkflow ==
  [][home # None /\ home' # None /\ SoleDecision' => [W!Next]_(W!vars)]_vars

(* An accepted decision is not forgotten: it moves the run off "decided",  *)
(* unless the task that carries it dies.                                   *)
DecisionTakesEffect ==
  \A r \in Requests :
    request[r].pc = "waiting" ~> snapshot # "decided" \/ task[r].pc = "failed"

(* No stream is held open for ever, and no queue of a run that has reached *)
(* a closing step is kept for ever.                                        *)
StreamEnds == \A c \in Clients : client[c].pc = "open" ~> client[c].pc = "off"

QueueReclaimed == queued /\ lastStep \in SSE_CLOSE_STEPS ~> ~queued

(* What the tests and docstrings say of the store, and the code does not.  *)

(* tests/test_store_ttl.py: the cleanup does not touch an active run.  The *)
(* timer that "decided" starts takes the queue of a run that waits for its *)
(* approval, or is being executed.                                         *)
CleanupSparesActiveRuns == home # None /\ ~queued => snapshot \in TerminalSteps

(* tests/api/test_hitl_api.py: a rejection is answered with "rejected".    *)
(* Two decisions accepted at once both resume the thread.                  *)
RejectAnswerIsRejected ==
  \A r \in Requests :
    request[r].pc = "ok" /\ request[r].decision = "rejected" =>
      request[r].seen = "rejected"

(* src/graph/checkpoint.py: the checkpoint is persistent and shared by the *)
(* instances, so a run that waits in it for a decision can be decided.     *)
(* The store is neither, and its other processes answer 404.               *)
CheckpointedRunIsKnown ==
  [][\A r \in Requests :
       request[r].pc # "unknown" /\ request'[r].pc = "unknown" => checkpoint # "decided"]_vars
=============================================================================
