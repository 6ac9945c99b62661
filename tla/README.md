# LicitaCerta: formal models

TLA+ models of LicitaCerta, the service that analyses public tenders (editais)
with a graph of LLM agents, stops for a human decision and, when it is approved,
drafts a proposal. TLC checks the models on small instances, TLAPS proves the
results listed below for every value of the constants. Paths are relative to the
repository; `api/...`, `graph/...` and the like stand for `src/api/...`,
`src/graph/...`.

Run a model with `tlc -config X.cfg M`, a proof module with `tlapm M.tla`.

## 1. The system

### Components, state and operations

| component | state | operations | how it meets the others |
|---|---|---|---|
| analysis graph (`graph/`) | `TenderState` of one thread: `current_step`, an optional result per agent, lists with an `operator.add` reducer | eleven agent nodes in six compiled subgraphs, the human interrupt | run by the API's tasks through `astream`; every chunk is checkpointed |
| run store, decisions, streams (`api/store.py`, `api/routes/runs.py`, `analyze.py`) | entry (snapshot, last step, task), step queue, cleanup timer per run; all in the memory of one process | submit, update, approve, reject, stream, cleanup | tasks write it, handlers and SSE streams read it, the checkpointer outlives it |
| checkpointer (`graph/checkpoint.py`) | latest checkpoint per thread, in Postgres or in memory | save, load (library) | read by a resume |
| watch (`api/watch_store.py`, `watch_agent.py`, `pncp_client.py`) | configurations, `last_polled_at`, the editais seen | create and delete a configuration, poll cycle (loop and manual) | starts runs in the run store |
| agents (`agents/`) | a slot with the metric of the last call per agent object, shared by all runs | `run` in a thread, `get_last_metric` | called by the graph's nodes |
| billing (`services/billing.py`, `api/billing_store.py`) | plan, status, usage, Stripe ids per tenant | webhook events, quota, monthly reset | webhook from Stripe |
| approval queue and workers (`api/routes/hitl.py`, `documents.py`, `workers/`) | `hitl_queue` rows, documents in storage | upload, parse, analyse, decide, record an outcome | Cloud Tasks and Pub/Sub |
| radar and alerts (`services/radar_predictor.py`, `workers/pca_worker.py`, `workers/watch_worker.py`, `api/routes/radar.py`; `services/notifications.py`, `api/alert_store.py`) | PCA items, predictions; alerts, preferences, deduplication table | classify, upsert, alert, confirm, dismiss; dispatch | database, Pub/Sub |
| contracts (`api/contract_store.py`) | contracts, commitments, call-offs | create, patch, close, register | read by the health score and the contract pages |
| dashboard and health score (`api/routes/dashboard.py`, `health_score.py`) | the stage a card was moved to | move a card; summary, score | read the run store and the contracts |
| portal orchestrator (`portals/`) | none between rounds | fetch from every adapter, merge | called with the adapters |
| pure services and tools | none | price composition, taxes, adjustment, margin, business days | called by routes and agents |
| cloud adapters, auth, schemas, web, terraform | none of the program's own | I/O and data declarations | |

### What is hard

* **Concurrency.** One event loop per process. A coroutine is interrupted only
  where an `await` really suspends; the stores' locks are never held across such a
  point, so what lies between two of them is one step. The races are between
  tasks that consume the graph's stream, handlers that read a snapshot and act on
  it, streams that share a queue, timers, and poll cycles that suspend in the
  search. Beside the loop, agents answer in threads and leave their metric in a
  slot that all runs of the process share.
* **Failure.** Agents raise and the node records it and goes on; their constructors
  raise outside the node's `try` and end the run; `astream` may raise in a task nobody
  awaits; searches answer in part; the process dies with
  its stores while checkpoints survive; an upload or a worker fails between
  two of its steps, and its task is delivered again; `Dockerfile.api` starts two processes,
  each with stores of its own.
* **Ordering.** `decided` is published before the interrupt is reached; a resume
  replays the checkpoint's state; `polled_at` is stamped after the search; Stripe's
  events come in any order and again; of two decisions the database takes one and
  both are published.
* **Time.** The pages on contracts change as days pass, without any operation.
* **Timeouts.** 30 s for a decision's answer, 120 s of silence for a stream,
  300 s until a queue is reclaimed.

### What makes each component correct

* graph: nothing is drafted without an approval and no rejection; a missing result
  has an error; a run settles at the interrupt or the end, unless an agent cannot be
  built; observers see the
  workflow of the routing table.
* run store: a lone decision takes effect and is answered with its outcome;
  nothing executes without an accepted approval; a stream follows the routing and
  ends; queues are reclaimed.
* watch: one analysis per edital; no day is skipped that a search did not leave
  behind; what comes out is analysed.
* radar: an alert goes out, and again only when its mark was lost; no alert is
  marked that was not sent; a dismissed prediction stays dismissed.
* agents: no cost is reported twice or by the wrong agent; a call that had its agent
  to itself reports its own.
* billing: an event finds its tenant and no other; the status is the one the newest
  event gives the subscription.
* approvals and intake: what is announced is on record, an accepted document is
  announced or keeps its task.
* notifications: an alert goes out once in four hours.
* contracts, cards, score: pages that count the same things agree.
* portals, calculators: every edital once; the answer its definition asks for.

`PROJECT.json` lists every hazard with its line and the properties that cover it.

## 2. The modules

    TenderSteps               steps, routing table, what each phase may leave
      |- TenderWorkflow       abstract: current_step, verdict, draft
      |- TenderPipeline       one run, node by node          -> implements TenderWorkflow
      |    `- TenderPipelineProofs
      `- RunSession           one run in the API             -> its snapshot follows TenderWorkflow
           |- RunSessionProofs
           `- MCRunSession    symmetry
    WatchPoll                 configurations and poll cycles
      |- WatchPollProofs
      `- MCWatchPoll          which editais match
    Radar                     jobs and dismissals on the predictions' table
      |- RadarProofs
      `- MCRadar              symmetry
    Services                  the nine services below, and all their properties
      |- AgentCalls           calls, threads, metric slots    \ UsageProofs
      |- Billing              Stripe's events, the store      /
      |- Notifications        the dispatcher                  \
      |- Intake               uploads, tasks, workers         | DeliveryProofs
      |- Approvals            queue rows and decisions        /
      |- Board                cards and stages (TenderSteps)  \
      |- Contracts            contracts, pages, score         | FiguresProofs
      |- Calculators          deadlines, taxes, scenarios     /
      |- Portals              one round
      |- ServicesProofs       the round's merge, and all nine together
      `- MCServices           values a .cfg cannot write

**TenderSteps** is `ROUTING` of `graph/supervisor.py`, the step sets of the API and
`Outcomes`, the steps each supervisor node may leave the run in. A value of
`current_step` outside the table cannot be routed; `TypeOK` of the pipeline says
that no node leaves one.

**TenderWorkflow** is what an observer of `current_step` may rely on: it moves along
the table, leaves `decided` only by a human verdict, and a closed run stays closed.

**TenderPipeline** has one action per node function, with a disjunct for the agent's
answer, one for its `except` branch and, where a model stands behind the agent, one for
its constructor (`ConstructorRaises`). The constructor is called in front of the `try`:
what it raises leaves the graph, `raised` is set and no node runs any more. An agent is
built once per process; whether the run at hand is the one that builds it is left open.
`at` is the node about to run, `step` the
`current_step` inside the subgraph, `parent` what the supervisor holds. Results are
kept as the routing reads them: absent, present, present and calling for a challenge.
Lists with an `operator.add` reducer are counted per author. A compiled subgraph
begins with the parent's lists and returns its whole state, and the parent adds the
returned list to its own (`Reduce`): that is why every list doubles at the end of
each later subgraph. A metric may be missing although the agent answered, because
its slot is shared by every run of the process.

**RunSession** is one run in the API. `home` is the process whose store has the run;
`snapshot`, `lastStep`, `queued`, `queue` and `timer` are the entry, the queue and the
cleanup task; `checkpoint` is the thread's latest checkpoint; `task` has the task of
`POST /analyze` and one per decision; `request` the approve and reject handlers with
what they answered; `client` the streams with what they were sent. `Update` is
`RunStore.update`, called with every chunk. The first chunk of an analysis is its
input, the first of a resume the state of the checkpoint. `NextSteps` is the graph at
the grain of its chunks. `Answer`, `AnswerError`: the handler wakes with the task, or
after 30 s or an exception. `Crash` takes everything but the checkpoint. Runs never
touch each other's entries, so one run is the whole store.

**WatchPoll** keeps the store's configurations in order of creation, `polled`
(`last_polled_at`), `watched` with the configuration an edital is recorded for, and
each poll cycle with the configurations it still has to do. The only suspension of a
cycle is the search; `EndSearch` is all that follows an answer, up to the next
search: new editais, a run for each, the record, the stamp (also after an exception,
where nothing is found). The answer is any part of what matches the window, since
failing pages and modalities are left out silently. Time is the calendar day;
`date.today()` and `utcnow()` are the same day, as in the image, which sets no time
zone. `lost` is a history variable: the days a configuration's searches left behind.
Keywords are the constant `Matching`; `cfg.active` is always true, no code clears it.

**Radar** is the table `procurement_predictions` under the two jobs and the users'
dismissals. `tx` is what each execution is doing: its phase (`predict` and `dispatch`
of `pca_worker`, `xref` of `watch_worker`), the rows it has listed, the one whose
statement it is about to execute, and what its transaction wrote. `View`, `Write` and `Committed` are
PostgreSQL's read committed: a row written stays locked until the transaction ends,
and of sessions that wait for each other one is aborted. The forecast of a row is
kept as the first day on which the dispatch selects it (`alertFrom`: 40 days before
the forecast day, `Never` below 70 % of confidence), chosen freely from today on,
because `calc_data_prevista` gives no day in the past. Which items a tenant matches,
and which predictions an edital confirms, is free too. `sent` and `excused` are
history variables: alerts published per prediction, and predictions whose mark was
lost with a transaction, or that two dispatches listed at the same time. A job may
end anywhere (`Fail`), be it by an exception that `watch_worker` swallows. The
dispatch is taken to be configured (`GCP_PROJECT_ID` is set).

**Services** EXTENDS nine small modules, each with an `Init`, `Next` and type invariant
that carry its name, and puts them side by side (`Absent` declares their common
`None`). They share no variable, because the
services share no state: none reads what another keeps (the score reads the runs and
the contracts, and gets the runs' part as an input, `RunResults`). `area`, chosen at
the start, names the service whose steps are taken. Without shared state the steps of
different services commute, so one at a time shows every state of each of them.

**AgentCalls** is every call of the ten LLM agents in one process. `slot` is
`_last_metric` of the one object per agent; a call is `invoking` until its thread sets
the slot, `returned` until the node's coroutine takes it. An answer that does not
parse sets the slot and raises. `Impugnacao` runs on the event loop: it suspends for
each clause, and sets and takes the slot in one go. `overwritten` and `shared` are
history.

**Billing** has Stripe's events as `issued`, each deliverable any number of times and in
any order, and the store as `billing`. An event about a subscription carries the status
the subscription has (active, or anything Stripe does not call so), and its metadata may
name the tenant, a plan, both or neither. `Says` is what an event tells of the
subscription; `Parts` are the events whose status the code does not read
(`created` and `updated`, which always activate), and invoices of no subscription.
`Found` is the webhook's look-up (metadata,
subscription, customer), `ApplyStripeEvent` what the event overwrites. `Restart`
empties the store. `applied` and `late` are history: `late` holds the tenants to whom
an older event was applied after a newer one.

**Board** keeps the step in each run's snapshot, which the chunks of the run's tasks
overwrite: those of the analysis, and those of one task per accepted decision
(`verdict`), of which there may be several at the same `decided`, as in `RunSession`.
A task begins where the checkpoint stands, and its chunks follow `TenderSteps` from its
own last one, wherever another task has left the snapshot. Over that it has the two
tables, of the dashboard and of the health score, that turn a step into a stage.

**Contracts** has contracts with at most one commitment each, and `hoje`. The pages are
operators on the state; money is counted in contracts, each of the same value. The
score is computed in tenths of a point, as the code rounds it.

**Notifications** keeps of each call of `dispatch` what it has still to send. All of the
call up to its first send is one step (`Dispatch`), each send one more.

**Intake** has the upload's two effects, the queue's tasks and the worker's steps; a
failure may come before or after an effect. Tasks are addressed to
`/internal/workers/document`, which no router of `api/main.py` serves; `Served` says
whether a deployment puts the worker behind that URL by other means. **Approvals** has the committed UPDATE and
the publication as two steps, so that requests overlap between them; it assumes one row
per run, which the table (`alembic/versions/0002_alloydb_gcp_schema.py`, where `run_id`
is indexed and not unique) does not enforce. **Portals** has
the fetches in any order and the merge, a loop over adapters around a loop over editais,
both written as recursive functions. **Calculators** asks one question and compares
the answer with its definition. Amounts are whole cents and rates whole ten-thousandths.
The code divides the financing cost with the 28 digits of its decimals before it rounds,
the model exactly: they differ by one cent at most, and only where the quotient is a
tie that 28 digits cannot hold.

## 3. The runs

| run | question | result |
|---|---|---|
| `pipeline` | every way the agents and the human can answer or fail in one run | drafts need an approval and no rejection; every gap has its error; lists double exactly once per later subgraph; `TenderWorkflow` is implemented, and its liveness as long as no constructor raises; runs settle, or were stopped by a constructor |
| `session` | one run, two decisions, one stream, two processes | 2.6 million states; types, armed cleanup, streams, lone decisions, authorised execution, and the snapshot's steps are workflow steps |
| `session_liveness` | the same with one decision, under fairness | a decision takes effect or its task dies; streams end; queues are reclaimed |
| `watch` | two configurations that match one edital, two pollers, three days, under fairness | one analysis per edital; no day skipped that a search did not leave behind; what comes out after a poll is analysed |
| `radar` | two tenants, one item each, two overlapping executions, one fault, two days | types; an alert repeats only if its mark was lost or two dispatches listed its row; a mark means it was published; a dismissal outlives the jobs |
| `radar_liveness` | one prediction, two executions, under fairness | what is due is alerted and marked, or is no longer due |
| `services` | the nine services, each with its actors side by side | metrics are never doubled, and are a call's own unless its agent was shared; events find their tenant, and the status is what the newest says unless one was overtaken or `Parts` names it, the plan the newest named; an unmoved card goes back only after an approval, and with a single decision only by it; dashboard and score count losses apart by the failed runs exactly; the contract pages agree on every day; time alone improves the score only when a contract lapses; an alert goes out once in four hours; an accepted document keeps its task until it is announced; a decision announced is on record unless it came late; a merge keeps each edital from its first adapter; deadlines, taxes and scenarios are what they should be |
| `approvals_recorded_once` | violated | one approval is in `human_approvals` twice after the execution phase and four times in the end; costs and errors are multiplied the same way |
| `inactive_subscription` | violated | a subscription that Stripe reports as unpaid or paused in `customer.subscription.updated` makes its tenant active |
| `cleanup_of_waiting_run` | violated | the timer started at `decided` deletes the queue of a run that waits for its approval |
| `two_decisions` | violated | of two decisions accepted at the same `decided` both resume the thread, and a rejection can be answered 200 with the step of an execution |
| `run_unknown_elsewhere` | violated | a run that waits in its checkpoint is unknown (404) to every other process, and to all after a restart |

### Bounds

The pipeline has no constants; its lists end at 32 copies. In `session`, two
requests are the least that race, and a third adds no new kind of race: a decision
is accepted against the snapshot alone. One stream is used because streams compete
for one queue: with two, `StreamFollowsRouting` and `OpenStreamWillClose` fail for
each of them, as one takes the steps of the other (the web page opens one). Two
processes are the image's two workers. Requests and processes other than
`home` are interchangeable, so the run uses symmetry; the liveness run does not, and
has one request (with two and no stream `DecisionTakesEffect` holds as well). Queues
need no bound: a step is queued only when it changes and the routing table is finite.

In `watch` editais do not influence each other, so one is enough; it is matched by two
configurations, whose order, creation and deletion are free. Two pollers are the loop
and one manual poll. Three days let a cycle start on one day and stamp two days later,
and an edital lie before, inside and after a window with `Lookback = 1`. Safety and
liveness are checked in the same run: fairness removes no reachable state.

In `radar`, two predictions are what a deadlock needs, two executions what any
overlap needs; three would add longer cycles of waits only. Two days let a row be
predicted for tomorrow, become due and be put off. One fault is enough to lose a
transaction or to refuse an alert; dismissals and confirmations are not bounded.
Tenants and executions are interchangeable. `radar_liveness` has one prediction and
no symmetry; deadlocks need two and appear in `radar` only, and being broken by an
abort they differ for the waiting job in nothing from a fault.

In `services`: two calls are what shares an agent, and two severe clauses what an agent
on the event loop suspends between. Two tenants and three events let any event be
repeated, overtaken or taken for another tenant's, and a subscription be replaced by
a second one; two plans let an event replace one. Tenants and plans are
interchangeable and appear nowhere else, so the run uses their symmetry. Two runs make
the counts of the pages differ, two decisions are what overwrites a snapshot.
`Served = TRUE` is an assumption about the deployment: with `FALSE` no worker runs, and
what is left of the intake holds of itself. The days 0, 30 and 31 put
a due date and a commitment on either side of both limits (due within 30 days, paid
later than 30); `vencido` and `renovado` behave as `encerrado` and `ativo` do. The hours
6, 8, 11 and 12 have one at night, two within four hours of the first by day and one
exactly four hours after it; three calls of one alert are what a window needs. Two
documents, two workers and two failures let a slow delivery fail after a fast one has
finished. Three requests for two rows meet at one and leave one behind. Three adapters
with up to two editais of two give every kind of duplicate. The opening dates are
three weeks, the notices reach over two weekends, the revenues lie at and beyond the
brackets' limits, the prices are all below one real, at which a cent of rounding weighs
most, and two others; the terms go up to four years, and 77 days are one at which two
roundings fall together and take a cent.

### Fairness

`TenderPipeline`: an agent returns or raises (`WF` of the agents together; a human owes
nothing). Nothing is assumed of constructors: where `ImplementsWorkflow` and `RunSettles`
promise progress, they except the run that one of them stopped. `RunSession`: tasks advance, a handler that waits wakes at the latest after
its 30 s, an open stream is served or times out after 120 s, the timer fires: the event
loop runs what is ready, and each of these has a timer or a ready callback. Nobody
has to submit, decide, connect or crash. `WatchPoll`: the loop polls again after its
sleep, a search ends by its answer or the client's timeout; and, an assumption about
the portal, the searches of one configuration are not incomplete for ever (both in the
strong fairness of `CompleteSearch`). `Radar`: the scheduler starts the job again, and an
execution that is not killed takes its next step. Fairness is strong because a row
can be locked and unlocked for ever, and PostgreSQL queues who waits for it; deadlocks
are broken. Faults are bounded: a job that always dies before its commit marks nothing.
`Services` assumes no fairness and has no liveness property. In particular it is not
claimed that an accepted document is announced in the end: nothing in this code serves
the URL its task is addressed to, so no fairness of the queue could justify it.

## 4. The proofs

What every safety run checks is also a theorem, for every value of the constants that
satisfies the named assumptions (which TLC evaluates in the runs). Each proof has an
inductive invariant, one lemma per action that it survives, and a temporal last step.

`TenderPipelineProofs` (no assumptions):
* `Invariance`: the inductive invariant ties the node about to run to the steps and
  approvals it can be reached with. `DraftNeedsApproval` is not inductive: a proposal
  drafted at `proposal` is authorised only because that node is entered from
  `approved` alone, which the invariant records, as well as that a rejected run is
  at the end and cannot come back.
* `TypeCorrect`, `DraftOnlyAfterApproval`: its two consequences.
* `ImplementsWorkflowSteps`: `TenderPipeline` implements the safety part of
  `TenderWorkflow` (`Safety`). A node inside a subgraph is a stutter, the last one is
  `Advance`, the interrupt is `Resume`, a constructor that raises is a stutter.
* `BooksBalance`, and from it `NoSilentFailure` (`EveryGapHasAnError`) and `ListsDouble`
  (`ListsDoubleAtEverySubgraph`): both count what the run still has to do, too. The
  invariant (`Books`) orders the nodes by turn and by layer and says at each node that
  agents whose turn is to come have left nothing (`Untouched`), that the supervisor holds
  the entries of the subgraphs that have ended and none of the one that runs (`Held`), and
  that an agent that had its turn and was not excused by the routing has a result or an
  error, not both (`Accounted`). A list then has one
  entry of an agent for every subgraph entered since, doubled.

`RunSessionProofs` (assuming only that the constants' names differ), for any number of
requests, streams and processes:
* `SessionInvariance`: besides the types, before submission nothing exists
  (`Unsubmitted`), a task of a decision finds a checkpoint to resume (`Resumable`), a
  running task stands at a step (`Underway`), and each task of a decision belongs to
  an accepted request (`Carried`). Without `Carried` the approval behind an
  execution step could not be found again after the handler has answered.
* `SessionTypes`, `ReclaimAlwaysArmed` (`QueueReclaimArmed`), `ExecutionAuthorised`
  (`ExecutionNeedsAcceptedApproval`).
* `DecisionInvariance`: while one decision was accepted at most, the checkpoint is where
  the analysis (`AnalysisLeads`) or the decision (`DecisionLeads`) has taken it, and no
  other task moves it; the store shows what the checkpoint has (`Synced`). From it
  `LoneDecisionHonoured` (`SoleDecisionHonoured`), and `SnapshotIsAWorkflow`
  (`SoleDecisionFollowsWorkflow`): the chunk a resume repeats is the step the
  snapshot has, so it is a stutter of `TenderWorkflow`. Two decisions break both, which
  is what the run `two_decisions` shows.
* `StreamInvariance`, with the hypothesis `OneStream` (a run has one stream, of any number
  of reconnections): the queue continues what the open stream was sent and ends with
  the step that the next chunk is compared with (`Flow`). From it `StreamWillClose`
  (`OpenStreamWillClose`) and `StreamOnRouting` (`StreamFollowsRouting`). The hypothesis
  is the run's: with two streams both fail, as said under Bounds.

`WatchPollProofs` (assuming `ConstantsFit`: keywords match editais of the model, the
loop is a poller, lookback and last day are numbers), for any number of
configurations, editais, pollers, days and any lookback:
* `WatchInvariance`: `NothingSkipped` is not inductive, because it says nothing of the
  searches under way. The invariant adds that a search reaches back to its
  configuration's last poll, even when another cycle has stamped it meanwhile, and has
  to find what its window held before the day it was asked on (`Thorough`), and that
  nothing carries a date to come (`Past`).
* `WatchTypes`, `OneAnalysis` (`OneRunPerEdital`), `NoDaySkipped` (`NothingSkipped`).

`RadarProofs` (assuming `ConstantsFit`: the markers are no days, predictions or rows,
the bounds are numbers), for any number of tenants, items and executions:
* `RadarInvariance`: `OneAlertUnlessExcused` and `AlertedIsPublished` speak of committed
  rows and of alerts, and break as soon as a transaction commits, unless what it wrote
  is known. The invariant says that a row is written by one session at a time
  (`LockHeldByOne`), which rows each phase lists, holds and writes (`PhaseState`), that
  a transaction's copy differs from the row beneath it only by what its phase does
  (`WrittenOver`; this holds because of the lock), and for each prediction that an
  alert is either committed as a mark, or carried by just one open dispatch, or
  excused (`Accounted`).
* `RadarTypes`, `OneAlert` (`OneAlertUnlessExcused`), `NoAlertWrittenOff`
  (`AlertedIsPublished`), `DismissalsStand` (`DismissalStands`).

The nine services are proved each for itself, for any constants that satisfy the
module's `...Fit`; the results are then carried over to `Services`.

`UsageProofs`:
* agents: `CallsTypes`, `MetricsAreNeverDoubled` (`MetricInOnePlace`),
  `OwnMetricReported` (`OwnMetricUnlessShared`). The invariant adds that a metric
  is nowhere before its call has answered (`NoMetricYet`), that the slot of the agent on
  the event loop is empty between its steps (`LoopSlotEmpty`), that calls of one agent in
  flight together are on record as such (`SharersKnown`), and that the metric of a
  call that shared its agent with nobody waits in the slot (`OwnMetricWaits`).
* billing: `BillingTypes`, `EventsAreFound` (`EventsFindTheirTenant`),
  `StatusIsStripes` (`StatusFollowsStripe`). The invariant ties the stored customer and
  subscription to the activating events applied, since only these say whom a look-up
  can find (`StoresOwnIds`, `ActivationsAreStored`), and names the newest event applied
  and the newest that names a plan, as long as none was overtaken (`NewestDecides`).

`DeliveryProofs`:
* notifications: `DispatcherTypes`, `AlertsAreNotRepeated` (`OncePerWindow`). What was
  sent does not say what is about to be: the invariant adds that decisions of calls in
  flight, too, lie a window apart and that `lastSent` is the newest of them.
* intake: `IntakeTypes`, `AcceptedDocumentsAreKept` (`AcceptedIsNotLost`). The
  invariant says what a worker at each step has done already.
* approvals: `AnnouncedIsOnRecord` (`AnnouncedMatchesUnlessLate`). The UPDATE and the
  publication are apart, so the invariant follows the request that the database let
  win until it has published: it is the one that wrote the row (`DecidedByWinners`), and
  no row has two (`OneWinnerPerRun`).

`FiguresProofs`:
* board: `PagesDifferByFailedRuns` (`LossesDifferByFailedRuns`) and
  `CardsMoveBackOnApproval` (`MovesBackOnApprovalOnly`, an action property). Only finitely
  many runs exist at a time, which is what makes counting them meaningful. A snapshot says
  nothing of the tasks that will overwrite it: the invariant adds that neither the snapshot
  nor any task is in the execution phase without an accepted approval
  (`ExecutionIsApproved`), that a decision is accepted only for a run that had come to
  one (`VerdictsAreOfRuns`), and that the task of an only decision is where the snapshot is
  (`SoleTaskLeads`). The last is what two decisions break.
* contracts: `PagesAgree` (`ReportsAgree`) and `ScoreDoesNotRiseByItself`
  (`ScoreRisesByTimeOnlyOnLapse`): time adds to what is about to lapse and to what is
  overdue (`TimeAddsUp`), each lowers the score, and the rounding keeps the order
  (`RoundGrows`).
* calculators: `AnswersAreRight` (`AnswersMatchReference`), for every opening date,
  notice, price, cost, term and revenue. The backward loop stays on the way to one
  deadline (`DeadlineStep`); what tax and financing take of a rise of two cents or more
  is no more than the rise (`RoundedRise`); a step between two scenarios' prices is one
  cent only below 40 cents. That exception comes from the proof: the first form of
  `HigherPriceLeavesMore` claimed the order without it and held on the values then
  checked, but fails at 20 cents paid after 77 days in the 33 % bracket. The statement now
  has it, and the run the values.

`ServicesProofs`:
* `MergeKeepsFirsts` (`FirstOccurrenceWins`), for any adapters and lists of any length: the
  two loops are shown to be runs of their bodies (`TakeAllRuns`, `MergedRuns`), and what
  each step of them keeps (`TakeIsSound`) holds at their end.
* `ServicesTypes` (`TypeOK`) and `ServicesAreSafe`, the conjunction of the properties that
  the run `services` checks. A behaviour of `Services` is one of each service's own
  specification by the shape of its `Next`, which says nothing of the code; the lemma that
  states it (`ServicesAreIndependent`) is only how the services' theorems are carried
  over.

The library's induction theorems take an operator as their parameter, which the provers
cannot instantiate. Where a loop or a recursive function needs induction, it is by the
smallest counterexample: `Smallest` gives every nonempty set of numbers a least member
(finite sets of numbers are well-founded under inclusion), and `LoopHolds`, `LoopRuns`
and `BackArrives` rest on it.

### Only model-checked

Liveness is out of the prover's reach and stays with TLC: `RunSettles`, the liveness part
of `ImplementsWorkflow`, `DecisionTakesEffect`, `StreamEnds`, `QueueReclaimed`,
`NewEditalIsAnalysed`, `DueIsAlerted`. The five violations are
TLC's as well.

## 5. Not modelled

* Contents: prompts, model answers, texts, decimals, serialisation. The models keep
  what the routing and the properties tell apart.
* LangGraph itself: modelled from how `graph/` and `api/` use it (values stream,
  reducers, interrupt and resume, checkpoint per step), marked external in the map.
  Durability is that of a checkpoint per step.
* Authentication and roles, configuration, cloud clients: no state of the program.
* The watch's process life: a restart forgets configurations and seen editais.
* The radar's row level security and columns that decide nothing (`data_prevista_sessao`
  among them); what SQLAlchemy makes of `:raw::jsonb` in `workers/pca_worker.py:47` (a
  refused statement is one of the model's behaviours: the job then stores no items).
* The alert store: no code puts alerts into it. No code constructs the notification
  dispatcher either; it is modelled as its class is written.
* Billing's usage counter: nothing calls `increment_usage`, `evaluate_quota` or the
  monthly reset. Quotas therefore restrict nothing.
* Who inserts rows into `hitl_queue`, several rows of one run, and who would serve
  `/internal/workers/document`: nothing in `src/` does, so that as the code stands an
  accepted document keeps its task for ever. `InsertRow` and `Deliver` are external.
* An error record for a run that an agent's constructor stopped: the code writes none
  (`raised` is the model's), so `errors` does not say why such a run stands still.
* `workers/agents_worker.py` starts the graph with a state that has none of its fields,
  and asks the result for `human_decision_required`, which is not one either: it reads a
  document, runs the graph (`TenderPipeline`) and publishes one event.
  `workers/outcome_worker.py` is one INSERT, `/internal/hitl/notify` one event.
* Money of contracts, call-offs (whose balance can go negative), the adjustment index,
  the score's labels and recommendations: no page compares them with another.
* What a metric says: that the Gemini agents store a cost in dollars as `cost_brl`
  while two others convert, and that `run_id` is no field of the state, so that an agent
  logs its cost under a number nobody looks up, concern one value and no behaviour.
* BDI, margin, working capital: one formula each.
* Certificates and tenants: reads of fixed data and one INSERT.

## 6. Plan

1. The moves of the cards over `RunSession` itself, with a checkpoint and a process that
   crashes; `Board` has the snapshot and the tasks that write it.
2. Several commitments per contract, and call-offs with their balance.
3. A second life of the watch's process.
4. The streams of a run without `OneStream`: what two streams together are sent.
