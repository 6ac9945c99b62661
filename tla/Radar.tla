-------------------------------- MODULE Radar --------------------------------
(***************************************************************************)
(* The radar of announced purchases: pca_worker stores the PCA items,      *)
(* predicts from them for every tenant and dispatches alerts; watch_worker *)
(* confirms predictions against published editals; users dismiss them.     *)
(*                                                                         *)
(* All of them meet in procurement_predictions, each in transactions of    *)
(* its own (PostgreSQL, read committed): a statement reads what has been   *)
(* committed and what its transaction wrote, a row written stays locked    *)
(* until the transaction ends, an aborted transaction leaves nothing, and  *)
(* of sessions that wait for each other one is aborted.  An alert, once    *)
(* published, cannot be taken back.                                        *)
(***************************************************************************)
EXTENDS Integers

CONSTANTS
  Tenants,    \* tenants with a subscription and a vertical
  Items,      \* rows the PCAs can bring to pca_items
  Workers,    \* executions, of pca_worker or watch_worker, that can overlap
  MaxDay,     \* bound: the last day of the model
  MaxFaults,  \* bound: how often a job dies or Pub/Sub refuses an alert
  Never,      \* no day: the confidence is below 70
  None,       \* no prediction
  NoRow       \* no row

Predictions == Tenants \X Items   \* UNIQUE (tenant_id, pca_item_id)
Day == 0..MaxDay

(* The columns that decide.  alertFrom is the first day on which the       *)
(* dispatch selects the row: 40 days before data_prevista_publicacao.      *)
Row == [alertFrom: Day \cup {Never}, alerted: BOOLEAN, edital: BOOLEAN,
        status: {"pendente", "cancelado", "confirmado"}]

ASSUME ConstantsFit ==
  /\ MaxDay \in Nat /\ MaxFaults \in Nat
  /\ Never \notin Int
  /\ None \notin Predictions
  /\ NoRow \notin Row

VARIABLES
  today,
  planned,   \* pca_items
  rows,      \* procurement_predictions, as committed
  tx,        \* what each worker is doing, and what its transaction wrote
  sent,      \* history: the alerts published for each prediction
  excused,   \* history: predictions that lost a mark, and may be alerted again
  faults

vars == <<today, planned, rows, tx, sent, excused, faults>>

(* The rows listed and not yet handled, the row in hand (its statement may *)
(* be waiting for the lock) and what has been written.                     *)
Idle == [phase |-> "idle", todo |-> {}, row |-> None,
         wrote |-> [p \in Predictions |-> NoRow]]

Init ==
  /\ today = 0
  /\ planned = {}
  /\ rows = [p \in Predictions |-> NoRow]
  /\ tx = [s \in Workers |-> Idle]
  /\ sent = [p \in Predictions |-> 0]
  /\ excused = {}
  /\ faults = 0
-----------------------------------------------------------------------------
(* Transactions.                                                           *)
Stored(p) == rows[p] # NoRow
Wrote(s, p) == tx[s].wrote[p] # NoRow
View(s, p) == IF Wrote(s, p) THEN tx[s].wrote[p] ELSE rows[p]
Locked(p) == \E s \in Workers : Wrote(s, p)
LockedFor(s, p) == \E t \in Workers \ {s} : Wrote(t, p)

Committed(s) == [p \in Predictions |-> View(s, p)]

(* s writes the row in hand, once it has the lock, and is done with it.    *)
Write(s, new) ==
  /\ ~LockedFor(s, tx[s].row)
  /\ tx' = [tx EXCEPT ![s].wrote[tx[s].row] = new,
                      ![s].todo = @ \ {tx[s].row},
                      ![s].row = None]

(* What has been published for and not committed as such.                  *)
Unmarked(s) ==
  IF tx[s].phase = "dispatch"
  THEN {p \in Predictions : Wrote(s, p) \/ tx[s].row = p} ELSE {}

Abort(s) ==
  /\ tx' = [tx EXCEPT ![s] = Idle]
  /\ excused' = excused \cup Unmarked(s)
  /\ UNCHANGED <<today, planned, rows, sent>>

(* The process dies, the deadline passes, a statement or commit raises.    *)
Fail(s) ==
  /\ tx[s].phase # "idle"
  /\ faults < MaxFaults
  /\ faults' = faults + 1
  /\ Abort(s)

WaitsFor(s, t) == s # t /\ tx[s].row # None /\ Wrote(t, tx[s].row)

Deadlocked(s) ==
  \E S \in SUBSET Workers :
    /\ s \in S
    /\ \A t \in S : \E u \in S : WaitsFor(t, u)
    /\ \A u \in S : \E t \in S : WaitsFor(t, u)

DeadlockVictim(s) ==
  /\ Deadlocked(s)
  /\ Abort(s)
  /\ UNCHANGED faults
-----------------------------------------------------------------------------
Midnight ==
  /\ today < MaxDay
  /\ today' = today + 1
  /\ UNCHANGED <<planned, rows, tx, sent, excused, faults>>

(* The job brings the items of every agency in one transaction: what the   *)
(* portal leaves out is missing, and a statement that fails, although its  *)
(* exception is swallowed, takes all of them with it (found = {}).  Rows   *)
(* stay: a job only adds to them or refreshes columns nobody decides on.   *)
BeginJob(j, found) ==
  /\ tx[j].phase = "idle"
  /\ planned' = planned \cup found
  /\ tx' = [tx EXCEPT ![j].phase = "predict"]
  /\ UNCHANGED <<today, rows, sent, excused, faults>>

(* One more item, listed for one more tenant, that matches well enough and *)
(* got its embedding: any of those there are.  The tenants' turns and the  *)
(* order of the list, which has no ORDER BY, are left open.                *)
TakeItem(j, p) ==
  /\ tx[j].phase = "predict"
  /\ tx[j].row = None
  /\ p[2] \in planned
  /\ ~Wrote(j, p)
  /\ tx' = [tx EXCEPT ![j].row = p]
  /\ UNCHANGED <<today, planned, rows, sent, excused, faults>>

NewPrediction(alertFrom) ==
  [alertFrom |-> alertFrom, alerted |-> FALSE, edital |-> FALSE, status |-> "pendente"]

(* Fault: a new date asks for a new alert. *)
UpsertedUnalerted(old, alertFrom) ==
  IF old = NoRow THEN NewPrediction(alertFrom)
  ELSE [old EXCEPT !.alertFrom = alertFrom, !.alerted = FALSE]

(* Fault: the conflict also refreshes the status. *)
UpsertedPending(old, alertFrom) ==
  IF old = NoRow THEN NewPrediction(alertFrom)
  ELSE [old EXCEPT !.alertFrom = alertFrom, !.status = "pendente"]

Upserted(old, alertFrom) ==
  IF old = NoRow THEN NewPrediction(alertFrom)
  ELSE [old EXCEPT !.alertFrom = alertFrom]

UpsertPrediction(j, alertFrom) ==
  /\ tx[j].phase = "predict"
  /\ tx[j].row # None
  /\ Write(j, Upserted(View(j, tx[j].row), alertFrom))
  /\ UNCHANGED <<today, planned, rows, sent, excused, faults>>

CommitPredictions(j) ==
  /\ tx[j].phase = "predict" /\ tx[j].row = None
  /\ rows' = Committed(j)
  /\ tx' = [tx EXCEPT ![j] = [Idle EXCEPT !.phase = "alert"]]
  /\ UNCHANGED <<today, planned, sent, excused, faults>>
-----------------------------------------------------------------------------
Due(p) ==
  /\ Stored(p)
  /\ ~rows[p].alerted
  /\ ~rows[p].edital
  /\ rows[p].alertFrom \in 0..today

Listed(w, p) == tx[w].phase = "dispatch" /\ (p \in tx[w].todo \/ Wrote(w, p))

(* Nothing keeps two dispatches from listing a row at the same time: both  *)
(* publish it then, so it is excused.                                      *)
BeginDispatch(j) ==
  LET due == {p \in Predictions : Due(p)}
  IN /\ tx[j].phase = "alert"
     /\ tx' = [tx EXCEPT ![j].phase = "dispatch", ![j].todo = due]
     /\ excused' = excused \cup {p \in due : \E w \in Workers : Listed(w, p)}
     /\ UNCHANGED <<today, planned, rows, sent, faults>>

(* A prediction that is excused is counted once. *)
Publish(j, p) ==
  /\ tx[j].phase = "dispatch"
  /\ tx[j].row = None
  /\ p \in tx[j].todo
  /\ sent' = [sent EXCEPT ![p] = IF p \in excused THEN 1 ELSE @ + 1]
  /\ tx' = [tx EXCEPT ![j].row = p]
  /\ UNCHANGED <<today, planned, rows, excused, faults>>

(* Fault: the row is marked although nothing was published. *)
PublishFailsUnnoticed(j, p) ==
  /\ tx[j].phase = "dispatch" /\ tx[j].row = None /\ p \in tx[j].todo
  /\ faults < MaxFaults
  /\ faults' = faults + 1
  /\ tx' = [tx EXCEPT ![j].row = p]
  /\ UNCHANGED <<today, planned, rows, sent, excused>>

PublishFails(j, p) ==
  /\ tx[j].phase = "dispatch"
  /\ tx[j].row = None
  /\ p \in tx[j].todo
  /\ faults < MaxFaults
  /\ faults' = faults + 1
  /\ tx' = [tx EXCEPT ![j].todo = @ \ {p}]
  /\ UNCHANGED <<today, planned, rows, sent, excused>>

MarkAlerted(j) ==
  /\ tx[j].phase = "dispatch"
  /\ tx[j].row # None
  /\ Write(j, [View(j, tx[j].row) EXCEPT !.alerted = TRUE])
  /\ UNCHANGED <<today, planned, rows, sent, excused, faults>>

(* Fault: the session is closed without a commit. *)
CommitDispatchForgotten(j) ==
  /\ tx[j].phase = "dispatch" /\ tx[j].todo = {}
  /\ tx' = [tx EXCEPT ![j] = Idle]
  /\ UNCHANGED <<today, planned, rows, sent, excused, faults>>

CommitDispatch(j) ==
  /\ tx[j].phase = "dispatch" /\ tx[j].todo = {}
  /\ rows' = Committed(j)
  /\ tx' = [tx EXCEPT ![j] = Idle]
  /\ UNCHANGED <<today, planned, sent, excused, faults>>
-----------------------------------------------------------------------------
BeginXref(x) ==
  /\ tx[x].phase = "idle"
  /\ tx' = [tx EXCEPT ![x].phase = "xref"]
  /\ UNCHANGED <<today, planned, rows, sent, excused, faults>>

(* For one more analysed edital: predictions of its agency without edital, *)
(* near in time and in meaning.                                            *)
CrossReference(x, similar) ==
  /\ tx[x].phase = "xref" /\ tx[x].todo = {}
  /\ similar # {}
  /\ \A p \in similar : View(x, p) # NoRow /\ ~View(x, p).edital
  /\ tx' = [tx EXCEPT ![x].todo = similar]
  /\ UNCHANGED <<today, planned, rows, sent, excused, faults>>

TakePrediction(x, p) ==
  /\ tx[x].phase = "xref"
  /\ tx[x].row = None
  /\ p \in tx[x].todo
  /\ tx' = [tx EXCEPT ![x].row = p]
  /\ UNCHANGED <<today, planned, rows, sent, excused, faults>>

Confirm(x) ==
  /\ tx[x].phase = "xref"
  /\ tx[x].row # None
  /\ Write(x, [View(x, tx[x].row) EXCEPT !.edital = TRUE, !.status = "confirmado"])
  /\ UNCHANGED <<today, planned, rows, sent, excused, faults>>

CommitXref(x) ==
  /\ tx[x].phase = "xref" /\ tx[x].todo = {}
  /\ rows' = Committed(x)
  /\ tx' = [tx EXCEPT ![x] = Idle]
  /\ UNCHANGED <<today, planned, sent, excused, faults>>

DismissPrediction(p) ==
  /\ Stored(p)
  /\ ~Locked(p)
  /\ rows' = [rows EXCEPT ![p].status = "cancelado"]
  /\ UNCHANGED <<today, planned, tx, sent, excused, faults>>
-----------------------------------------------------------------------------
(* Fault: a month gone by is not moved to the next year. *)
ForecastStale == {d \in -1..MaxDay : d >= today - 1} \cup {Never}

(* calc_data_prevista never gives a day in the past: what is selected at   *)
(* once is selected from today.                                            *)
Forecast == {d \in Day : d >= today} \cup {Never}

PredictStep(j) ==
  \/ \E p \in Predictions : TakeItem(j, p)
  \/ \E d \in Forecast : UpsertPrediction(j, d)
  \/ CommitPredictions(j)

DispatchStep(j) ==
  \/ BeginDispatch(j)
  \/ \E p \in Predictions : Publish(j, p)
  \/ MarkAlerted(j)
  \/ CommitDispatch(j)

ConfirmStep(x) ==
  \/ \E p \in Predictions : TakePrediction(x, p)
  \/ Confirm(x)
  \/ CommitXref(x)

Next ==
  \/ Midnight
  \/ \E w \in Workers :
       \/ \E found \in SUBSET Items : BeginJob(w, found)
       \/ PredictStep(w) \/ DispatchStep(w)
       \/ \E p \in Predictions : PublishFails(w, p)
       \/ BeginXref(w) \/ ConfirmStep(w)
       \/ \E similar \in SUBSET Predictions : CrossReference(w, similar)
       \/ Fail(w) \/ DeadlockVictim(w)
  \/ \E p \in Predictions : DismissPrediction(p)

Spec == Init /\ [][Next]_vars

(* The scheduler starts the job again and again, a worker that is not      *)
(* killed goes on (who waits for a lock has a place in its queue: SF), and *)
(* PostgreSQL breaks deadlocks.                                            *)
FairSpec ==
  /\ Spec
  /\ \A w \in Workers : /\ SF_vars(\E found \in SUBSET Items : BeginJob(w, found))
                         /\ SF_vars(PredictStep(w))
                         /\ SF_vars(DispatchStep(w))
                         /\ SF_vars(ConfirmStep(w))
  /\ WF_vars(\E w \in Workers : DeadlockVictim(w))
-----------------------------------------------------------------------------
(* Types; a row is never selected for a day that is not in the calendar,   *)
(* however late the forecast that wrote it.                                *)
TypeOK ==
  /\ today \in Day
  /\ planned \subseteq Items
  /\ rows \in [Predictions -> Row \cup {NoRow}]
  /\ tx \in [Workers ->
       [phase: {"idle", "predict", "alert", "dispatch", "xref"},
        todo: SUBSET Predictions,
        row: Predictions \cup {None}, wrote: [Predictions -> Row \cup {NoRow}]]]
  /\ sent \in [Predictions -> Nat]
  /\ excused \subseteq Predictions
  /\ faults \in 0..MaxFaults

(* The weekly runs do not repeat themselves: a prediction that is          *)
(* predicted again, dismissed or confirmed keeps its mark, and a second    *)
(* alert for it means that the transaction of the first was lost, or that  *)
(* two executions dispatched side by side.                                 *)
OneAlertUnlessExcused ==
  \A p \in Predictions : p \notin excused => sent[p] <= 1

(* No alert is written off: a row marked as alerted has been published,    *)
(* though marks are committed long after, and all at once, and a refusal   *)
(* by Pub/Sub does not end the job.                                        *)
AlertedIsPublished ==
  \A p \in Predictions : Stored(p) /\ rows[p].alerted => sent[p] > 0

(* A tenant's dismissal outlives the jobs that write the same rows: only   *)
(* the publication of the edital brings a prediction back to the list.     *)
DismissalStands ==
  [][\A p \in Predictions :
       Stored(p) /\ rows[p].status = "cancelado" /\ rows'[p].status # "cancelado"
       => rows'[p].status = "confirmado" /\ rows'[p].edital]_vars

(* A prediction that is due is alerted in the end, unless its edital comes *)
(* out first or a later forecast puts it off: whatever jobs die and        *)
(* whichever alerts Pub/Sub refuses on the way.                            *)
DueIsAlerted ==
  \A p \in Predictions : Due(p) ~> ~Due(p)
=============================================================================
