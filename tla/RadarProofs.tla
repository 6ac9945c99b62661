---------------------------- MODULE RadarProofs -----------------------------
(***************************************************************************)
(* What holds of the radar for any tenants, items and number of workers.   *)
(***************************************************************************)
EXTENDS Radar, TLAPS

(* No two transactions have written the same row. *)
LockHeldByOne ==
  \A v, w \in Workers : \A p \in Predictions :
    Wrote(v, p) /\ Wrote(w, p) => v = w

(* What a worker can have in hand in each phase. *)
InHand(w) ==
  /\ tx[w].phase \in {"idle", "alert"} =>
       tx[w].todo = {} /\ tx[w].row = None /\ \A p \in Predictions : ~Wrote(w, p)
  /\ tx[w].phase \in {"dispatch", "xref"} =>
       /\ tx[w].row # None => tx[w].row \in tx[w].todo
       /\ \A p \in tx[w].todo : View(w, p) # NoRow
       /\ \A p \in Predictions : Wrote(w, p) => Stored(p)
  /\ tx[w].phase = "dispatch" => \A p \in tx[w].todo : ~Wrote(w, p)

PhaseState == \A w \in Workers : InHand(w)

(* What a transaction wrote differs from the row in what it is about only. *)
Over(w, p) ==
  LET new == tx[w].wrote[p] IN
    /\ tx[w].phase = "dispatch" => new.alerted
    /\ tx[w].phase # "dispatch" /\ Stored(p) => new.alerted = rows[p].alerted
    /\ ~Stored(p) => ~new.alerted
    /\ Stored(p) => \/ new.status = rows[p].status
                    \/ new.status = "confirmado" /\ new.edital

WrittenOver ==
  \A w \in Workers : \A p \in Predictions : Wrote(w, p) => Over(w, p)

(* Who has published for a prediction, and who is about to. *)
Accounted(p) ==
  /\ Stored(p) /\ rows[p].alerted => sent[p] > 0
  /\ \A w \in Workers : p \in Unmarked(w) => sent[p] > 0
  /\ p \notin excused =>
       /\ \A v, w \in Workers : Listed(v, p) /\ Listed(w, p) => v = w
       /\ sent[p] <= 1
       /\ sent[p] = 1 => \/ Stored(p) /\ rows[p].alerted
                         \/ \E w \in Workers : p \in Unmarked(w)
       /\ \A w \in Workers : Listed(w, p) /\ p \notin Unmarked(w) => sent[p] = 0

AllAccounted == \A p \in Predictions : Accounted(p)

IInv ==
  /\ TypeOK
  /\ LockHeldByOne
  /\ PhaseState
  /\ WrittenOver
  /\ AllAccounted
-----------------------------------------------------------------------------
(* A transaction sees rows of the table's type, or none. *)
LEMMA ViewType ==
  ASSUME TypeOK, NEW w \in Workers, NEW p \in Predictions
  PROVE  View(w, p) \in Row \cup {NoRow}
BY DEF TypeOK, View

(* The state that every worker starts from and returns to has its type. *)
LEMMA IdleType ==
  Idle \in [phase: {"idle", "predict", "alert", "dispatch", "xref"},
            todo: SUBSET Predictions, row: Predictions \cup {None},
            wrote: [Predictions -> Row \cup {NoRow}]]
BY DEF Idle

(* A row written by a worker that has one in hand leaves tx well typed. *)
LEMMA WriteType ==
  ASSUME TypeOK, NEW w \in Workers, NEW new \in Row,
         tx[w].row # None, Write(w, new)
  PROVE  tx' \in [Workers ->
           [phase: {"idle", "predict", "alert", "dispatch", "xref"},
            todo: SUBSET Predictions, row: Predictions \cup {None},
            wrote: [Predictions -> Row \cup {NoRow}]]]
BY DEF TypeOK, Write

(* An upsert gives a row. *)
LEMMA UpsertedType ==
  ASSUME TypeOK, NEW old \in Row \cup {NoRow}, NEW d \in Forecast
  PROVE  Upserted(old, d) \in Row
BY ConstantsFit DEF TypeOK, Upserted, NewPrediction, Forecast, Row, Day

(* What a transaction commits is a table. *)
LEMMA CommittedType ==
  ASSUME TypeOK, NEW w \in Workers
  PROVE  Committed(w) \in [Predictions -> Row \cup {NoRow}]
BY ViewType DEF Committed
-----------------------------------------------------------------------------
(* A dispatch or a confirmation has a stored row in hand. *)
LEMMA RowInHand ==
  ASSUME TypeOK, PhaseState, NEW w \in Workers,
         tx[w].phase \in {"dispatch", "xref"}, tx[w].row # None
  PROVE  tx[w].row \in Predictions /\ View(w, tx[w].row) \in Row
BY ViewType DEF TypeOK, PhaseState, InHand

(* Every action, at any worker, keeps the types. *)
LEMMA TypeStep == TypeOK /\ PhaseState /\ [Next]_vars => TypeOK'
<1> SUFFICES ASSUME TypeOK, PhaseState, [Next]_vars PROVE TypeOK'
  OBVIOUS
<1> USE ConstantsFit DEF TypeOK, Day
<1>1. CASE Midnight
  BY <1>1 DEF Midnight
<1>2. ASSUME NEW w \in Workers, NEW found \in SUBSET Items, BeginJob(w, found)
      PROVE  TypeOK'
  BY <1>2 DEF BeginJob
<1>3. ASSUME NEW w \in Workers, PredictStep(w) PROVE TypeOK'
  <2>1. ASSUME NEW p \in Predictions, TakeItem(w, p) PROVE TypeOK'
    BY <2>1 DEF TakeItem
  <2>2. ASSUME NEW d \in Forecast, UpsertPrediction(w, d) PROVE TypeOK'
    <3>1. tx[w].row \in Predictions
      BY <2>2 DEF UpsertPrediction
    <3>2. Upserted(View(w, tx[w].row), d) \in Row
      BY <3>1, ViewType, UpsertedType
    <3> QED
      BY <2>2, <3>2, WriteType DEF UpsertPrediction
  <2>3. CASE CommitPredictions(w)
    BY <2>3, CommittedType, IdleType DEF CommitPredictions
  <2> QED
    BY <1>3, <2>1, <2>2, <2>3 DEF PredictStep
<1>4. ASSUME NEW w \in Workers, DispatchStep(w) PROVE TypeOK'
  <2>1. CASE BeginDispatch(w)
    <3>1. excused' \subseteq Predictions
      BY <2>1 DEF BeginDispatch
    <3>2. {p \in Predictions : Due(p)} \in SUBSET Predictions
      OBVIOUS
    <3> QED
      BY <2>1, <3>1, <3>2 DEF BeginDispatch
  <2>2. ASSUME NEW p \in Predictions, Publish(w, p) PROVE TypeOK'
    BY <2>2 DEF Publish
  <2>3. CASE MarkAlerted(w)
    <3>1. [View(w, tx[w].row) EXCEPT !.alerted = TRUE] \in Row
      BY <2>3, RowInHand DEF MarkAlerted, Row
    <3> QED
      BY <2>3, <3>1, WriteType DEF MarkAlerted
  <2>4. CASE CommitDispatch(w)
    BY <2>4, CommittedType, IdleType DEF CommitDispatch
  <2> QED
    BY <1>4, <2>1, <2>2, <2>3, <2>4 DEF DispatchStep
<1>5. ASSUME NEW w \in Workers, NEW p \in Predictions, PublishFails(w, p)
      PROVE  TypeOK'
  BY <1>5 DEF PublishFails
<1>6. ASSUME NEW w \in Workers, BeginXref(w) PROVE TypeOK'
  BY <1>6 DEF BeginXref
<1>7. ASSUME NEW w \in Workers, ConfirmStep(w) PROVE TypeOK'
  <2>1. ASSUME NEW p \in Predictions, TakePrediction(w, p) PROVE TypeOK'
    BY <2>1 DEF TakePrediction
  <2>2. CASE Confirm(w)
    <3>1. [View(w, tx[w].row) EXCEPT !.edital = TRUE, !.status = "confirmado"] \in Row
      BY <2>2, RowInHand DEF Confirm, Row
    <3> QED
      BY <2>2, <3>1, WriteType DEF Confirm
  <2>3. CASE CommitXref(w)
    BY <2>3, CommittedType, IdleType DEF CommitXref
  <2> QED
    BY <1>7, <2>1, <2>2, <2>3 DEF ConfirmStep
<1>8. ASSUME NEW w \in Workers, NEW similar \in SUBSET Predictions,
             CrossReference(w, similar)
      PROVE  TypeOK'
  BY <1>8 DEF CrossReference
<1>9. ASSUME NEW w \in Workers, Fail(w) \/ DeadlockVictim(w) PROVE TypeOK'
  <2>1. Abort(w) /\ faults' \in 0..MaxFaults
    BY <1>9 DEF Fail, DeadlockVictim
  <2>2. Unmarked(w) \subseteq Predictions
    BY DEF Unmarked
  <2> QED
    BY <2>1, <2>2, IdleType DEF Abort
<1>10. ASSUME NEW p \in Predictions, DismissPrediction(p) PROVE TypeOK'
  BY <1>10 DEF DismissPrediction, Stored, Row
<1>11. CASE UNCHANGED vars
  BY <1>11 DEF vars
<1> QED
  BY <1>1, <1>2, <1>3, <1>4, <1>5, <1>6, <1>7, <1>8, <1>9, <1>10, <1>11 DEF Next
(* What a write does, for the worker and for the others. *)
LEMMA WriteEffect ==
  ASSUME TypeOK, NEW w \in Workers, NEW new, tx[w].row \in Predictions, Write(w, new)
  PROVE  /\ \A v \in Workers \ {w} : tx'[v] = tx[v] /\ ~Wrote(v, tx[w].row)
         /\ tx'[w].phase = tx[w].phase
         /\ tx'[w].row = None
         /\ tx'[w].todo = tx[w].todo \ {tx[w].row}
         /\ \A p \in Predictions :
              tx'[w].wrote[p] = IF p = tx[w].row THEN new ELSE tx[w].wrote[p]
BY DEF TypeOK, Write, LockedFor

(* An upsert, a mark and a confirmation write a row into the row in hand. *)
LEMMA UpsertWrites ==
  ASSUME TypeOK, NEW w \in Workers, NEW d \in Forecast, UpsertPrediction(w, d)
  PROVE  /\ tx[w].row \in Predictions
         /\ Upserted(View(w, tx[w].row), d) \in Row
         /\ Write(w, Upserted(View(w, tx[w].row), d))
<1>1. tx[w].row \in Predictions
  BY DEF TypeOK, UpsertPrediction
<1> QED
  BY <1>1, ViewType, UpsertedType DEF UpsertPrediction

(* The same of a mark. *)
LEMMA MarkWrites ==
  ASSUME TypeOK, PhaseState, NEW w \in Workers, MarkAlerted(w)
  PROVE  /\ tx[w].row \in Predictions
         /\ View(w, tx[w].row) \in Row
         /\ [View(w, tx[w].row) EXCEPT !.alerted = TRUE] \in Row
         /\ Write(w, [View(w, tx[w].row) EXCEPT !.alerted = TRUE])
BY RowInHand DEF MarkAlerted, Row

(* The same of a confirmation. *)
LEMMA ConfirmWrites ==
  ASSUME TypeOK, PhaseState, NEW w \in Workers, Confirm(w)
  PROVE  /\ tx[w].row \in Predictions
         /\ View(w, tx[w].row) \in Row
         /\ [View(w, tx[w].row) EXCEPT !.edital = TRUE, !.status = "confirmado"] \in Row
         /\ Write(w, [View(w, tx[w].row) EXCEPT !.edital = TRUE, !.status = "confirmado"])
BY RowInHand DEF Confirm, Row

(* A dismissal changes the status of a row nobody has written. *)
LEMMA DismissEffect ==
  ASSUME TypeOK, NEW p \in Predictions, DismissPrediction(p)
  PROVE  /\ rows[p] \in Row /\ rows'[p] \in Row
         /\ rows'[p].alerted = rows[p].alerted
         /\ rows'[p].status = "cancelado"
         /\ \A q \in Predictions \ {p} : rows'[q] = rows[q]
         /\ \A w \in Workers : ~Wrote(w, p)
<1>1. rows[p] \in Row
  BY DEF TypeOK, DismissPrediction, Stored
<1>2. rows' = [rows EXCEPT ![p] = [rows[p] EXCEPT !.status = "cancelado"]]
  BY DEF DismissPrediction
<1>3. rows'[p] = [rows[p] EXCEPT !.status = "cancelado"]
  BY <1>2 DEF TypeOK
<1> QED
  BY <1>1, <1>2, <1>3 DEF TypeOK, DismissPrediction, Locked, Row

(* A row is written only by who finds it unlocked. *)
LEMMA LockStep ==
  ASSUME TypeOK, LockHeldByOne, [Next]_vars
  PROVE  LockHeldByOne'
<1> USE ConstantsFit DEF TypeOK, LockHeldByOne, Wrote, Write, LockedFor, Idle
<1>1. CASE Midnight
  BY <1>1 DEF Midnight
<1>2. ASSUME NEW w \in Workers, NEW found \in SUBSET Items, BeginJob(w, found)
      PROVE  LockHeldByOne'
  BY <1>2 DEF BeginJob
<1>3. ASSUME NEW w \in Workers, NEW p \in Predictions, TakeItem(w, p)
      PROVE  LockHeldByOne'
  BY <1>3 DEF TakeItem
<1>4. ASSUME NEW w \in Workers, NEW d \in Forecast, UpsertPrediction(w, d)
      PROVE  LockHeldByOne'
  BY <1>4 DEF UpsertPrediction
<1>5. ASSUME NEW w \in Workers, CommitPredictions(w) PROVE LockHeldByOne'
  BY <1>5 DEF CommitPredictions
<1>6. ASSUME NEW w \in Workers, BeginDispatch(w) PROVE LockHeldByOne'
  BY <1>6 DEF BeginDispatch
<1>7. ASSUME NEW w \in Workers, NEW p \in Predictions, Publish(w, p)
      PROVE  LockHeldByOne'
  BY <1>7 DEF Publish
<1>8. ASSUME NEW w \in Workers, MarkAlerted(w) PROVE LockHeldByOne'
  BY <1>8 DEF MarkAlerted
<1>9. ASSUME NEW w \in Workers, CommitDispatch(w) PROVE LockHeldByOne'
  BY <1>9 DEF CommitDispatch
<1>10. ASSUME NEW w \in Workers, NEW p \in Predictions, PublishFails(w, p)
      PROVE  LockHeldByOne'
  BY <1>10 DEF PublishFails
<1>11. ASSUME NEW w \in Workers, BeginXref(w) PROVE LockHeldByOne'
  BY <1>11 DEF BeginXref
<1>12. ASSUME NEW w \in Workers, NEW p \in Predictions, TakePrediction(w, p)
      PROVE  LockHeldByOne'
  BY <1>12 DEF TakePrediction
<1>13. ASSUME NEW w \in Workers, Confirm(w) PROVE LockHeldByOne'
  BY <1>13 DEF Confirm
<1>14. ASSUME NEW w \in Workers, CommitXref(w) PROVE LockHeldByOne'
  BY <1>14 DEF CommitXref
<1>15. ASSUME NEW w \in Workers, NEW similar \in SUBSET Predictions,
              CrossReference(w, similar)
       PROVE  LockHeldByOne'
  BY <1>15 DEF CrossReference
<1>16. ASSUME NEW w \in Workers, Abort(w) PROVE LockHeldByOne'
  BY <1>16 DEF Abort
<1>17. ASSUME NEW p \in Predictions, DismissPrediction(p) PROVE LockHeldByOne'
  BY <1>17 DEF DismissPrediction
<1>18. CASE UNCHANGED vars
  BY <1>18 DEF vars
<1> QED
  BY <1>1, <1>2, <1>3, <1>4, <1>5, <1>6, <1>7, <1>8, <1>9, <1>10, <1>11, <1>12, <1>13, <1>14, <1>15, <1>16, <1>17, <1>18
  DEF Next, PredictStep, DispatchStep, ConfirmStep, Fail, DeadlockVictim

(* Each phase keeps to its rows. *)
LEMMA PhaseStep ==
  ASSUME TypeOK, LockHeldByOne, PhaseState, [Next]_vars
  PROVE  PhaseState'
<1> USE ConstantsFit DEF TypeOK, PhaseState, InHand, Wrote, View, Stored, Idle, Committed
<1>1. CASE Midnight
  BY <1>1 DEF Midnight
<1>2. ASSUME NEW w \in Workers, NEW found \in SUBSET Items, BeginJob(w, found)
      PROVE  PhaseState'
  BY <1>2 DEF BeginJob
<1>3. ASSUME NEW w \in Workers, NEW p \in Predictions, TakeItem(w, p)
      PROVE  PhaseState'
  BY <1>3 DEF TakeItem
<1>4. ASSUME NEW w \in Workers, NEW d \in Forecast, UpsertPrediction(w, d)
      PROVE  PhaseState'
  <2>1. tx[w].phase = "predict" /\ rows' = rows
    BY <1>4 DEF UpsertPrediction
  <2>2. /\ \A v \in Workers \ {w} : tx'[v] = tx[v]
        /\ tx'[w].phase = "predict"
    BY <2>1, <1>4, UpsertWrites, WriteEffect
  <2> QED
    BY <2>1, <2>2
<1>5. ASSUME NEW w \in Workers, CommitPredictions(w) PROVE PhaseState'
  BY <1>5 DEF CommitPredictions
<1>6. ASSUME NEW w \in Workers, BeginDispatch(w) PROVE PhaseState'
  <2>1. rows' = rows /\ \A v \in Workers \ {w} : tx'[v] = tx[v]
    BY <1>6 DEF BeginDispatch
  <2>2. /\ tx'[w].phase = "dispatch" /\ tx'[w].todo = {p \in Predictions : Due(p)}
        /\ tx'[w].row = None /\ \A p \in Predictions : tx'[w].wrote[p] = NoRow
    BY <1>6 DEF BeginDispatch
  <2> QED
    BY <2>1, <2>2 DEF Due
<1>7. ASSUME NEW w \in Workers, NEW p \in Predictions, Publish(w, p)
      PROVE  PhaseState'
  BY <1>7 DEF Publish
<1>8. ASSUME NEW w \in Workers, MarkAlerted(w) PROVE PhaseState'
  <2> DEFINE new == [View(w, tx[w].row) EXCEPT !.alerted = TRUE]
  <2>1. rows' = rows
    BY <1>8 DEF MarkAlerted
  <2>2. /\ tx[w].row \in Predictions /\ new \in Row /\ View(w, tx[w].row) \in Row
        /\ Write(w, new)
    BY <1>8, MarkWrites
  <2>3. /\ \A v \in Workers \ {w} : tx'[v] = tx[v] /\ ~Wrote(v, tx[w].row)
        /\ tx'[w].phase = tx[w].phase
        /\ tx'[w].row = None
        /\ tx'[w].todo = tx[w].todo \ {tx[w].row}
    BY <2>2, WriteEffect
  <2>4. \A p \in Predictions :
          tx'[w].wrote[p] = IF p = tx[w].row THEN new ELSE tx[w].wrote[p]
    BY <2>2, WriteEffect
  <2>5. new # NoRow
    BY <2>2
  <2> HIDE DEF new
  <2>6. tx[w].phase \in {"dispatch", "xref"} /\ tx[w].row # None
    BY <1>8 DEF MarkAlerted
  <2> HIDE DEF PhaseState
  <2> SUFFICES ASSUME NEW v \in Workers PROVE InHand(v)'
    BY DEF PhaseState
  <2>7. InHand(v)
    BY DEF PhaseState
  <2>8. CASE v = w
    BY <2>1, <2>2, <2>3, <2>4, <2>5, <2>6, <2>7, <2>8
  <2>9. CASE v # w
    BY <2>1, <2>3, <2>7, <2>9
  <2> QED
    BY <2>8, <2>9
<1>9. ASSUME NEW w \in Workers, CommitDispatch(w) PROVE PhaseState'
  BY <1>9 DEF CommitDispatch
<1>10. ASSUME NEW w \in Workers, NEW p \in Predictions, PublishFails(w, p)
      PROVE  PhaseState'
  BY <1>10 DEF PublishFails
<1>11. ASSUME NEW w \in Workers, BeginXref(w) PROVE PhaseState'
  BY <1>11 DEF BeginXref
<1>12. ASSUME NEW w \in Workers, NEW p \in Predictions, TakePrediction(w, p)
      PROVE  PhaseState'
  BY <1>12 DEF TakePrediction
<1>13. ASSUME NEW w \in Workers, Confirm(w) PROVE PhaseState'
  <2> DEFINE new == [View(w, tx[w].row) EXCEPT !.edital = TRUE, !.status = "confirmado"]
  <2>1. rows' = rows
    BY <1>13 DEF Confirm
  <2>2. /\ tx[w].row \in Predictions /\ new \in Row /\ View(w, tx[w].row) \in Row
        /\ Write(w, new)
    BY <1>13, ConfirmWrites
  <2>3. /\ \A v \in Workers \ {w} : tx'[v] = tx[v] /\ ~Wrote(v, tx[w].row)
        /\ tx'[w].phase = tx[w].phase
        /\ tx'[w].row = None
        /\ tx'[w].todo = tx[w].todo \ {tx[w].row}
    BY <2>2, WriteEffect
  <2>4. \A p \in Predictions :
          tx'[w].wrote[p] = IF p = tx[w].row THEN new ELSE tx[w].wrote[p]
    BY <2>2, WriteEffect
  <2>5. new # NoRow
    BY <2>2
  <2> HIDE DEF new
  <2>6. tx[w].phase \in {"dispatch", "xref"} /\ tx[w].row # None
    BY <1>13 DEF Confirm
  <2> HIDE DEF PhaseState
  <2> SUFFICES ASSUME NEW v \in Workers PROVE InHand(v)'
    BY DEF PhaseState
  <2>7. InHand(v)
    BY DEF PhaseState
  <2>8. CASE v = w
    BY <2>1, <2>2, <2>3, <2>4, <2>5, <2>6, <2>7, <2>8
  <2>9. CASE v # w
    BY <2>1, <2>3, <2>7, <2>9
  <2> QED
    BY <2>8, <2>9
<1>14. ASSUME NEW w \in Workers, CommitXref(w) PROVE PhaseState'
  BY <1>14 DEF CommitXref
<1>15. ASSUME NEW w \in Workers, NEW similar \in SUBSET Predictions,
              CrossReference(w, similar)
       PROVE  PhaseState'
  BY <1>15 DEF CrossReference
<1>16. ASSUME NEW w \in Workers, Abort(w) PROVE PhaseState'
  BY <1>16 DEF Abort
<1>17. ASSUME NEW p \in Predictions, DismissPrediction(p) PROVE PhaseState'
  <2>1. tx' = tx
    BY <1>17 DEF DismissPrediction
  <2>2. rows'[p] # NoRow /\ \A q \in Predictions \ {p} : rows'[q] = rows[q]
    BY <1>17, DismissEffect
  <2> HIDE DEF PhaseState
  <2> SUFFICES ASSUME NEW v \in Workers PROVE InHand(v)'
    BY DEF PhaseState
  <2>3. InHand(v)
    BY DEF PhaseState
  <2> QED
    BY <2>1, <2>2, <2>3
<1>18. CASE UNCHANGED vars
  BY <1>18 DEF vars
<1> QED
  BY <1>1, <1>2, <1>3, <1>4, <1>5, <1>6, <1>7, <1>8, <1>9, <1>10, <1>11, <1>12, <1>13, <1>14, <1>15, <1>16, <1>17, <1>18
  DEF Next, PredictStep, DispatchStep, ConfirmStep, Fail, DeadlockVictim

(* A commit puts what was written into the table, and ends the transaction. *)
LEMMA CommitEffect ==
  ASSUME TypeOK, NEW w \in Workers,
         CommitPredictions(w) \/ CommitDispatch(w) \/ CommitXref(w)
  PROVE  /\ \A p \in Predictions :
              rows'[p] = IF Wrote(w, p) THEN tx[w].wrote[p] ELSE rows[p]
         /\ \A v \in Workers \ {w} : tx'[v] = tx[v]
         /\ tx'[w].phase \in {"idle", "alert"}
         /\ tx'[w].todo = {} /\ tx'[w].row = None
         /\ \A p \in Predictions : tx'[w].wrote[p] = NoRow
BY DEF TypeOK, CommitPredictions, CommitDispatch, CommitXref, Committed, View, Idle

(* A transaction's rows keep to its purpose, as nobody else changes them meanwhile. *)
LEMMA WrittenStep ==
  ASSUME TypeOK, LockHeldByOne, PhaseState, WrittenOver, [Next]_vars
  PROVE  WrittenOver'
<1>1. CASE Midnight
  <2> SUFFICES ASSUME NEW v \in Workers, NEW q \in Predictions, Wrote(v, q)'
               PROVE  Over(v, q)'
    BY DEF WrittenOver
  <2>1. rows' = rows /\ tx'[v].wrote[q] = tx[v].wrote[q] /\ Wrote(v, q)
    BY <1>1 DEF Midnight, TypeOK, Wrote
  <2>2. tx[v].phase \notin {"idle", "alert"} /\ Over(v, q)
    BY <2>1 DEF WrittenOver, PhaseState, InHand
  <2>3. tx'[v].phase = tx[v].phase
    BY <1>1, <2>2 DEF Midnight, TypeOK
  <2> QED
    BY <2>1, <2>2, <2>3 DEF Over, Stored
<1>2. ASSUME NEW w \in Workers, NEW found \in SUBSET Items, BeginJob(w, found)
      PROVE  WrittenOver'
  <2> SUFFICES ASSUME NEW v \in Workers, NEW q \in Predictions, Wrote(v, q)'
               PROVE  Over(v, q)'
    BY DEF WrittenOver
  <2>1. rows' = rows /\ tx'[v].wrote[q] = tx[v].wrote[q] /\ Wrote(v, q)
    BY <1>2 DEF BeginJob, TypeOK, Wrote
  <2>2. tx[v].phase \notin {"idle", "alert"} /\ Over(v, q)
    BY <2>1 DEF WrittenOver, PhaseState, InHand
  <2>3. tx'[v].phase = tx[v].phase
    BY <1>2, <2>2 DEF BeginJob, TypeOK
  <2> QED
    BY <2>1, <2>2, <2>3 DEF Over, Stored
<1>3. ASSUME NEW w \in Workers, NEW p \in Predictions, TakeItem(w, p)
      PROVE  WrittenOver'
  <2> SUFFICES ASSUME NEW v \in Workers, NEW q \in Predictions, Wrote(v, q)'
               PROVE  Over(v, q)'
    BY DEF WrittenOver
  <2>1. rows' = rows /\ tx'[v].wrote[q] = tx[v].wrote[q] /\ Wrote(v, q)
    BY <1>3 DEF TakeItem, TypeOK, Wrote
  <2>2. tx[v].phase \notin {"idle", "alert"} /\ Over(v, q)
    BY <2>1 DEF WrittenOver, PhaseState, InHand
  <2>3. tx'[v].phase = tx[v].phase
    BY <1>3, <2>2 DEF TakeItem, TypeOK
  <2> QED
    BY <2>1, <2>2, <2>3 DEF Over, Stored
<1>4. ASSUME NEW w \in Workers, NEW d \in Forecast, UpsertPrediction(w, d)
      PROVE  WrittenOver'
  <2> SUFFICES ASSUME NEW v \in Workers, NEW q \in Predictions, Wrote(v, q)'
               PROVE  Over(v, q)'
    BY DEF WrittenOver
  <2> DEFINE p == tx[w].row
             old == View(w, p)
             new == Upserted(View(w, p), d)
  <2>1. rows' = rows /\ tx[w].phase = "predict"
    BY <1>4 DEF UpsertPrediction
  <2>2. p \in Predictions /\ old \in Row \cup {NoRow} /\ new \in Row /\ Write(w, new)
    BY <1>4, UpsertWrites, ViewType, ConstantsFit
  <2>3. CASE v = w /\ q = p
    <3>1. tx'[v].wrote[q] = new /\ tx'[v].phase = "predict"
      BY <2>1, <2>2, <2>3, WriteEffect
    <3>2. Wrote(w, p) => Over(w, p)
      BY <2>2 DEF WrittenOver
    <3>3. /\ old # NoRow => new.alerted = old.alerted /\ new.status = old.status
                        /\ new.edital = old.edital
          /\ old = NoRow => ~new.alerted
      BY <2>2, <1>4, ConstantsFit DEF Row, Upserted, NewPrediction
    <3>4. CASE Wrote(w, p)
      <4>1. old = tx[w].wrote[p] /\ old # NoRow /\ Over(w, p)
        BY <3>2, <3>4 DEF View, Wrote
      <4> HIDE DEF new, old, p
      <4> QED
        BY <2>1, <2>3, <3>1, <3>3, <4>1, <2>2, ConstantsFit DEF Over, Stored
    <3>5. CASE ~Wrote(w, p)
      <4>1. old = rows[p]
        BY <3>5 DEF View
      <4> HIDE DEF new, old, p
      <4> QED
        BY <2>1, <2>3, <3>1, <3>3, <4>1, <2>2, ConstantsFit DEF Over, Stored
    <3> QED
      BY <3>4, <3>5
  <2>4. CASE v # w \/ q # p
    <3>1. tx'[v].wrote[q] = tx[v].wrote[q] /\ tx'[v].phase = tx[v].phase
      BY <2>2, <2>4, WriteEffect
    <3>2. Over(v, q)
      BY <3>1 DEF WrittenOver, Wrote
    <3> QED
      BY <2>1, <3>1, <3>2 DEF Over, Stored
  <2> QED
    BY <2>3, <2>4
<1>5. ASSUME NEW w \in Workers, CommitPredictions(w) PROVE WrittenOver'
  <2> SUFFICES ASSUME NEW v \in Workers, NEW q \in Predictions, Wrote(v, q)'
               PROVE  Over(v, q)'
    BY DEF WrittenOver
  <2>1. v # w /\ tx'[v] = tx[v] /\ Wrote(v, q)
    BY <1>5, CommitEffect DEF Wrote
  <2>2. rows'[q] = rows[q]
    BY <2>1, <1>5, CommitEffect DEF LockHeldByOne
  <2> QED
    BY <2>1, <2>2 DEF WrittenOver, Over, Stored
<1>6. ASSUME NEW w \in Workers, BeginDispatch(w) PROVE WrittenOver'
  <2> SUFFICES ASSUME NEW v \in Workers, NEW q \in Predictions, Wrote(v, q)'
               PROVE  Over(v, q)'
    BY DEF WrittenOver
  <2>1. rows' = rows /\ tx'[v].wrote[q] = tx[v].wrote[q] /\ Wrote(v, q)
    BY <1>6 DEF BeginDispatch, TypeOK, Wrote
  <2>2. tx[v].phase \notin {"idle", "alert"} /\ Over(v, q)
    BY <2>1 DEF WrittenOver, PhaseState, InHand
  <2>3. tx'[v].phase = tx[v].phase
    BY <1>6, <2>2 DEF BeginDispatch, TypeOK
  <2> QED
    BY <2>1, <2>2, <2>3 DEF Over, Stored
<1>7. ASSUME NEW w \in Workers, NEW p \in Predictions, Publish(w, p)
      PROVE  WrittenOver'
  <2> SUFFICES ASSUME NEW v \in Workers, NEW q \in Predictions, Wrote(v, q)'
               PROVE  Over(v, q)'
    BY DEF WrittenOver
  <2>1. rows' = rows /\ tx'[v].wrote[q] = tx[v].wrote[q] /\ Wrote(v, q)
    BY <1>7 DEF Publish, TypeOK, Wrote
  <2>2. tx[v].phase \notin {"idle", "alert"} /\ Over(v, q)
    BY <2>1 DEF WrittenOver, PhaseState, InHand
  <2>3. tx'[v].phase = tx[v].phase
    BY <1>7, <2>2 DEF Publish, TypeOK
  <2> QED
    BY <2>1, <2>2, <2>3 DEF Over, Stored
<1>8. ASSUME NEW w \in Workers, MarkAlerted(w) PROVE WrittenOver'
  <2> SUFFICES ASSUME NEW v \in Workers, NEW q \in Predictions, Wrote(v, q)'
               PROVE  Over(v, q)'
    BY DEF WrittenOver
  <2> DEFINE p == tx[w].row
             old == View(w, p)
             new == [View(w, p) EXCEPT !.alerted = TRUE]
  <2>1. rows' = rows /\ tx[w].phase = "dispatch"
    BY <1>8 DEF MarkAlerted
  <2>2. p \in Predictions /\ old \in Row \cup {NoRow} /\ new \in Row /\ Write(w, new)
        /\ old # NoRow
    BY <1>8, MarkWrites, ViewType, ConstantsFit
  <2>3. CASE v = w /\ q = p
    <3>1. tx'[v].wrote[q] = new /\ tx'[v].phase = "dispatch"
      BY <2>1, <2>2, <2>3, WriteEffect
    <3>2. Wrote(w, p) => Over(w, p)
      BY <2>2 DEF WrittenOver
    <3>3. old \in Row => new.alerted /\ new.status = old.status /\ new.edital = old.edital
      BY <2>2, <1>8, ConstantsFit DEF Row, Upserted, NewPrediction, MarkAlerted
    <3>4. CASE Wrote(w, p)
      <4>1. old = tx[w].wrote[p] /\ old # NoRow /\ Over(w, p)
        BY <3>2, <3>4 DEF View, Wrote
      <4> HIDE DEF new, old, p
      <4> QED
        BY <2>1, <2>3, <3>1, <3>3, <4>1, <2>2, ConstantsFit DEF Over, Stored
    <3>5. CASE ~Wrote(w, p)
      <4>1. old = rows[p]
        BY <3>5 DEF View
      <4> HIDE DEF new, old, p
      <4> QED
        BY <2>1, <2>3, <3>1, <3>3, <4>1, <2>2, ConstantsFit DEF Over, Stored
    <3> QED
      BY <3>4, <3>5
  <2>4. CASE v # w \/ q # p
    <3>1. tx'[v].wrote[q] = tx[v].wrote[q] /\ tx'[v].phase = tx[v].phase
      BY <2>2, <2>4, WriteEffect
    <3>2. Over(v, q)
      BY <3>1 DEF WrittenOver, Wrote
    <3> QED
      BY <2>1, <3>1, <3>2 DEF Over, Stored
  <2> QED
    BY <2>3, <2>4
<1>9. ASSUME NEW w \in Workers, CommitDispatch(w) PROVE WrittenOver'
  <2> SUFFICES ASSUME NEW v \in Workers, NEW q \in Predictions, Wrote(v, q)'
               PROVE  Over(v, q)'
    BY DEF WrittenOver
  <2>1. v # w /\ tx'[v] = tx[v] /\ Wrote(v, q)
    BY <1>9, CommitEffect DEF Wrote
  <2>2. rows'[q] = rows[q]
    BY <2>1, <1>9, CommitEffect DEF LockHeldByOne
  <2> QED
    BY <2>1, <2>2 DEF WrittenOver, Over, Stored
<1>10. ASSUME NEW w \in Workers, NEW p \in Predictions, PublishFails(w, p)
      PROVE  WrittenOver'
  <2> SUFFICES ASSUME NEW v \in Workers, NEW q \in Predictions, Wrote(v, q)'
               PROVE  Over(v, q)'
    BY DEF WrittenOver
  <2>1. rows' = rows /\ tx'[v].wrote[q] = tx[v].wrote[q] /\ Wrote(v, q)
    BY <1>10 DEF PublishFails, TypeOK, Wrote
  <2>2. tx[v].phase \notin {"idle", "alert"} /\ Over(v, q)
    BY <2>1 DEF WrittenOver, PhaseState, InHand
  <2>3. tx'[v].phase = tx[v].phase
    BY <1>10, <2>2 DEF PublishFails, TypeOK
  <2> QED
    BY <2>1, <2>2, <2>3 DEF Over, Stored
<1>11. ASSUME NEW w \in Workers, BeginXref(w) PROVE WrittenOver'
  <2> SUFFICES ASSUME NEW v \in Workers, NEW q \in Predictions, Wrote(v, q)'
               PROVE  Over(v, q)'
    BY DEF WrittenOver
  <2>1. rows' = rows /\ tx'[v].wrote[q] = tx[v].wrote[q] /\ Wrote(v, q)
    BY <1>11 DEF BeginXref, TypeOK, Wrote
  <2>2. tx[v].phase \notin {"idle", "alert"} /\ Over(v, q)
    BY <2>1 DEF WrittenOver, PhaseState, InHand
  <2>3. tx'[v].phase = tx[v].phase
    BY <1>11, <2>2 DEF BeginXref, TypeOK
  <2> QED
    BY <2>1, <2>2, <2>3 DEF Over, Stored
<1>12. ASSUME NEW w \in Workers, NEW p \in Predictions, TakePrediction(w, p)
      PROVE  WrittenOver'
  <2> SUFFICES ASSUME NEW v \in Workers, NEW q \in Predictions, Wrote(v, q)'
               PROVE  Over(v, q)'
    BY DEF WrittenOver
  <2>1. rows' = rows /\ tx'[v].wrote[q] = tx[v].wrote[q] /\ Wrote(v, q)
    BY <1>12 DEF TakePrediction, TypeOK, Wrote
  <2>2. tx[v].phase \notin {"idle", "alert"} /\ Over(v, q)
    BY <2>1 DEF WrittenOver, PhaseState, InHand
  <2>3. tx'[v].phase = tx[v].phase
    BY <1>12, <2>2 DEF TakePrediction, TypeOK
  <2> QED
    BY <2>1, <2>2, <2>3 DEF Over, Stored
<1>13. ASSUME NEW w \in Workers, Confirm(w) PROVE WrittenOver'
  <2> SUFFICES ASSUME NEW v \in Workers, NEW q \in Predictions, Wrote(v, q)'
               PROVE  Over(v, q)'
    BY DEF WrittenOver
  <2> DEFINE p == tx[w].row
             old == View(w, p)
             new == [View(w, p) EXCEPT !.edital = TRUE, !.status = "confirmado"]
  <2>1. rows' = rows /\ tx[w].phase = "xref"
    BY <1>13 DEF Confirm
  <2>2. p \in Predictions /\ old \in Row \cup {NoRow} /\ new \in Row /\ Write(w, new)
        /\ old # NoRow
    BY <1>13, ConfirmWrites, ViewType, ConstantsFit
  <2>3. CASE v = w /\ q = p
    <3>1. tx'[v].wrote[q] = new /\ tx'[v].phase = "xref"
      BY <2>1, <2>2, <2>3, WriteEffect
    <3>2. Wrote(w, p) => Over(w, p)
      BY <2>2 DEF WrittenOver
    <3>3. old \in Row => new.alerted = old.alerted /\ new.status = "confirmado" /\ new.edital
      BY <2>2, <1>13, ConstantsFit DEF Row, Upserted, NewPrediction, Confirm
    <3>4. CASE Wrote(w, p)
      <4>1. old = tx[w].wrote[p] /\ old # NoRow /\ Over(w, p)
        BY <3>2, <3>4 DEF View, Wrote
      <4> HIDE DEF new, old, p
      <4> QED
        BY <2>1, <2>3, <3>1, <3>3, <4>1, <2>2, ConstantsFit DEF Over, Stored
    <3>5. CASE ~Wrote(w, p)
      <4>1. old = rows[p]
        BY <3>5 DEF View
      <4> HIDE DEF new, old, p
      <4> QED
        BY <2>1, <2>3, <3>1, <3>3, <4>1, <2>2, ConstantsFit DEF Over, Stored
    <3> QED
      BY <3>4, <3>5
  <2>4. CASE v # w \/ q # p
    <3>1. tx'[v].wrote[q] = tx[v].wrote[q] /\ tx'[v].phase = tx[v].phase
      BY <2>2, <2>4, WriteEffect
    <3>2. Over(v, q)
      BY <3>1 DEF WrittenOver, Wrote
    <3> QED
      BY <2>1, <3>1, <3>2 DEF Over, Stored
  <2> QED
    BY <2>3, <2>4
<1>14. ASSUME NEW w \in Workers, CommitXref(w) PROVE WrittenOver'
  <2> SUFFICES ASSUME NEW v \in Workers, NEW q \in Predictions, Wrote(v, q)'
               PROVE  Over(v, q)'
    BY DEF WrittenOver
  <2>1. v # w /\ tx'[v] = tx[v] /\ Wrote(v, q)
    BY <1>14, CommitEffect DEF Wrote
  <2>2. rows'[q] = rows[q]
    BY <2>1, <1>14, CommitEffect DEF LockHeldByOne
  <2> QED
    BY <2>1, <2>2 DEF WrittenOver, Over, Stored
<1>15. ASSUME NEW w \in Workers, NEW similar \in SUBSET Predictions,
              CrossReference(w, similar)
       PROVE  WrittenOver'
  <2> SUFFICES ASSUME NEW v \in Workers, NEW q \in Predictions, Wrote(v, q)'
               PROVE  Over(v, q)'
    BY DEF WrittenOver
  <2>1. rows' = rows /\ tx'[v].wrote[q] = tx[v].wrote[q] /\ Wrote(v, q)
    BY <1>15 DEF CrossReference, TypeOK, Wrote
  <2>2. tx[v].phase \notin {"idle", "alert"} /\ Over(v, q)
    BY <2>1 DEF WrittenOver, PhaseState, InHand
  <2>3. tx'[v].phase = tx[v].phase
    BY <1>15, <2>2 DEF CrossReference, TypeOK
  <2> QED
    BY <2>1, <2>2, <2>3 DEF Over, Stored
<1>16. ASSUME NEW w \in Workers, Abort(w) PROVE WrittenOver'
  <2> SUFFICES ASSUME NEW v \in Workers, NEW q \in Predictions, Wrote(v, q)'
               PROVE  Over(v, q)'
    BY DEF WrittenOver
  <2>1. v # w /\ rows' = rows /\ tx'[v] = tx[v] /\ Wrote(v, q)
    BY <1>16 DEF Abort, Wrote, TypeOK, Idle
  <2> QED
    BY <2>1 DEF WrittenOver, Over, Stored
<1>17. ASSUME NEW p \in Predictions, DismissPrediction(p) PROVE WrittenOver'
  <2> SUFFICES ASSUME NEW v \in Workers, NEW q \in Predictions, Wrote(v, q)'
               PROVE  Over(v, q)'
    BY DEF WrittenOver
  <2>1. tx' = tx
    BY <1>17 DEF DismissPrediction
  <2>2. q # p /\ rows'[q] = rows[q] /\ Over(v, q)
    BY <2>1, <1>17, DismissEffect DEF Wrote, WrittenOver
  <2> QED
    BY <2>1, <2>2 DEF Over, Stored
<1>18. CASE UNCHANGED vars
  <2> SUFFICES ASSUME NEW v \in Workers, NEW q \in Predictions, Wrote(v, q)'
               PROVE  Over(v, q)'
    BY DEF WrittenOver
  <2>1. rows' = rows /\ tx'[v].wrote[q] = tx[v].wrote[q] /\ Wrote(v, q)
    BY <1>18 DEF vars, TypeOK, Wrote
  <2>2. tx[v].phase \notin {"idle", "alert"} /\ Over(v, q)
    BY <2>1 DEF WrittenOver, PhaseState, InHand
  <2>3. tx'[v].phase = tx[v].phase
    BY <1>18, <2>2 DEF vars, TypeOK
  <2> QED
    BY <2>1, <2>2, <2>3 DEF Over, Stored
<1> QED
  BY <1>1, <1>2, <1>3, <1>4, <1>5, <1>6, <1>7, <1>8, <1>9, <1>10, <1>11, <1>12, <1>13, <1>14, <1>15, <1>16, <1>17, <1>18
  DEF Next, PredictStep, DispatchStep, ConfirmStep, Fail, DeadlockVictim

Alerted(p) == Stored(p) /\ rows[p].alerted
Open(w, p) == p \in Unmarked(w)

(* Steps that publish nothing, mark nothing and list nothing keep the account, *)
(* and so do those that excuse what they lose.                                 *)
LEMMA AccountedFrame ==
  ASSUME NEW q \in Predictions, Accounted(q),
         sent'[q] = sent[q], q \in excused => q \in excused',
         Alerted(q)' <=> Alerted(q),
         \A v \in Workers : Listed(v, q)' => Listed(v, q),
         \A v \in Workers : Open(v, q)' => Open(v, q),
         q \notin excused' => \A v \in Workers : Open(v, q) => Open(v, q)'
  PROVE  Accounted(q)'
BY Zenon DEF Accounted, Alerted, Open

(* What is listed and published, in terms of one worker's record. *)
LEMMA ListedSame ==
  ASSUME TypeOK, NEW q \in Predictions, NEW v \in Workers, tx'[v] = tx[v]
  PROVE  (Listed(v, q)' <=> Listed(v, q)) /\ (Open(v, q)' <=> Open(v, q))
BY DEF Listed, Open, Unmarked, Wrote

(* A worker that is not dispatching has listed and published nothing. *)
LEMMA NotListed ==
  ASSUME NEW q \in Predictions, NEW v \in Workers, tx[v].phase # "dispatch"
  PROVE  ~Listed(v, q) /\ ~Open(v, q)
BY DEF Listed, Open, Unmarked

(* What is published and not committed is listed. *)
LEMMA OpenListed ==
  ASSUME PhaseState, NEW q \in Predictions, NEW v \in Workers, Open(v, q)
  PROVE  Listed(v, q)
BY ConstantsFit DEF Listed, Open, Unmarked, PhaseState, InHand

(* And nothing after the step if it is not dispatching then. *)
LEMMA NotListedAfter ==
  ASSUME NEW q \in Predictions, NEW v \in Workers, tx'[v].phase # "dispatch"
  PROVE  ~Listed(v, q)' /\ ~Open(v, q)'
BY DEF Listed, Open, Unmarked

(* Whatever happens, alerts and marks stay accounted for. *)
LEMMA AccountedStep ==
  ASSUME TypeOK, PhaseState, WrittenOver, AllAccounted, [Next]_vars
  PROVE  AllAccounted'
<1> USE DEF AllAccounted
<1>1. CASE Midnight
  <2> SUFFICES ASSUME NEW q \in Predictions PROVE Accounted(q)'
    OBVIOUS
  <2>1. /\ rows' = rows /\ sent' = sent /\ excused' = excused /\ tx' = tx
    BY <1>1 DEF Midnight
  <2> QED
    BY <2>1, AccountedFrame, ListedSame DEF Alerted, Stored
<1>2. ASSUME NEW w \in Workers, NEW found \in SUBSET Items, BeginJob(w, found)
      PROVE  AllAccounted'
  <2> SUFFICES ASSUME NEW q \in Predictions PROVE Accounted(q)'
    OBVIOUS
  <2>1. /\ rows' = rows /\ sent' = sent /\ excused' = excused
        /\ \A v \in Workers \ {w} : tx'[v] = tx[v]
        /\ tx[w].phase # "dispatch" /\ tx'[w].phase # "dispatch"
    BY <1>2 DEF BeginJob, TypeOK
  <2> QED
    BY <2>1, AccountedFrame, ListedSame, NotListed, NotListedAfter DEF Alerted, Stored
<1>3. ASSUME NEW w \in Workers, NEW p \in Predictions, TakeItem(w, p)
      PROVE  AllAccounted'
  <2> SUFFICES ASSUME NEW q \in Predictions PROVE Accounted(q)'
    OBVIOUS
  <2>1. /\ rows' = rows /\ sent' = sent /\ excused' = excused
        /\ \A v \in Workers \ {w} : tx'[v] = tx[v]
        /\ tx[w].phase # "dispatch" /\ tx'[w].phase # "dispatch"
    BY <1>3 DEF TakeItem, TypeOK
  <2> QED
    BY <2>1, AccountedFrame, ListedSame, NotListed, NotListedAfter DEF Alerted, Stored
<1>4. ASSUME NEW w \in Workers, NEW d \in Forecast, UpsertPrediction(w, d)
      PROVE  AllAccounted'
  <2> SUFFICES ASSUME NEW q \in Predictions PROVE Accounted(q)'
    OBVIOUS
  <2>1. /\ rows' = rows /\ sent' = sent /\ excused' = excused /\ tx[w].phase = "predict"
    BY <1>4 DEF UpsertPrediction
  <2>2. /\ \A v \in Workers \ {w} : tx'[v] = tx[v]
        /\ tx'[w].phase = "predict"
    BY <2>1, <1>4, UpsertWrites, WriteEffect
  <2> QED
    BY <2>1, <2>2, AccountedFrame, ListedSame, NotListed, NotListedAfter DEF Alerted, Stored
<1>5. ASSUME NEW w \in Workers, CommitPredictions(w) PROVE AllAccounted'
  <2> SUFFICES ASSUME NEW q \in Predictions PROVE Accounted(q)'
    OBVIOUS
  <2>1. /\ sent' = sent /\ excused' = excused /\ tx[w].phase = "predict"
        /\ \A v \in Workers \ {w} : tx'[v] = tx[v]
        /\ tx'[w].phase # "dispatch"
    BY <1>5, CommitEffect DEF CommitPredictions
  <2>2. Alerted(q)' <=> Alerted(q)
    <3>1. CASE Wrote(w, q)
      <4>1. rows'[q] = tx[w].wrote[q] /\ Over(w, q) /\ tx[w].wrote[q] # NoRow
        BY <3>1, <1>5, CommitEffect DEF WrittenOver, Wrote
      <4> QED
        BY <2>1, <4>1 DEF Alerted, Stored, Over
    <3>2. CASE ~Wrote(w, q)
      BY <3>2, <1>5, CommitEffect DEF Alerted, Stored
    <3> QED
      BY <3>1, <3>2
  <2> QED
    BY <2>1, <2>2, AccountedFrame, ListedSame, NotListed, NotListedAfter
<1>6. ASSUME NEW w \in Workers, BeginDispatch(w) PROVE AllAccounted'
  <2> SUFFICES ASSUME NEW q \in Predictions PROVE Accounted(q)'
    OBVIOUS
  <2>1. /\ rows' = rows /\ sent' = sent
        /\ excused' = excused \cup {p \in Predictions : Due(p) /\ \E v \in Workers : Listed(v, p)}
        /\ \A v \in Workers \ {w} : tx'[v] = tx[v]
        /\ tx[w].phase = "alert" /\ tx'[w].phase = "dispatch"
        /\ tx'[w].todo = {p \in Predictions : Due(p)}
        /\ tx'[w].row = None /\ ~Wrote(w, q)'
    BY <1>6 DEF BeginDispatch, TypeOK, PhaseState, InHand, Wrote
  <2>2. ~Open(w, q)' /\ ~Open(w, q) /\ ~Listed(w, q) /\ (Listed(w, q)' <=> Due(q))
    BY <2>1, NotListed, ConstantsFit DEF Open, Unmarked, Listed
  <2>3. CASE ~Due(q)
    BY <2>1, <2>2, <2>3, AccountedFrame, ListedSame DEF Alerted, Stored
  <2>4. CASE Due(q) /\ q \in excused'
    BY <2>1, <2>2, <2>4, ListedSame DEF Accounted, Stored, Open
  <2>5. CASE Due(q) /\ q \notin excused'
    <3>1. q \notin excused /\ \A v \in Workers : ~Listed(v, q) /\ ~Open(v, q)
      <4>1. q \notin excused /\ \A v \in Workers : ~Listed(v, q)
        BY <2>1, <2>5
      <4> QED
        BY <4>1, OpenListed
    <3>2. \A v \in Workers : ~Open(v, q)' /\ (Listed(v, q)' => v = w)
      BY <2>1, <2>2, <3>1, ListedSame
    <3>3. sent[q] = 0
      <4>1. sent[q] \in Nat /\ sent[q] <= 1 /\ sent[q] # 1
        BY <2>5, <3>1 DEF Accounted, Due, Open, TypeOK
      <4> QED
        BY <4>1
    <3> QED
      BY <2>1, <2>5, <3>2, <3>3 DEF Accounted, Open, Stored, Due
  <2> QED
    BY <2>3, <2>4, <2>5
<1>7. ASSUME NEW w \in Workers, NEW p \in Predictions, Publish(w, p)
      PROVE  AllAccounted'
  <2> SUFFICES ASSUME NEW q \in Predictions PROVE Accounted(q)'
    OBVIOUS
  <2>1. /\ rows' = rows /\ excused' = excused
        /\ sent' = [sent EXCEPT ![p] = IF p \in excused THEN 1 ELSE @ + 1]
        /\ \A v \in Workers \ {w} : tx'[v] = tx[v]
        /\ tx[w].phase = "dispatch" /\ tx[w].row = None /\ p \in tx[w].todo
        /\ tx'[w] = [tx[w] EXCEPT !.row = p]
    BY <1>7 DEF Publish, TypeOK
  <2>2. /\ Listed(w, q)' <=> Listed(w, q)
        /\ Open(w, q)' <=> Open(w, q) \/ q = p
    BY <2>1, ConstantsFit DEF Listed, Open, Unmarked, Wrote, TypeOK
  <2>3. CASE q # p
    <3>1. sent'[q] = sent[q]
      BY <2>1, <2>3 DEF TypeOK
    <3> QED
      BY <2>1, <2>2, <2>3, <3>1, AccountedFrame, ListedSame DEF Alerted, Stored
  <2>4. CASE q = p /\ q \in excused
    <3>1. sent'[q] = 1
      BY <2>1, <2>4 DEF TypeOK
    <3> QED
      BY <2>1, <2>4, <3>1 DEF Accounted
  <2>5. CASE q = p /\ q \notin excused
    <3>1. Listed(w, q) /\ ~Open(w, q)
      BY <2>1, <2>5, ConstantsFit DEF Listed, Open, Unmarked, PhaseState, InHand
    <3>2. sent[q] = 0
      BY <2>5, <3>1 DEF Accounted, Open
    <3>3. sent'[q] = 1
      BY <2>1, <2>5, <3>2 DEF TypeOK
    <3>4. /\ \A v \in Workers : Listed(v, q)' => v = w
          /\ Open(w, q)'
      BY <2>1, <2>2, <2>5, <3>1, ListedSame DEF Accounted
    <3> QED
      BY <2>1, <2>5, <3>3, <3>4 DEF Accounted, Open
  <2> QED
    BY <2>3, <2>4, <2>5
<1>8. ASSUME NEW w \in Workers, MarkAlerted(w) PROVE AllAccounted'
  <2> SUFFICES ASSUME NEW q \in Predictions PROVE Accounted(q)'
    OBVIOUS
  <2>1. /\ rows' = rows /\ sent' = sent /\ excused' = excused /\ tx[w].phase = "dispatch"
        /\ tx[w].row # None
    BY <1>8 DEF MarkAlerted
  <2> DEFINE new == [View(w, tx[w].row) EXCEPT !.alerted = TRUE]
  <2>2. tx[w].row \in Predictions /\ new \in Row /\ Write(w, new) /\ tx[w].row \in tx[w].todo
    BY <2>1, <1>8, MarkWrites DEF PhaseState, InHand
  <2>3. /\ \A v \in Workers \ {w} : tx'[v] = tx[v]
        /\ tx'[w].phase = "dispatch" /\ tx'[w].row = None
        /\ tx'[w].todo = tx[w].todo \ {tx[w].row}
        /\ Wrote(w, q)' <=> Wrote(w, q) \/ q = tx[w].row
    BY <2>1, <2>2, WriteEffect, ConstantsFit DEF Wrote
  <2>4. (Listed(w, q)' <=> Listed(w, q)) /\ (Open(w, q)' <=> Open(w, q))
    BY <2>1, <2>2, <2>3, ConstantsFit DEF Listed, Open, Unmarked
  <2> QED
    BY <2>1, <2>3, <2>4, AccountedFrame, ListedSame DEF Alerted, Stored
<1>9. ASSUME NEW w \in Workers, CommitDispatch(w) PROVE AllAccounted'
  <2> SUFFICES ASSUME NEW q \in Predictions PROVE Accounted(q)'
    OBVIOUS
  <2>1. /\ sent' = sent /\ excused' = excused /\ tx[w].phase = "dispatch"
        /\ tx[w].todo = {} /\ tx[w].row = None
        /\ \A v \in Workers \ {w} : tx'[v] = tx[v]
        /\ tx'[w].phase # "dispatch"
    BY <1>9, CommitEffect DEF CommitDispatch, PhaseState, InHand
  <2>2. Open(w, q) <=> Wrote(w, q)
    BY <2>1, ConstantsFit DEF Open, Unmarked
  <2>3. CASE ~Wrote(w, q)
    <3>1. rows'[q] = rows[q]
      BY <2>3, <1>9, CommitEffect
    <3> QED
      BY <2>1, <2>2, <2>3, <3>1, AccountedFrame, ListedSame, NotListedAfter DEF Alerted, Stored
  <2>4. CASE Wrote(w, q)
    <3>1. rows'[q] = tx[w].wrote[q] /\ rows'[q] # NoRow /\ rows'[q].alerted
      BY <2>1, <2>4, <1>9, CommitEffect DEF WrittenOver, Over, Wrote
    <3>2. sent[q] > 0 /\ (q \notin excused => sent[q] = 1)
      BY <2>2, <2>4 DEF Accounted, Open, TypeOK
    <3>3. q \notin excused => \A v \in Workers : ~Listed(v, q)'
      BY <2>1, <2>4, ListedSame, NotListedAfter DEF Accounted, Listed
    <3>4. \A v \in Workers : Open(v, q)' => Open(v, q)
      BY <2>1, ListedSame, NotListedAfter
    <3> QED
      BY <2>1, <3>1, <3>2, <3>3, <3>4 DEF Accounted, Open, Stored
  <2> QED
    BY <2>3, <2>4
<1>10. ASSUME NEW w \in Workers, NEW p \in Predictions, PublishFails(w, p)
      PROVE  AllAccounted'
  <2> SUFFICES ASSUME NEW q \in Predictions PROVE Accounted(q)'
    OBVIOUS
  <2>1. /\ rows' = rows /\ sent' = sent /\ excused' = excused
        /\ \A v \in Workers \ {w} : tx'[v] = tx[v]
        /\ tx'[w] = [tx[w] EXCEPT !.todo = @ \ {p}]
    BY <1>10 DEF PublishFails, TypeOK
  <2>2. (Listed(w, q)' => Listed(w, q)) /\ (Open(w, q)' <=> Open(w, q))
    BY <2>1 DEF Listed, Open, Unmarked, Wrote, TypeOK
  <2> QED
    BY <2>1, <2>2, AccountedFrame, ListedSame DEF Alerted, Stored
<1>11. ASSUME NEW w \in Workers, BeginXref(w) PROVE AllAccounted'
  <2> SUFFICES ASSUME NEW q \in Predictions PROVE Accounted(q)'
    OBVIOUS
  <2>1. /\ rows' = rows /\ sent' = sent /\ excused' = excused
        /\ \A v \in Workers \ {w} : tx'[v] = tx[v]
        /\ tx[w].phase # "dispatch" /\ tx'[w].phase # "dispatch"
    BY <1>11 DEF BeginXref, TypeOK
  <2> QED
    BY <2>1, AccountedFrame, ListedSame, NotListed, NotListedAfter DEF Alerted, Stored
<1>12. ASSUME NEW w \in Workers, NEW p \in Predictions, TakePrediction(w, p)
      PROVE  AllAccounted'
  <2> SUFFICES ASSUME NEW q \in Predictions PROVE Accounted(q)'
    OBVIOUS
  <2>1. /\ rows' = rows /\ sent' = sent /\ excused' = excused
        /\ \A v \in Workers \ {w} : tx'[v] = tx[v]
        /\ tx[w].phase # "dispatch" /\ tx'[w].phase # "dispatch"
    BY <1>12 DEF TakePrediction, TypeOK
  <2> QED
    BY <2>1, AccountedFrame, ListedSame, NotListed, NotListedAfter DEF Alerted, Stored
<1>13. ASSUME NEW w \in Workers, Confirm(w) PROVE AllAccounted'
  <2> SUFFICES ASSUME NEW q \in Predictions PROVE Accounted(q)'
    OBVIOUS
  <2>1. /\ rows' = rows /\ sent' = sent /\ excused' = excused /\ tx[w].phase = "xref"
    BY <1>13 DEF Confirm
  <2>2. /\ \A v \in Workers \ {w} : tx'[v] = tx[v]
        /\ tx'[w].phase = "xref"
    BY <2>1, <1>13, ConfirmWrites, WriteEffect
  <2> QED
    BY <2>1, <2>2, AccountedFrame, ListedSame, NotListed, NotListedAfter DEF Alerted, Stored
<1>14. ASSUME NEW w \in Workers, CommitXref(w) PROVE AllAccounted'
  <2> SUFFICES ASSUME NEW q \in Predictions PROVE Accounted(q)'
    OBVIOUS
  <2>1. /\ sent' = sent /\ excused' = excused /\ tx[w].phase = "xref"
        /\ \A v \in Workers \ {w} : tx'[v] = tx[v]
        /\ tx'[w].phase # "dispatch"
    BY <1>14, CommitEffect DEF CommitXref
  <2>2. Alerted(q)' <=> Alerted(q)
    <3>1. CASE Wrote(w, q)
      <4>1. rows'[q] = tx[w].wrote[q] /\ Over(w, q) /\ tx[w].wrote[q] # NoRow
        BY <3>1, <1>14, CommitEffect DEF WrittenOver, Wrote
      <4> QED
        BY <2>1, <4>1 DEF Alerted, Stored, Over
    <3>2. CASE ~Wrote(w, q)
      BY <3>2, <1>14, CommitEffect DEF Alerted, Stored
    <3> QED
      BY <3>1, <3>2
  <2> QED
    BY <2>1, <2>2, AccountedFrame, ListedSame, NotListed, NotListedAfter
<1>15. ASSUME NEW w \in Workers, NEW similar \in SUBSET Predictions,
              CrossReference(w, similar)
       PROVE  AllAccounted'
  <2> SUFFICES ASSUME NEW q \in Predictions PROVE Accounted(q)'
    OBVIOUS
  <2>1. /\ rows' = rows /\ sent' = sent /\ excused' = excused
        /\ \A v \in Workers \ {w} : tx'[v] = tx[v]
        /\ tx[w].phase # "dispatch" /\ tx'[w].phase # "dispatch"
    BY <1>15 DEF CrossReference, TypeOK
  <2> QED
    BY <2>1, AccountedFrame, ListedSame, NotListed, NotListedAfter DEF Alerted, Stored
<1>16. ASSUME NEW w \in Workers, Abort(w) PROVE AllAccounted'
  <2> SUFFICES ASSUME NEW q \in Predictions PROVE Accounted(q)'
    OBVIOUS
  <2>1. /\ rows' = rows /\ sent' = sent /\ excused' = excused \cup Unmarked(w)
        /\ \A v \in Workers \ {w} : tx'[v] = tx[v]
        /\ tx'[w].phase # "dispatch"
    BY <1>16 DEF Abort, TypeOK, Idle
  <2>2. q \notin excused' => ~Open(w, q)
    BY <2>1 DEF Open
  <2> QED
    BY <2>1, <2>2, AccountedFrame, ListedSame, NotListedAfter DEF Alerted, Stored
<1>17. ASSUME NEW p \in Predictions, DismissPrediction(p) PROVE AllAccounted'
  <2> SUFFICES ASSUME NEW q \in Predictions PROVE Accounted(q)'
    OBVIOUS
  <2>1. sent' = sent /\ excused' = excused /\ tx' = tx
    BY <1>17 DEF DismissPrediction
  <2>2. Alerted(q)' <=> Alerted(q)
    BY <1>17, DismissEffect, ConstantsFit DEF Alerted, Stored
  <2> QED
    BY <2>1, <2>2, AccountedFrame, ListedSame
<1>18. CASE UNCHANGED vars
  <2> SUFFICES ASSUME NEW q \in Predictions PROVE Accounted(q)'
    OBVIOUS
  <2>1. /\ rows' = rows /\ sent' = sent /\ excused' = excused /\ tx' = tx
    BY <1>18 DEF vars
  <2> QED
    BY <2>1, AccountedFrame, ListedSame DEF Alerted, Stored
<1> QED
  BY <1>1, <1>2, <1>3, <1>4, <1>5, <1>6, <1>7, <1>8, <1>9, <1>10, <1>11, <1>12, <1>13, <1>14, <1>15, <1>16, <1>17, <1>18
  DEF Next, PredictStep, DispatchStep, ConfirmStep, Fail, DeadlockVictim

-----------------------------------------------------------------------------
(* The radar starts in the invariant and no step leaves it. *)
THEOREM RadarInvariance == Spec => []IInv
<1>1. Init => IInv
  BY ConstantsFit
  DEF Init, Idle, IInv, TypeOK, LockHeldByOne, PhaseState, InHand, WrittenOver, AllAccounted,
      Accounted, Wrote, Stored, Unmarked, Listed, View, Day
<1>2. IInv /\ [Next]_vars => IInv'
  BY TypeStep, LockStep, PhaseStep, WrittenStep, AccountedStep DEF IInv
<1> QED
  BY <1>1, <1>2, PTL DEF Spec

(* The rows, the transactions and the history keep their types, for any *)
(* number of tenants, items and workers. *)
THEOREM RadarTypes == Spec => []TypeOK
<1>1. IInv => TypeOK
  BY DEF IInv
<1> QED
  BY <1>1, RadarInvariance, PTL

(* The jobs alert once for a prediction, however often they predict it, *)
(* unless a mark was lost or dispatches overlapped. *)
THEOREM OneAlert == Spec => []OneAlertUnlessExcused
<1>1. IInv => \A p \in Predictions : p \notin excused => sent[p] <= 1
  BY DEF IInv, AllAccounted, Accounted
<1> QED
  BY <1>1, RadarInvariance, PTL DEF OneAlertUnlessExcused

(* A row is marked as alerted only after its alert was published. *)
THEOREM NoAlertWrittenOff == Spec => []AlertedIsPublished
<1>1. IInv => AlertedIsPublished
  BY DEF IInv, AllAccounted, Accounted, AlertedIsPublished
<1> QED
  BY <1>1, RadarInvariance, PTL

(* No job or late transaction brings a dismissed prediction back, except *)
(* the confirmation by an edital. *)
THEOREM DismissalsStand == Spec => DismissalStands
<1> DEFINE Stands == \A p \in Predictions :
      Stored(p) /\ rows[p].status = "cancelado" /\ rows'[p].status # "cancelado"
      => rows'[p].status = "confirmado" /\ rows'[p].edital
<1>1. IInv /\ [Next]_vars => [Stands]_vars
  <2> SUFFICES ASSUME IInv, Next, NEW p \in Predictions, Stored(p),
                      rows[p].status = "cancelado", rows'[p].status # "cancelado"
               PROVE  rows'[p].status = "confirmado" /\ rows'[p].edital
    BY DEF vars
  <2>1. ASSUME NEW w \in Workers,
               CommitPredictions(w) \/ CommitDispatch(w) \/ CommitXref(w)
        PROVE  rows'[p].status = "confirmado" /\ rows'[p].edital
    <3>1. Wrote(w, p) /\ rows'[p] = tx[w].wrote[p]
      BY <2>1, CommitEffect DEF IInv
    <3> QED
      BY <3>1 DEF IInv, WrittenOver, Over
  <2>2. ASSUME NEW q \in Predictions, DismissPrediction(q) PROVE FALSE
    BY <2>2, DismissEffect DEF IInv
  <2>3. CASE rows' = rows
    BY <2>3
  <2>4. \/ rows' = rows
        \/ \E w \in Workers : CommitPredictions(w) \/ CommitDispatch(w) \/ CommitXref(w)
        \/ \E q \in Predictions : DismissPrediction(q)
    BY DEF Next, Midnight, BeginJob, PredictStep, TakeItem, UpsertPrediction, DispatchStep,
           BeginDispatch, Publish, MarkAlerted, PublishFails, BeginXref, ConfirmStep,
           TakePrediction, Confirm, CrossReference, Fail, DeadlockVictim, Abort
  <2> QED
    BY <2>1, <2>2, <2>3, <2>4
<1> QED
  BY <1>1, RadarInvariance, PTL DEF Spec, DismissalStands

=============================================================================
