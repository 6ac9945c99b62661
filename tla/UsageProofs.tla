------------------------------ MODULE UsageProofs ------------------------------
(***************************************************************************)
(* Proofs about what a tenant uses and pays.  The agents' slots, for any   *)
(* number of calls and clauses: types, that a metric is in one place, and  *)
(* that a run whose agent was not shared reports its own call.  The        *)
(* webhook, for any number of tenants, subscriptions and events in any     *)
(* order: types, that events find their tenant, and that the status        *)
(* follows Stripe as long as no event is overtaken.                        *)
(***************************************************************************)
EXTENDS AgentCalls, Billing, SequenceTheorems, TLAPS

(* The agents. *)

(* A call that has not been answered has no metric anywhere.               *)
NoMetricYet ==
  \A c \in Calls : phase[c] \in {"idle", "invoking"} =>
    /\ c \notin overwritten
    /\ \A a \in Agent : slot[a] # c
    /\ \A d \in Calls : collected[d] # c

CollectedWhenDone == \A c \in Calls : collected[c] # None => phase[c] = "done"

(* Only impugnacao counts clauses, and it is invoked to ask about some.    *)
ClausesAreImpugnacao ==
  \A c \in Calls :
    /\ left[c] > 0 => callee[c] = "impugnacao"
    /\ phase[c] = "idle" => clauses[c] = 0 /\ left[c] = 0
    /\ phase[c] = "invoking" => callee[c] \in Agent
    /\ phase[c] = "invoking" /\ callee[c] = "impugnacao" => clauses[c] > 0
    /\ phase[c] = "returned" => callee[c] \in Threaded

LoopSlotEmpty == slot["impugnacao"] = None

(* Calls of one agent that are in flight together know that they are.      *)
SharersKnown ==
  \A c, d \in Calls :
    c # d /\ InFlight(c) /\ InFlight(d) /\ callee[c] = callee[d] => c \in shared

OwnMetricWaits ==
  \A c \in Calls : phase[c] = "returned" /\ c \notin shared => slot[callee[c]] = c

CallsInv ==
  /\ CallsTypeOK
  /\ NoMetricYet
  /\ CollectedWhenDone
  /\ ClausesAreImpugnacao
  /\ LoopSlotEmpty
  /\ SharersKnown
  /\ OwnMetricWaits
  /\ MetricInOnePlace
  /\ OwnMetricUnlessShared
-----------------------------------------------------------------------------
(* Before any call there is nothing to account for.                        *)
LEMMA CallsStart ==
  ASSUME CallsFit, CallsInit
  PROVE  CallsInv
<1>1. CallsTypeOK
  BY DEF CallsFit, CallsInit, CallsTypeOK
<1>2. NoMetricYet /\ CollectedWhenDone
  BY DEF CallsFit, CallsInit, NoMetricYet, CollectedWhenDone
<1>3. ClausesAreImpugnacao /\ LoopSlotEmpty
  BY DEF CallsInit, ClausesAreImpugnacao, LoopSlotEmpty, Agent
<1>4. SharersKnown /\ OwnMetricWaits
  BY DEF CallsInit, SharersKnown, OwnMetricWaits, InFlight
<1>5. MetricInOnePlace /\ OwnMetricUnlessShared
  BY DEF CallsFit, CallsInit, MetricInOnePlace, OwnMetricUnlessShared
<1>6. QED
  BY <1>1, <1>2, <1>3, <1>4, <1>5 DEF CallsInv

(* A call of any agent but one without clauses: nobody's metric moves.     *)
LEMMA InvokePreserves ==
  ASSUME CallsFit, CallsInv, NEW c \in Calls, NEW a \in Agent, Invoke(c, a),
         UNCHANGED <<slot, collected, overwritten>>,
         NEW n \in 0..MaxClauses, a = "impugnacao" <=> n > 0,
         clauses' = [clauses EXCEPT ![c] = n],
         left' = [left EXCEPT ![c] = n]
  PROVE  CallsInv'
<1> USE DEF CallsInv
<1>1. CallsTypeOK'
  BY DEF CallsFit, CallsTypeOK, Invoke, Partners
<1>2. NoMetricYet'
  BY DEF CallsTypeOK, NoMetricYet, Invoke
<1>3. CollectedWhenDone'
  BY DEF CallsTypeOK, CollectedWhenDone, Invoke
<1>4. ClausesAreImpugnacao'
  BY DEF CallsFit, CallsTypeOK, ClausesAreImpugnacao, Invoke, Threaded
<1>5. LoopSlotEmpty'
  BY DEF LoopSlotEmpty
<1>6. SharersKnown'
  BY DEF CallsTypeOK, SharersKnown, Invoke, Partners, InFlight
<1>7. OwnMetricWaits'
  BY DEF CallsTypeOK, OwnMetricWaits, Invoke
<1>8. MetricInOnePlace'
  <2> SUFFICES ASSUME NEW m \in Calls
               PROVE  /\ \A d \in Calls : collected'[d] = m =>
                           /\ callee'[d] = callee'[m]
                           /\ slot'[callee'[m]] # m
                           /\ m \notin overwritten'
                           /\ \A e \in Calls : collected'[e] = m => e = d
                      /\ m \in overwritten' => slot'[callee'[m]] # m
                      /\ \A b \in Agent : slot'[b] = m => callee'[m] = b
    BY DEF MetricInOnePlace
  <2>1. phase[c] = "idle" /\ callee' = [callee EXCEPT ![c] = a]
    BY DEF Invoke
  <2>2. CASE m = c
    BY <2>1, <2>2 DEF NoMetricYet
  <2>3. CASE m # c
    <3>1. callee'[m] = callee[m]
      BY <2>1, <2>3 DEF CallsTypeOK
    <3>2. \A d \in Calls : collected[d] = m => d # c /\ callee'[d] = callee[d]
      BY <2>1, CallsFit DEF CallsTypeOK, CollectedWhenDone, CallsFit
    <3>3. QED
      BY <3>1, <3>2 DEF MetricInOnePlace
  <2>4. QED
    BY <2>2, <2>3
<1>9. OwnMetricUnlessShared'
  BY DEF CallsTypeOK, OwnMetricUnlessShared, Invoke
<1>10. QED
  BY <1>1, <1>2, <1>3, <1>4, <1>5, <1>6, <1>7, <1>8, <1>9

(* The model raises: nothing but the call's phase changes.                 *)
LEMMA RaisedPreserves ==
  ASSUME CallsFit, CallsInv, NEW c \in Calls, Raised(c)
  PROVE  CallsInv'
<1> USE DEF CallsInv
<1>1. CallsTypeOK'
  BY DEF CallsTypeOK, Raised
<1>2. NoMetricYet'
  BY DEF CallsTypeOK, NoMetricYet, Raised
<1>3. CollectedWhenDone'
  BY DEF CallsTypeOK, CollectedWhenDone, Raised
<1>4. ClausesAreImpugnacao'
  BY DEF CallsTypeOK, ClausesAreImpugnacao, Raised
<1>5. LoopSlotEmpty'
  BY DEF LoopSlotEmpty, Raised
<1>6. SharersKnown'
  BY DEF CallsTypeOK, SharersKnown, Raised, InFlight
<1>7. OwnMetricWaits'
  BY DEF CallsTypeOK, OwnMetricWaits, Raised
<1>8. MetricInOnePlace'
  BY DEF MetricInOnePlace, Raised
<1>9. OwnMetricUnlessShared'
  BY DEF CallsTypeOK, OwnMetricUnlessShared, Raised
<1>10. QED
  BY <1>1, <1>2, <1>3, <1>4, <1>5, <1>6, <1>7, <1>8, <1>9

(* The thread has its answer: the metric it finds in the slot is lost, and *)
(* whoever left it there is in flight too, or has failed.                  *)
LEMMA SetLastMetricPreserves ==
  ASSUME CallsFit, CallsInv, NEW c \in Calls, NEW parsed \in BOOLEAN, SetLastMetric(c, parsed)
  PROVE  CallsInv'
<1> USE DEF CallsInv
<1> DEFINE a == callee[c]
<1>1. /\ phase[c] = "invoking" /\ a \in Threaded /\ a \in Agent /\ a # "impugnacao"
      /\ slot' = [slot EXCEPT ![a] = c]
      /\ overwritten' = overwritten \cup ({slot[a]} \ {None})
      /\ phase' = [phase EXCEPT ![c] = IF parsed THEN "returned" ELSE "failed"]
      /\ UNCHANGED <<callee, clauses, left, collected, shared>>
  BY DEF SetLastMetric, Agent, Threaded
<1> HIDE DEF a
<1>2. CallsTypeOK'
  BY <1>1 DEF CallsTypeOK
<1>3. NoMetricYet'
  BY <1>1 DEF CallsTypeOK, NoMetricYet
<1>4. CollectedWhenDone'
  BY <1>1 DEF CallsTypeOK, CollectedWhenDone
<1>5. ClausesAreImpugnacao'
  BY <1>1 DEF CallsTypeOK, ClausesAreImpugnacao, a
<1>6. LoopSlotEmpty'
  BY <1>1 DEF LoopSlotEmpty, CallsTypeOK
<1>7. SharersKnown'
  BY <1>1 DEF CallsTypeOK, SharersKnown, InFlight
<1>8. OwnMetricWaits'
  BY <1>1 DEF CallsTypeOK, OwnMetricWaits, SharersKnown, InFlight, a
<1>9. MetricInOnePlace'
  <2> SUFFICES ASSUME NEW m \in Calls
               PROVE  /\ \A d \in Calls : collected'[d] = m =>
                           /\ callee'[d] = callee'[m]
                           /\ slot'[callee'[m]] # m
                           /\ m \notin overwritten'
                           /\ \A e \in Calls : collected'[e] = m => e = d
                      /\ m \in overwritten' => slot'[callee'[m]] # m
                      /\ \A b \in Agent : slot'[b] = m => callee'[m] = b
    BY DEF MetricInOnePlace
  <2>1. CASE m = c
    <3>1. /\ \A d \in Calls : collected'[d] # m
          /\ m \notin overwritten'
      BY <1>1, <2>1 DEF NoMetricYet
    <3>2. \A b \in Agent : slot'[b] = m => callee'[m] = b
      BY <1>1, <2>1 DEF NoMetricYet, CallsTypeOK, a
    <3>3. QED
      BY <3>1, <3>2
  <2>2. CASE m # c /\ slot[a] = m
    <3>1. callee[m] = a /\ slot'[a] = c
      BY <1>1, <2>2 DEF MetricInOnePlace, CallsTypeOK
    <3>2. \A d \in Calls : collected'[d] # m
      BY <1>1, <2>2, <3>1 DEF MetricInOnePlace
    <3>3. \A b \in Agent : slot'[b] = m => callee'[m] = b
      BY <1>1, <2>2 DEF MetricInOnePlace, CallsTypeOK
    <3>4. QED
      BY <1>1, <2>2, <3>1, <3>2, <3>3
  <2>3. CASE m # c /\ slot[a] # m
    <3>1. m \in overwritten' <=> m \in overwritten
      BY <1>1, <2>3
    <3>2. \A b \in Agent : slot'[b] = m => slot[b] = m
      BY <1>1, <2>3 DEF CallsTypeOK
    <3>3. ASSUME NEW d \in Calls, collected'[d] = m
          PROVE  slot'[callee'[m]] # m
      <4>1. slot[callee[m]] # m
        BY <1>1, <3>3 DEF MetricInOnePlace
      <4>2. callee[m] # a => slot'[callee[m]] = slot[callee[m]]
        BY <1>1, <3>3 DEF CallsTypeOK
      <4>3. QED
        BY <1>1, <2>3, <4>1, <4>2 DEF CallsTypeOK
    <3>4. m \in overwritten' => slot'[callee'[m]] # m
      BY <1>1, <2>3, <3>1 DEF MetricInOnePlace, CallsTypeOK
    <3>5. QED
      BY <1>1, <3>1, <3>2, <3>3, <3>4 DEF MetricInOnePlace
  <2>4. QED
    BY <2>1, <2>2, <2>3
<1>10. OwnMetricUnlessShared'
  BY <1>1 DEF CallsTypeOK, OwnMetricUnlessShared
<1>11. QED
  BY <1>2, <1>3, <1>4, <1>5, <1>6, <1>7, <1>8, <1>9, <1>10

(* The node takes what the slot holds: its own call's metric, that of a    *)
(* call it shared the agent with, or nothing.                              *)
LEMMA GetLastMetricPreserves ==
  ASSUME CallsFit, CallsInv, NEW c \in Calls, GetLastMetric(c)
  PROVE  CallsInv'
<1> USE DEF CallsInv
<1> DEFINE a == callee[c]
<1>1. /\ phase[c] = "returned" /\ a \in Threaded /\ a \in Agent /\ a # "impugnacao"
      /\ collected' = [collected EXCEPT ![c] = slot[a]]
      /\ slot' = [slot EXCEPT ![a] = None]
      /\ phase' = [phase EXCEPT ![c] = "done"]
      /\ UNCHANGED <<callee, clauses, left, overwritten, shared>>
  BY DEF GetLastMetric, ClausesAreImpugnacao, Agent, Threaded
<1>2. collected[c] = None
  BY <1>1 DEF CollectedWhenDone
<1> HIDE DEF a
<1>3. CallsTypeOK'
  BY <1>1 DEF CallsTypeOK
<1>4. NoMetricYet'
  BY <1>1, CallsFit DEF CallsTypeOK, NoMetricYet, CallsFit
<1>5. CollectedWhenDone'
  BY <1>1 DEF CallsTypeOK, CollectedWhenDone
<1>6. ClausesAreImpugnacao'
  BY <1>1 DEF CallsTypeOK, ClausesAreImpugnacao
<1>7. LoopSlotEmpty'
  BY <1>1 DEF LoopSlotEmpty, CallsTypeOK
<1>8. SharersKnown'
  BY <1>1 DEF CallsTypeOK, SharersKnown, InFlight
<1>9. OwnMetricWaits'
  BY <1>1 DEF CallsTypeOK, OwnMetricWaits, SharersKnown, InFlight, a
<1>10. MetricInOnePlace'
  <2> SUFFICES ASSUME NEW m \in Calls
               PROVE  /\ \A d \in Calls : collected'[d] = m =>
                           /\ callee'[d] = callee'[m]
                           /\ slot'[callee'[m]] # m
                           /\ m \notin overwritten'
                           /\ \A e \in Calls : collected'[e] = m => e = d
                      /\ m \in overwritten' => slot'[callee'[m]] # m
                      /\ \A b \in Agent : slot'[b] = m => callee'[m] = b
    BY DEF MetricInOnePlace
  <2>1. CASE slot[a] = m
    <3>1. callee[m] = a /\ slot'[a] = None /\ m # None /\ m \notin overwritten
      BY <1>1, <2>1, CallsFit DEF MetricInOnePlace, CallsTypeOK, CallsFit
    <3>2. \A d \in Calls : collected[d] # m
      BY <2>1, <3>1 DEF MetricInOnePlace
    <3>3. \A d \in Calls : collected'[d] = m => d = c
      BY <1>1, <3>2 DEF CallsTypeOK
    <3>4. \A b \in Agent : slot'[b] = m => callee'[m] = b
      BY <1>1, <3>1 DEF MetricInOnePlace, CallsTypeOK
    <3>5. QED
      BY <1>1, <3>1, <3>3, <3>4 DEF a
  <2>2. CASE slot[a] # m
    <3>1. \A d \in Calls : collected'[d] = m => d # c /\ collected[d] = m
      BY <1>1, <2>2 DEF CallsTypeOK
    <3>2. \A b \in Agent : slot'[b] = m => slot[b] = m
      BY <1>1, CallsFit DEF CallsTypeOK, CallsFit
    <3>3. slot[callee[m]] # m => slot'[callee[m]] # m
      <4>1. callee[m] # a => slot'[callee[m]] = slot[callee[m]]
        BY <1>1 DEF CallsTypeOK
      <4>2. slot'[a] = None /\ m # None
        BY <1>1, CallsFit DEF CallsTypeOK, CallsFit
      <4>3. QED
        BY <4>1, <4>2
    <3>4. QED
      BY <1>1, <3>1, <3>2, <3>3 DEF MetricInOnePlace
  <2>3. QED
    BY <2>1, <2>2
<1>11. OwnMetricUnlessShared'
  BY <1>1 DEF CallsTypeOK, OwnMetricUnlessShared, OwnMetricWaits, a
<1>12. QED
  BY <1>3, <1>4, <1>5, <1>6, <1>7, <1>8, <1>9, <1>10, <1>11

(* impugnacao, asked nothing, finds its slot empty.                        *)
LEMMA NoClausePreserves ==
  ASSUME CallsFit, CallsInv, NEW c \in Calls,
         phase[c] = "idle",
         callee' = [callee EXCEPT ![c] = "impugnacao"],
         phase' = [phase EXCEPT ![c] = "done"],
         collected' = [collected EXCEPT ![c] = slot["impugnacao"]],
         slot' = [slot EXCEPT !["impugnacao"] = None],
         UNCHANGED <<clauses, left, overwritten, shared>>
  PROVE  CallsInv'
<1> USE DEF CallsInv
<1>1. "impugnacao" \in Agent
  BY DEF Agent
<1>2. slot' = slot /\ collected' = collected
  BY <1>1 DEF LoopSlotEmpty, CallsTypeOK, CollectedWhenDone
<1>3. CallsTypeOK'
  BY <1>1, <1>2 DEF CallsTypeOK
<1>4. NoMetricYet'
  BY <1>2 DEF CallsTypeOK, NoMetricYet
<1>5. CollectedWhenDone'
  BY <1>2 DEF CallsTypeOK, CollectedWhenDone
<1>6. ClausesAreImpugnacao'
  BY DEF CallsTypeOK, ClausesAreImpugnacao
<1>7. LoopSlotEmpty'
  BY <1>2 DEF LoopSlotEmpty
<1>8. SharersKnown'
  BY DEF CallsTypeOK, SharersKnown, InFlight
<1>9. OwnMetricWaits'
  BY <1>2 DEF CallsTypeOK, OwnMetricWaits
<1>10. MetricInOnePlace'
  <2> SUFFICES ASSUME NEW m \in Calls
               PROVE  /\ \A d \in Calls : collected'[d] = m =>
                           /\ callee'[d] = callee'[m]
                           /\ slot'[callee'[m]] # m
                           /\ m \notin overwritten'
                           /\ \A e \in Calls : collected'[e] = m => e = d
                      /\ m \in overwritten' => slot'[callee'[m]] # m
                      /\ \A b \in Agent : slot'[b] = m => callee'[m] = b
    BY DEF MetricInOnePlace
  <2>1. CASE m = c
    BY <1>2, <2>1 DEF NoMetricYet
  <2>2. CASE m # c
    <3>1. callee'[m] = callee[m]
      BY <2>2 DEF CallsTypeOK
    <3>2. \A d \in Calls : collected[d] = m => d # c /\ callee'[d] = callee[d]
      BY CallsFit DEF CallsTypeOK, CollectedWhenDone, CallsFit
    <3>3. QED
      BY <1>2, <3>1, <3>2 DEF MetricInOnePlace
  <2>3. QED
    BY <2>1, <2>2
<1>11. OwnMetricUnlessShared'
  BY <1>2 DEF CallsTypeOK, OwnMetricUnlessShared, LoopSlotEmpty, ClausesAreImpugnacao, CollectedWhenDone
<1>12. QED
  BY <1>3, <1>4, <1>5, <1>6, <1>7, <1>8, <1>9, <1>10, <1>11

(* The last answer: the metric goes from the call to its run in one step.  *)
LEMMA LastClausePreserves ==
  ASSUME CallsFit, CallsInv, NEW c \in Calls, LastClauseAnswered(c)
  PROVE  CallsInv'
<1> USE DEF CallsInv
<1>1. /\ phase[c] = "invoking" /\ left[c] = 1 /\ callee[c] = "impugnacao" /\ clauses[c] > 0
      /\ "impugnacao" \in Agent
      /\ left' = [left EXCEPT ![c] = 0]
      /\ phase' = [phase EXCEPT ![c] = "done"]
      /\ collected' = [collected EXCEPT ![c] = c]
      /\ UNCHANGED <<callee, clauses, shared>>
  BY DEF LastClauseAnswered, ClausesAreImpugnacao, Agent
<1>2. slot' = slot /\ overwritten' = overwritten
  BY <1>1 DEF LastClauseAnswered, LoopSlotEmpty, CallsTypeOK
<1>3. CallsTypeOK'
  BY <1>1, <1>2, CallsFit DEF CallsTypeOK, CallsFit
<1>4. NoMetricYet'
  BY <1>1, <1>2 DEF CallsTypeOK, NoMetricYet
<1>5. CollectedWhenDone'
  BY <1>1 DEF CallsTypeOK, CollectedWhenDone
<1>6. ClausesAreImpugnacao'
  BY <1>1 DEF CallsTypeOK, ClausesAreImpugnacao
<1>7. LoopSlotEmpty'
  BY <1>2 DEF LoopSlotEmpty
<1>8. SharersKnown'
  BY <1>1 DEF CallsTypeOK, SharersKnown, InFlight
<1>9. OwnMetricWaits'
  BY <1>1, <1>2 DEF CallsTypeOK, OwnMetricWaits
<1>10. MetricInOnePlace'
  <2> SUFFICES ASSUME NEW m \in Calls
               PROVE  /\ \A d \in Calls : collected'[d] = m =>
                           /\ callee'[d] = callee'[m]
                           /\ slot'[callee'[m]] # m
                           /\ m \notin overwritten'
                           /\ \A e \in Calls : collected'[e] = m => e = d
                      /\ m \in overwritten' => slot'[callee'[m]] # m
                      /\ \A b \in Agent : slot'[b] = m => callee'[m] = b
    BY DEF MetricInOnePlace
  <2>1. CASE m = c
    <3>1. \A d \in Calls : collected'[d] = m => d = c
      BY <1>1, <2>1 DEF NoMetricYet, CallsTypeOK
    <3>2. QED
      BY <1>1, <1>2, <2>1, <3>1 DEF NoMetricYet
  <2>2. CASE m # c
    <3>1. \A d \in Calls : collected'[d] = m => collected[d] = m
      BY <1>1, <2>2 DEF CallsTypeOK
    <3>2. QED
      BY <1>1, <1>2, <3>1 DEF MetricInOnePlace
  <2>3. QED
    BY <2>1, <2>2
<1>11. OwnMetricUnlessShared'
  BY <1>1 DEF CallsTypeOK, OwnMetricUnlessShared
<1>12. QED
  BY <1>3, <1>4, <1>5, <1>6, <1>7, <1>8, <1>9, <1>10, <1>11

(* Another answer leaves everything but the number to come.                *)
LEMMA ClausePreserves ==
  ASSUME CallsFit, CallsInv, NEW c \in Calls, ClauseAnswered(c)
  PROVE  CallsInv'
<1> USE DEF CallsInv
<1>1. CallsTypeOK'
  BY DEF CallsTypeOK, ClauseAnswered, CallsFit
<1>2. ClausesAreImpugnacao'
  BY DEF CallsTypeOK, ClausesAreImpugnacao, ClauseAnswered
<1>3. QED
  BY <1>1, <1>2 DEF ClauseAnswered, NoMetricYet, CollectedWhenDone, LoopSlotEmpty, SharersKnown,
     InFlight, OwnMetricWaits, MetricInOnePlace, OwnMetricUnlessShared

(* Every step preserves the invariant.                                     *)
LEMMA CallsStepPreserves ==
  ASSUME CallsFit, CallsInv, [CallsNext]_CallsVars
  PROVE  CallsInv'
<1>1. ASSUME NEW c \in Calls, NEW a \in Threaded, InThread(c, a)
      PROVE  CallsInv'
  <2>1. a \in Agent /\ 0 \in 0..MaxClauses /\ (a = "impugnacao" <=> 0 > 0)
    BY CallsFit DEF Agent, Threaded, CallsFit
  <2>2. Invoke(c, a) /\ phase[c] = "idle" /\ UNCHANGED <<clauses, left, slot, collected, overwritten>>
    BY <1>1 DEF InThread, Invoke
  <2>3. clauses' = [clauses EXCEPT ![c] = 0] /\ left' = [left EXCEPT ![c] = 0]
    BY <2>2 DEF CallsInv, ClausesAreImpugnacao, CallsTypeOK
  <2>4. UNCHANGED <<slot, collected, overwritten>>
    BY <2>2
  <2>5. QED
    BY <2>1, <2>2, <2>3, <2>4, InvokePreserves
<1>2. ASSUME NEW c \in Calls, NEW n \in 0..MaxClauses, Impugnacao(c, n)
      PROVE  CallsInv'
  <2>1. CASE n > 0
    <3>1. "impugnacao" \in Agent
      BY DEF Agent
    <3>2. /\ Invoke(c, "impugnacao")
          /\ UNCHANGED <<slot, collected, overwritten>>
          /\ clauses' = [clauses EXCEPT ![c] = n]
          /\ left' = [left EXCEPT ![c] = n]
      BY <1>2, <2>1 DEF Impugnacao
    <3>3. QED
      BY <2>1, <3>1, <3>2, InvokePreserves
  <2>2. CASE n = 0
    BY <1>2, <2>2, NoClausePreserves DEF Impugnacao
  <2>3. QED
    BY <2>1, <2>2
<1>3. CASE UNCHANGED CallsVars
  BY <1>3 DEF CallsVars, CallsInv, CallsTypeOK, NoMetricYet, CollectedWhenDone, ClausesAreImpugnacao,
     LoopSlotEmpty, SharersKnown, InFlight, OwnMetricWaits, MetricInOnePlace, OwnMetricUnlessShared
<1>4. ASSUME NEW c \in Calls,
             \/ ReadParse(c) \/ TenderUnderstanding(c) \/ LegalRegime(c) \/ Eligibility(c)
             \/ Compliance(c) \/ Pricing(c) \/ BidNoBid(c) \/ Proposal(c) \/ Contract(c)
      PROVE  CallsInv'
  BY <1>1, <1>4 DEF Threaded, ReadParse, TenderUnderstanding, LegalRegime, Eligibility, Compliance,
     Pricing, BidNoBid, Proposal, Contract
<1>5. QED
  BY <1>2, <1>3, <1>4, RaisedPreserves, SetLastMetricPreserves, GetLastMetricPreserves,
     ClausePreserves, LastClausePreserves DEF CallsNext

(* The strengthening is an invariant of the agents' accounts.              *)
LEMMA CallsInvariance ==
  ASSUME CallsFit
  PROVE  CallsSpec => []CallsInv
<1>1. CallsInit => CallsInv
  BY CallsStart
<1>2. CallsInv /\ [CallsNext]_CallsVars => CallsInv'
  BY CallsStepPreserves
<1>3. QED
  BY <1>1, <1>2, PTL DEF CallsSpec

(* Every slot, run and call keeps to its type, however the calls of the    *)
(* shared agents interleave (get_last_metric and the slot it empties).     *)
THEOREM CallsTypes ==
  ASSUME CallsFit
  PROVE  CallsSpec => []CallsTypeOK
<1>1. CallsInv => CallsTypeOK
  BY DEF CallsInv
<1>2. QED
  BY CallsInvariance, <1>1, PTL

(* No cost of an LLM call is reported twice or under another agent's name, *)
(* and none that was overwritten in an agent's _last_metric turns up.      *)
THEOREM MetricsAreNeverDoubled ==
  ASSUME CallsFit
  PROVE  CallsSpec => []MetricInOnePlace
<1>1. CallsInv => MetricInOnePlace
  BY DEF CallsInv
<1>2. QED
  BY CallsInvariance, <1>1, PTL

(* A run's agent_costs name the run's own call as long as no other run was *)
(* in the same agent, and the event-loop agent's always do.                *)
THEOREM OwnMetricReported ==
  ASSUME CallsFit
  PROVE  CallsSpec => []OwnMetricUnlessShared
<1>1. CallsInv => OwnMetricUnlessShared
  BY DEF CallsInv
<1>2. QED
  BY CallsInvariance, <1>1, PTL
-----------------------------------------------------------------------------
(* Billing. *)

(* What the store has learnt of a tenant, it learnt from its own events.   *)
StoresOwnIds ==
  \A t \in Tenants :
    /\ billing[t].customer \in {None, t}
    /\ billing[t].subscription # None => billing[t].subscription.of = t

(* After an activation the customer is known, and the stored subscription  *)
(* is the object of one of the activating events.                          *)
ActivationsAreStored ==
  \A t \in Tenants : Activated(t) # {} =>
    /\ billing[t].customer = t
    /\ \E j \in Activated(t) : billing[t].subscription = Id(t, j)

(* What the kind of an event alone makes of the status.                    *)
StatusOf(kind) == CASE kind = "deleted" -> "canceled"
                    [] kind = "payment_failed" -> "past_due"
                    [] kind \in Activating -> "active"

Planned(t) == {i \in Activated(t) : issued[t][i].plan # None}

(* Among the events applied, and among those that name a plan, there is a  *)
(* newest one, which decides.                                              *)
NewestDecides ==
  \A t \in Tenants \ late :
    /\ applied[t] # {} => \E m \in applied[t] :
         /\ \A j \in applied[t] : j <= m
         /\ billing[t].status = StatusOf(issued[t][m].kind)
    /\ Planned(t) # {} => \E m \in Planned(t) :
         /\ \A j \in Planned(t) : j <= m
         /\ billing[t].plan = issued[t][m].plan

BillingInv ==
  /\ BillingTypeOK
  /\ StoresOwnIds
  /\ ActivationsAreStored
  /\ NewestDecides
-----------------------------------------------------------------------------
(* What every event has, whatever it is about.                             *)
LEMMA EventFields ==
  ASSUME BillingFit, NEW e \in Event
  PROVE  /\ e.kind \in {"deleted", "payment_failed"} \cup Activating
         /\ e.sub \in 0..MaxSubs
         /\ e.plan \in Plans \cup {None}
         /\ e.kind \in {"created", "updated"} => e.status \in {"active", "inactive"}
  BY DEF BillingFit, Event, Activating

(* An event's id is nobody else's and never None.                          *)
LEMMA Ids ==
  ASSUME BillingFit, BillingTypeOK, NEW t \in Tenants, NEW i \in DOMAIN issued[t]
  PROVE  /\ issued[t][i] \in Event
         /\ i \in Nat
         /\ Id(t, i) \in BillingId
         /\ Id(t, i).of = t
         /\ Id(t, i) # None
         /\ t # None
<1>1. issued[t] \in Seq(Event) /\ i \in 1..Len(issued[t])
  BY DEF BillingTypeOK
<1>2. issued[t][i] \in Event /\ i \in Nat
  BY <1>1, ElementOfSeq
<1>3. MaxSubs \in Nat /\ None \notin Tenants \cup Plans /\ None \notin [of: Tenants, sub: Nat, invoice: Nat]
  BY DEF BillingFit
<1>4. issued[t][i].sub \in 0..MaxSubs
  BY <1>2, EventFields
<1>5. Id(t, i) \in BillingId /\ Id(t, i).of = t
  BY <1>2, <1>3, <1>4 DEF Id, BillingId
<1>6. Id(t, i) \in [of: Tenants, sub: Nat, invoice: Nat]
  BY <1>3, <1>5 DEF BillingId
<1>7. QED
  BY <1>2, <1>3, <1>5, <1>6

(* An event is never taken to be about somebody else.                      *)
LEMMA FoundIsOwn ==
  ASSUME BillingFit, BillingTypeOK, StoresOwnIds, NEW t \in Tenants, NEW i \in DOMAIN issued[t]
  PROVE  Found(t, i) \subseteq {t}
<1>1. ASSUME NEW u \in Tenants, billing[u].subscription = Id(t, i)
      PROVE  u = t
  BY <1>1, Ids DEF StoresOwnIds
<1>2. ASSUME NEW u \in Tenants, billing[u].customer = t
      PROVE  u = t
  BY <1>2, Ids DEF StoresOwnIds
<1>3. QED
  BY <1>1, <1>2 DEF Found

(* And it finds its tenant once one subscription has activated it.         *)
LEMMA FoundAfterActivation ==
  ASSUME BillingFit, BillingTypeOK, StoresOwnIds, ActivationsAreStored
  PROVE  EventsFindTheirTenant
<1> SUFFICES ASSUME NEW t \in Tenants, NEW i \in DOMAIN issued[t]
             PROVE  /\ Found(t, i) \subseteq {t}
                    /\ \A n \in 1..MaxSubs :
                         /\ Activated(t) # {}
                         /\ \A j \in Activated(t) : issued[t][j].sub = n
                         /\ issued[t][i].sub \in {0, n}
                         => Found(t, i) = {t}
  BY DEF EventsFindTheirTenant
<1>1. Found(t, i) \subseteq {t}
  BY FoundIsOwn
<1>2. ASSUME NEW n \in 1..MaxSubs, Activated(t) # {},
             \A j \in Activated(t) : issued[t][j].sub = n,
             issued[t][i].sub \in {0, n}
      PROVE  t \in Found(t, i)
  <2>1. billing[t].customer = t
    BY <1>2 DEF ActivationsAreStored
  <2>2. PICK j \in Activated(t) : billing[t].subscription = Id(t, j)
    BY <1>2 DEF ActivationsAreStored
  <2>3. n # 0
    BY <1>2, SMT DEF BillingFit
  <2>4. Id(t, j) = [of |-> t, sub |-> n, invoice |-> 0]
    BY <1>2, <2>2, <2>3 DEF Id
  <2>5. issued[t][i].sub # 0 => Id(t, i) = [of |-> t, sub |-> n, invoice |-> 0]
    BY <1>2, <2>3 DEF Id
  <2>6. QED
    BY <2>1, <2>2, <2>4, <2>5 DEF Found
<1>3. QED
  BY <1>1, <1>2
-----------------------------------------------------------------------------
(* The newest of a set of events is the one no other is newer than.        *)
LEMMA NewestIsLast ==
  ASSUME NEW S \in SUBSET Nat, NEW m \in S, \A j \in S : j <= m
  PROVE  Newest(S) = m
<1>1. Newest(S) \in S /\ \A j \in S : j <= Newest(S)
  BY DEF Newest
<1>2. Newest(S) \in Nat /\ m \in Nat /\ m <= Newest(S) /\ Newest(S) <= m
  BY <1>1
<1>3. QED
  BY <1>2, SMT

(* The kind tells what Stripe says of the subscription, but for an event   *)
(* that gives it another status and an invoice that is not about it.       *)
LEMMA KindTells ==
  ASSUME BillingFit, NEW e \in Event, ~Parts(e)
  PROVE  StatusOf(e.kind) = Says(e)
  BY EventFields DEF Parts, StatusOf, Says, Activating

(* So the status and the plan are the newest events'.                      *)
LEMMA NewestDecidesStatus ==
  ASSUME BillingFit, BillingTypeOK, NewestDecides
  PROVE  StatusFollowsStripe
<1> SUFFICES ASSUME NEW t \in Tenants \ late
             PROVE  /\ applied[t] # {} =>
                         LET e == issued[t][Newest(applied[t])]
                         IN ~Parts(e) => billing[t].status = Says(e)
                    /\ Planned(t) # {} => billing[t].plan = issued[t][Newest(Planned(t))].plan
  BY DEF StatusFollowsStripe, Planned
<1>1. applied[t] \in SUBSET Nat /\ Planned(t) \in SUBSET Nat
  BY DEF BillingTypeOK, Planned, Activated
<1>2. ASSUME applied[t] # {}
      PROVE  LET e == issued[t][Newest(applied[t])]
             IN ~Parts(e) => billing[t].status = Says(e)
  <2>1. PICK m \in applied[t] : /\ \A j \in applied[t] : j <= m
                                /\ billing[t].status = StatusOf(issued[t][m].kind)
    BY <1>2 DEF NewestDecides
  <2>2. Newest(applied[t]) = m
    BY <1>1, <2>1, NewestIsLast
  <2>3. issued[t][m] \in Event
    BY <2>1, Ids DEF BillingTypeOK
  <2>4. QED
    BY <2>1, <2>2, <2>3, KindTells
<1>3. Planned(t) # {} => billing[t].plan = issued[t][Newest(Planned(t))].plan
  BY <1>1, NewestIsLast DEF NewestDecides
<1>4. QED
  BY <1>2, <1>3

(* Nothing is issued, known or applied at first.                           *)
LEMMA BillingStarts ==
  ASSUME BillingFit, BillingInit
  PROVE  BillingInv
<1>1. BillingTypeOK
  BY EmptySeq DEF BillingInit, BillingTypeOK, NoBilling, BillingFit
<1>2. \A t \in Tenants : Activated(t) = {}
  BY DEF BillingInit, Activated
<1>3. StoresOwnIds /\ ActivationsAreStored
  BY <1>2 DEF BillingInit, NoBilling, StoresOwnIds, ActivationsAreStored
<1>4. NewestDecides
  BY <1>2 DEF BillingInit, NewestDecides, Planned
<1>5. QED
  BY <1>1, <1>3, <1>4 DEF BillingInv

(* A new event changes nothing that was said of the earlier ones.          *)
LEMMA IssuePreserves ==
  ASSUME BillingFit, BillingInv, NEW t \in Tenants, NEW e \in Event, Issue(t, e)
  PROVE  BillingInv'
<1>1. issued' = [issued EXCEPT ![t] = Append(@, e)] /\ UNCHANGED <<billing, applied, late>>
  BY DEF Issue
<1>2. BillingTypeOK
  BY DEF BillingInv
<1>3. \A u \in Tenants :
        /\ issued'[u] \in Seq(Event)
        /\ DOMAIN issued[u] \subseteq DOMAIN issued'[u]
        /\ \A i \in DOMAIN issued[u] : issued'[u][i] = issued[u][i]
  <2> SUFFICES ASSUME NEW u \in Tenants
               PROVE  /\ issued'[u] \in Seq(Event)
                      /\ DOMAIN issued[u] \subseteq DOMAIN issued'[u]
                      /\ \A i \in DOMAIN issued[u] : issued'[u][i] = issued[u][i]
    OBVIOUS
  <2>1. issued[u] \in Seq(Event)
    BY <1>2 DEF BillingTypeOK
  <2>2. CASE u = t
    <3>1. issued'[u] = Append(issued[u], e)
      BY <1>1, <1>2, <2>2 DEF BillingTypeOK
    <3>2. QED
      BY <2>1, <3>1, AppendProperties
  <2>3. CASE u # t
    BY <1>1, <1>2, <2>1, <2>3 DEF BillingTypeOK
  <2>4. QED
    BY <2>2, <2>3
<1>4. BillingTypeOK'
  <2>1. issued' \in [Tenants -> Seq(Event)]
    BY <1>1, <1>2, <1>3 DEF BillingTypeOK
  <2>2. QED
    BY <1>1, <1>2, <1>3, <2>1 DEF BillingTypeOK, BillingId
<1>5. \A u \in Tenants : Activated(u)' = Activated(u)
  BY <1>1, <1>2, <1>3 DEF Activated, BillingTypeOK
<1>6. \A u \in Tenants : \A i \in applied[u] : issued'[u][i] = issued[u][i]
  BY <1>2, <1>3 DEF BillingTypeOK
<1>7. StoresOwnIds'
  BY <1>1 DEF BillingInv, StoresOwnIds
<1>8. ActivationsAreStored'
  <2>1. \A u \in Tenants : \A j \in Activated(u) : Id(u, j)' = Id(u, j)
    BY <1>6 DEF Activated, Id
  <2>2. QED
    BY <1>1, <1>5, <2>1 DEF BillingInv, ActivationsAreStored
<1>9. NewestDecides'
  <2> SUFFICES ASSUME NEW u \in Tenants \ late'
               PROVE  /\ applied'[u] # {} => \E m \in applied'[u] :
                           /\ \A j \in applied'[u] : j <= m
                           /\ billing'[u].status = StatusOf(issued'[u][m].kind)
                      /\ Planned(u)' # {} => \E m \in Planned(u)' :
                           /\ \A j \in Planned(u)' : j <= m
                           /\ billing'[u].plan = issued'[u][m].plan
    BY DEF NewestDecides, StatusOf
  <2>1. Planned(u)' = Planned(u)
    BY <1>5, <1>6 DEF Planned, Activated
  <2>2. Planned(u) \subseteq applied[u]
    BY DEF Planned, Activated
  <2>3. ASSUME applied[u] # {}
        PROVE  \E m \in applied[u] :
                 /\ \A j \in applied[u] : j <= m
                 /\ billing[u].status = StatusOf(issued'[u][m].kind)
    BY <1>1, <1>6, <2>3 DEF BillingInv, NewestDecides
  <2>4. ASSUME Planned(u) # {}
        PROVE  \E m \in Planned(u) :
                 /\ \A j \in Planned(u) : j <= m
                 /\ billing[u].plan = issued'[u][m].plan
    BY <1>1, <1>6, <2>2, <2>4 DEF BillingInv, NewestDecides
  <2>5. QED
    BY <1>1, <2>1, <2>3, <2>4
<1>10. QED
  BY <1>4, <1>7, <1>8, <1>9 DEF BillingInv

(* An event is applied to the tenant it is about, and to nobody else.      *)
LEMMA WebhookPreserves ==
  ASSUME BillingFit, BillingInv, NEW t \in Tenants, NEW i \in DOMAIN issued[t], StripeWebhook(t, i)
  PROVE  BillingInv'
<1> DEFINE e == issued[t][i]
           before == GetOrCreateTrial(t)
           after == ApplyStripeEvent(before, t, i)
<1>1. BillingTypeOK /\ StoresOwnIds /\ ActivationsAreStored /\ NewestDecides
  BY DEF BillingInv
<1>2. /\ billing' = [billing EXCEPT ![t] = after]
      /\ applied' = [applied EXCEPT ![t] = @ \cup {i}]
      /\ late' = IF \E j \in applied[t] : j > i THEN late \cup {t} ELSE late
      /\ UNCHANGED issued
  BY <1>1, FoundIsOwn DEF StripeWebhook
<1>3. /\ e \in Event /\ i \in Nat /\ Id(t, i) \in BillingId /\ Id(t, i).of = t
      /\ Id(t, i) # None /\ t # None
  BY <1>1, Ids
<1>4. /\ billing[t] \in [status: {"none", "trial", "active", "past_due", "canceled"},
                         plan: Plans \cup {None}, customer: Tenants \cup {None},
                         subscription: BillingId \cup {None}]
      /\ before \in [status: {"none", "trial", "active", "past_due", "canceled"},
                     plan: Plans \cup {None}, customer: Tenants \cup {None},
                     subscription: BillingId \cup {None}]
      /\ before.plan = billing[t].plan
      /\ before.customer = billing[t].customer
      /\ before.subscription = billing[t].subscription
  BY <1>1 DEF BillingTypeOK, GetOrCreateTrial, Trial, NoBilling
<1>5. e.kind \in {"deleted", "payment_failed"} \cup Activating
  BY <1>3, EventFields
<1>6. /\ after \in [status: {"none", "trial", "active", "past_due", "canceled"},
                    plan: Plans \cup {None}, customer: Tenants \cup {None},
                    subscription: BillingId \cup {None}]
      /\ after.status = StatusOf(e.kind)
      /\ after.plan = IF e.kind \in Activating /\ e.plan # None
                      THEN e.plan ELSE billing[t].plan
      /\ after.customer = IF e.kind \in Activating THEN t ELSE billing[t].customer
      /\ after.subscription = IF e.kind \in Activating THEN Id(t, i) ELSE billing[t].subscription
  <2>1. CASE e.kind \notin Activating
    BY <1>4, <1>5, <2>1 DEF ApplyStripeEvent, StatusOf, Activating
  <2>2. CASE e.kind \in Activating
    BY <1>3, <1>4, <2>2, EventFields DEF ApplyStripeEvent, StatusOf, Activating
  <2>3. QED
    BY <2>1, <2>2
<1> HIDE DEF after, before
<1>7. /\ billing'[t] = after
      /\ applied'[t] = applied[t] \cup {i}
      /\ \A u \in Tenants : u # t => billing'[u] = billing[u] /\ applied'[u] = applied[u]
  BY <1>1, <1>2 DEF BillingTypeOK
<1>8. /\ Activated(t)' = IF e.kind \in Activating THEN Activated(t) \cup {i} ELSE Activated(t)
      /\ Planned(t)' = IF e.kind \in Activating /\ e.plan # None
                       THEN Planned(t) \cup {i} ELSE Planned(t)
      /\ \A u \in Tenants : u # t => Activated(u)' = Activated(u) /\ Planned(u)' = Planned(u)
  BY <1>2, <1>7 DEF Activated, Planned
<1>9. BillingTypeOK'
  <2>1. billing' \in [Tenants ->
          [status: {"none", "trial", "active", "past_due", "canceled"},
           plan: Plans \cup {None}, customer: Tenants \cup {None}, subscription: BillingId \cup {None}]]
    BY <1>1, <1>2, <1>6 DEF BillingTypeOK
  <2>2. \A u \in Tenants : applied'[u] \subseteq DOMAIN issued'[u]
    BY <1>1, <1>2, <1>7 DEF BillingTypeOK
  <2>3. applied' \in [Tenants -> SUBSET Nat]
    BY <1>1, <1>2, <1>3 DEF BillingTypeOK
  <2>4. late' \subseteq Tenants
    BY <1>1, <1>2 DEF BillingTypeOK
  <2>5. QED
    BY <1>1, <1>2, <2>1, <2>2, <2>3, <2>4 DEF BillingTypeOK, BillingId
<1>10. StoresOwnIds'
  BY <1>1, <1>3, <1>6, <1>7 DEF StoresOwnIds
<1>11. ActivationsAreStored'
  <2> SUFFICES ASSUME NEW u \in Tenants, Activated(u)' # {}
               PROVE  /\ billing'[u].customer = u
                      /\ \E j \in Activated(u)' : billing'[u].subscription = Id(u, j)
    BY <1>2 DEF ActivationsAreStored, Id
  <2>1. CASE u # t
    BY <1>1, <1>7, <1>8, <2>1 DEF ActivationsAreStored
  <2>2. CASE u = t /\ e.kind \in Activating
    BY <1>6, <1>7, <1>8, <2>2
  <2>3. CASE u = t /\ e.kind \notin Activating
    BY <1>1, <1>6, <1>7, <1>8, <2>3 DEF ActivationsAreStored
  <2>4. QED
    BY <2>1, <2>2, <2>3
<1>12. NewestDecides'
  <2> SUFFICES ASSUME NEW u \in Tenants \ late'
               PROVE  /\ applied'[u] # {} => \E m \in applied'[u] :
                           /\ \A j \in applied'[u] : j <= m
                           /\ billing'[u].status = StatusOf(issued'[u][m].kind)
                      /\ Planned(u)' # {} => \E m \in Planned(u)' :
                           /\ \A j \in Planned(u)' : j <= m
                           /\ billing'[u].plan = issued'[u][m].plan
    BY DEF NewestDecides, StatusOf
  <2>1. u \notin late
    BY <1>2
  <2>2. CASE u # t
    BY <1>1, <1>2, <1>7, <1>8, <2>1, <2>2 DEF NewestDecides
  <2>3. CASE u = t
    <3>1. \A j \in applied'[t] : j <= i
      <4>1. \A j \in applied[t] : j \in Nat /\ ~(j > i)
        BY <1>1, <1>2, <2>3 DEF BillingTypeOK
      <4>2. QED
        BY <1>3, <1>7, <4>1
    <3>2. Planned(t)' \subseteq applied'[t]
      BY DEF Planned, Activated
    <3>3. Planned(t)' # {} => \E m \in Planned(t)' :
            /\ \A j \in Planned(t)' : j <= m
            /\ after.plan = issued[t][m].plan
      <4>1. CASE e.kind \in Activating /\ e.plan # None
        BY <1>6, <1>8, <3>1, <3>2, <4>1
      <4>2. CASE ~(e.kind \in Activating /\ e.plan # None)
        BY <1>1, <1>6, <1>8, <2>1, <2>3, <4>2 DEF NewestDecides
      <4>3. QED
        BY <4>1, <4>2
    <3>4. QED
      BY <1>2, <1>6, <1>7, <2>3, <3>1, <3>3
  <2>4. QED
    BY <2>2, <2>3
<1>13. QED
  BY <1>9, <1>10, <1>11, <1>12 DEF BillingInv

(* Nothing in the invariant depends on anything but the store.             *)
LEMMA BillingStutterPreserves ==
  ASSUME BillingInv, UNCHANGED BillingVars
  PROVE  BillingInv'
<1>1. UNCHANGED <<issued, billing, applied, late>>
  BY DEF BillingVars
<1>2. BillingTypeOK' /\ StoresOwnIds'
  BY <1>1 DEF BillingInv, BillingTypeOK, StoresOwnIds, BillingId
<1>3. \A t \in Tenants : Activated(t)' = Activated(t) /\ Planned(t)' = Planned(t)
  BY <1>1 DEF Activated, Planned
<1>4. ActivationsAreStored'
  BY <1>1, <1>3 DEF BillingInv, ActivationsAreStored, Id
<1>5. NewestDecides'
  <2> SUFFICES ASSUME NEW u \in Tenants \ late'
               PROVE  /\ applied'[u] # {} => \E m \in applied'[u] :
                           /\ \A j \in applied'[u] : j <= m
                           /\ billing'[u].status = StatusOf(issued'[u][m].kind)
                      /\ Planned(u)' # {} => \E m \in Planned(u)' :
                           /\ \A j \in Planned(u)' : j <= m
                           /\ billing'[u].plan = issued'[u][m].plan
    BY DEF NewestDecides, StatusOf
  <2>1. QED
    BY <1>1, <1>3 DEF BillingInv, NewestDecides
<1>6. QED
  BY <1>2, <1>4, <1>5 DEF BillingInv

(* Asking for the usage of an unknown tenant makes it a trial, and nothing *)
(* else.                                                                   *)
LEMMA UsagePreserves ==
  ASSUME BillingFit, BillingInv, NEW t \in Tenants, GetUsage(t)
  PROVE  BillingInv'
<1>1. BillingTypeOK /\ StoresOwnIds /\ ActivationsAreStored /\ NewestDecides
  BY DEF BillingInv
<1>2. CASE billing[t] # NoBilling
  <2>1. billing' = billing /\ UNCHANGED <<issued, applied, late>>
    BY <1>1, <1>2 DEF GetUsage, GetOrCreateTrial, BillingTypeOK
  <2>2. QED
    BY <2>1, BillingStutterPreserves DEF BillingVars
<1>3. CASE billing[t] = NoBilling
  <2>1. /\ billing' = [billing EXCEPT ![t] = Trial]
        /\ UNCHANGED <<issued, applied, late>>
    BY <1>3 DEF GetUsage, GetOrCreateTrial
  <2>2. Trial \in [status: {"none", "trial", "active", "past_due", "canceled"},
                   plan: Plans \cup {None}, customer: Tenants \cup {None},
                   subscription: BillingId \cup {None}]
    BY DEF Trial, NoBilling, BillingFit
  <2>3. BillingTypeOK'
    BY <1>1, <2>1, <2>2 DEF BillingTypeOK, BillingId
  <2>4. \A u \in Tenants : Activated(u)' = Activated(u) /\ Planned(u)' = Planned(u)
    BY <2>1 DEF Activated, Planned
  <2>5. Activated(t) = {}
    BY <1>1, <1>3 DEF ActivationsAreStored, NoBilling, BillingFit
  <2>6. StoresOwnIds'
    BY <1>1, <2>1 DEF BillingTypeOK, StoresOwnIds, Trial, NoBilling
  <2>7. ActivationsAreStored'
    <3>1. \A u \in Tenants \ {t} : billing'[u] = billing[u]
      BY <1>1, <2>1 DEF BillingTypeOK
    <3>2. \A u \in Tenants : \A j \in Activated(u) : Id(u, j)' = Id(u, j)
      BY <2>1 DEF Id
    <3>3. QED
      BY <1>1, <2>4, <2>5, <3>1, <3>2 DEF ActivationsAreStored
  <2>8. t \notin late => applied[t] = {} /\ Planned(t) = {}
    <3>1. billing[t].status = "none"
      BY <1>3 DEF NoBilling
    <3>2. ASSUME t \notin late, NEW m \in applied[t]
          PROVE  StatusOf(issued[t][m].kind) # "none"
      <4>1. m \in DOMAIN issued[t]
        BY <1>1 DEF BillingTypeOK
      <4>2. issued[t][m].kind \in {"deleted", "payment_failed"} \cup Activating
        BY <1>1, <4>1, Ids, EventFields DEF Activating
      <4>3. QED
        BY <4>2 DEF StatusOf, Activating
    <3>3. t \notin late => applied[t] = {}
      BY <1>1, <3>1, <3>2 DEF NewestDecides
    <3>4. QED
      BY <3>3 DEF Planned, Activated
  <2>9. NewestDecides'
    <3>1. \A u \in Tenants \ {t} : billing'[u] = billing[u]
      BY <1>1, <2>1 DEF BillingTypeOK
    <3> SUFFICES ASSUME NEW u \in Tenants \ late'
                 PROVE  /\ applied'[u] # {} => \E m \in applied'[u] :
                             /\ \A j \in applied'[u] : j <= m
                             /\ billing'[u].status = StatusOf(issued'[u][m].kind)
                        /\ Planned(u)' # {} => \E m \in Planned(u)' :
                             /\ \A j \in Planned(u)' : j <= m
                             /\ billing'[u].plan = issued'[u][m].plan
      BY DEF NewestDecides, StatusOf
    <3>2. CASE u = t
      BY <2>1, <2>4, <2>8, <3>2
    <3>3. CASE u # t
      BY <1>1, <2>1, <2>4, <3>1, <3>3 DEF NewestDecides
    <3>4. QED
      BY <3>2, <3>3
  <2>10. QED
    BY <2>3, <2>6, <2>7, <2>9 DEF BillingInv
<1>4. QED
  BY <1>2, <1>3

(* A restart forgets everything but what Stripe has issued.                *)
LEMMA RestartPreserves ==
  ASSUME BillingFit, BillingInv, Restart
  PROVE  BillingInv'
<1>1. BillingTypeOK'
  BY DEF BillingInv, BillingTypeOK, Restart, NoBilling, BillingId, BillingFit
<1>2. \A t \in Tenants : applied'[t] = {} /\ Activated(t)' = {} /\ Planned(t)' = {}
  BY DEF Restart, Activated, Planned
<1>3. StoresOwnIds'
  BY DEF Restart, StoresOwnIds, NoBilling
<1>4. ActivationsAreStored' /\ NewestDecides'
  BY <1>2 DEF ActivationsAreStored, NewestDecides
<1>5. QED
  BY <1>1, <1>3, <1>4 DEF BillingInv

(* The strengthening is an invariant of the billing store.                 *)
LEMMA BillingInvariance ==
  ASSUME BillingFit
  PROVE  BillingSpec => []BillingInv
<1>1. BillingInit => BillingInv
  BY BillingStarts
<1>2. BillingInv /\ [BillingNext]_BillingVars => BillingInv'
  <2> SUFFICES ASSUME BillingInv, [BillingNext]_BillingVars
               PROVE  BillingInv'
    OBVIOUS
  <2>1. CASE UNCHANGED BillingVars
    BY <2>1, BillingStutterPreserves
  <2>2. CASE BillingNext
    BY <2>2, IssuePreserves, WebhookPreserves, UsagePreserves, RestartPreserves DEF BillingNext
  <2>3. QED
    BY <2>1, <2>2
<1>3. QED
  BY <1>1, <1>2, PTL DEF BillingSpec

(* The store keeps to its type whatever the webhook is sent.               *)
THEOREM BillingTypes ==
  ASSUME BillingFit
  PROVE  BillingSpec => []BillingTypeOK
<1>1. BillingInv => BillingTypeOK
  BY DEF BillingInv
<1>2. QED
  BY BillingInvariance, <1>1, PTL

(* The webhook's look-up by metadata, subscription and customer is never   *)
(* mistaken, and never in vain after an activation by the same             *)
(* subscription, in whatever order the events come.                        *)
THEOREM EventsAreFound ==
  ASSUME BillingFit
  PROVE  BillingSpec => []EventsFindTheirTenant
<1>1. BillingInv => EventsFindTheirTenant
  BY FoundAfterActivation DEF BillingInv
<1>2. QED
  BY BillingInvariance, <1>1, PTL

(* For every tenant none of whose events was overtaken, the status is what *)
(* Stripe says of the subscription in its newest event, repeats included,  *)
(* but for the events Parts names; the plan is the newest one named.       *)
THEOREM StatusIsStripes ==
  ASSUME BillingFit
  PROVE  BillingSpec => []StatusFollowsStripe
<1>1. BillingInv => StatusFollowsStripe
  BY NewestDecidesStatus DEF BillingInv
<1>2. QED
  BY BillingInvariance, <1>1, PTL
=============================================================================
