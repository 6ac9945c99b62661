------------------------------- MODULE Billing -------------------------------
(***************************************************************************)
(* What the application knows of a tenant's subscription: an in-memory     *)
(* BillingStore that only Stripe's webhook changes.  Stripe delivers an    *)
(* event at least once and in no particular order, so every event issued   *)
(* stays deliverable.  The webhook finds the tenant by the metadata, the   *)
(* subscription or the customer of the event's object, and overwrites the  *)
(* status whatever the event's age and by its kind alone: the status that  *)
(* the subscription has in the event is not read.  Each handler awaits     *)
(* only locks nobody holds across a suspension, and so is one action.      *)
(***************************************************************************)
EXTENDS Absent, Integers, Sequences, FiniteSets

CONSTANTS
  Tenants,   \* each a customer of Stripe's
  Plans,     \* what the metadata of an object may name as the plan
  MaxEvents, \* bound: events issued altogether
  MaxSubs    \* bound: subscriptions of one tenant, one after the other

(* What Services assumes of these constants. *)
BillingFit ==
  /\ MaxEvents \in Nat
  /\ MaxSubs \in Nat
  /\ None \notin Tenants \cup Plans
  /\ None \notin [of: Tenants, sub: Nat, invoice: Nat]

InvoiceKinds == {"paid", "payment_failed"}
Activating == {"paid", "created", "updated"}

(* sub is 0 in an invoice that belongs to no subscription; status is the   *)
(* subscription's own in the events about one, "inactive" standing for     *)
(* past_due, unpaid, paused and whatever else Stripe does not call active; *)
(* tagged: the object's metadata names the tenant; plan: what it names as  *)
(* the plan, where the code looks for it.                                  *)
Event ==
  [kind: {"created", "updated"}, sub: 1..MaxSubs, status: {"active", "inactive"},
   tagged: BOOLEAN, plan: Plans \cup {None}]
  \cup [kind: {"deleted"}, sub: 1..MaxSubs, status: {"canceled"},
        tagged: BOOLEAN, plan: {None}]
  \cup [kind: {"paid"}, sub: 0..MaxSubs, status: {"none"},
        tagged: BOOLEAN, plan: Plans \cup {None}]
  \cup [kind: {"payment_failed"}, sub: 0..MaxSubs, status: {"none"},
        tagged: BOOLEAN, plan: {None}]

VARIABLES
  issued,  \* the events Stripe has issued about each tenant, oldest first
  billing, \* BillingStore._by_tenant
  applied, \* history: the events applied since the process started
  late     \* history: tenants to whom an event was applied after a newer one

BillingVars == <<issued, billing, applied, late>>

NoBilling == [status |-> "none", plan |-> None, customer |-> None, subscription |-> None]
Trial == [NoBilling EXCEPT !.status = "trial"]

BillingInit ==
  /\ issued = [t \in Tenants |-> <<>>]
  /\ billing = [t \in Tenants |-> NoBilling]
  /\ applied = [t \in Tenants |-> {}]
  /\ late = {}
-----------------------------------------------------------------------------
(* Stripe: a tenant subscribes, and after a cancellation subscribes again; *)
(* the running subscription changes, is invoiced or ends; an invoice may   *)
(* belong to no subscription at all.                                       *)
Subscriptions(t) == {i \in DOMAIN issued[t] : issued[t][i].kind = "created"}
Running(t, n) ==
  /\ \E i \in DOMAIN issued[t] : issued[t][i].kind = "created" /\ issued[t][i].sub = n
  /\ ~\E i \in DOMAIN issued[t] : issued[t][i].kind = "deleted" /\ issued[t][i].sub = n

AllEvents == UNION {{t} \X DOMAIN issued[t] : t \in Tenants}

Issue(t, e) ==
  /\ Cardinality(AllEvents) < MaxEvents
  /\ \/ /\ e.kind = "created"
        /\ e.sub = Cardinality(Subscriptions(t)) + 1
        /\ \A n \in 1..MaxSubs : ~Running(t, n)
     \/ e.kind \in {"updated", "deleted"} \cup InvoiceKinds /\ Running(t, e.sub)
     \/ e.kind \in InvoiceKinds /\ e.sub = 0
  /\ issued' = [issued EXCEPT ![t] = Append(@, e)]
  /\ UNCHANGED <<billing, applied, late>>
-----------------------------------------------------------------------------
(* obj.subscription or obj.id: a subscription's object has no field        *)
(* subscription and is itself the id, an invoice's may lack it.            *)
Id(t, i) ==
  LET e == issued[t][i]
  IN [of |-> t, sub |-> e.sub, invoice |-> IF e.sub = 0 THEN i ELSE 0]

(* Fault: the customer is not asked for. *)
FoundBySubscriptionOnly(t, i) ==
  IF issued[t][i].tagged THEN {t}
  ELSE {u \in Tenants : billing[u].subscription = Id(t, i)}

(* The tenants the webhook may take the i-th event about t to be about.    *)
Found(t, i) ==
  LET e == issued[t][i]
  IN IF e.tagged THEN {t}
     ELSE IF e.kind \in InvoiceKinds /\ e.sub # 0
     THEN {u \in Tenants : billing[u].subscription = Id(t, i)}
     ELSE {u \in Tenants : billing[u].customer = t}

(* Fault: a payment that failed is not told from one that was made. *)
ApplyStripeEventPaid(b, t, i) ==
  LET e == issued[t][i]
  IN IF e.kind = "deleted" THEN [b EXCEPT !.status = "canceled"]
     ELSE [status |-> "active", customer |-> t, subscription |-> Id(t, i),
           plan |-> IF e.plan # None THEN e.plan ELSE b.plan]

ApplyStripeEvent(b, t, i) ==
  LET e == issued[t][i]
  IN CASE e.kind = "deleted" -> [b EXCEPT !.status = "canceled"]
       [] e.kind = "payment_failed" -> [b EXCEPT !.status = "past_due"]
       [] e.kind \in Activating ->
            [status |-> "active", customer |-> t, subscription |-> Id(t, i),
             plan |-> IF e.plan # None THEN e.plan ELSE b.plan]

GetOrCreateTrial(t) == IF billing[t] = NoBilling THEN Trial ELSE billing[t]

(* An event that finds nobody is answered 404 and changes nothing.         *)
StripeWebhook(t, i) ==
  \E u \in Found(t, i) :
    /\ billing' = [billing EXCEPT ![u] = ApplyStripeEvent(GetOrCreateTrial(u), t, i)]
    /\ applied' = [applied EXCEPT ![t] = @ \cup {i}]
    /\ late' = IF \E j \in applied[t] : j > i THEN late \cup {t} ELSE late
    /\ UNCHANGED issued

GetUsage(t) ==
  /\ billing' = [billing EXCEPT ![t] = GetOrCreateTrial(t)]
  /\ UNCHANGED <<issued, applied, late>>

(* The store is in memory. *)
Restart ==
  /\ billing' = [t \in Tenants |-> NoBilling]
  /\ applied' = [t \in Tenants |-> {}]
  /\ late' = {}
  /\ UNCHANGED issued

BillingNext ==
  \/ \E t \in Tenants :
       \/ \E e \in Event : Issue(t, e)
       \/ \E i \in DOMAIN issued[t] : StripeWebhook(t, i)
       \/ GetUsage(t)
  \/ Restart

BillingSpec == BillingInit /\ [][BillingNext]_BillingVars
-----------------------------------------------------------------------------
BillingId == [of: Tenants, sub: 0..MaxSubs, invoice: Nat]

BillingTypeOK ==
  /\ issued \in [Tenants -> Seq(Event)]
  /\ billing \in [Tenants ->
       [status: {"none", "trial", "active", "past_due", "canceled"},
        plan: Plans \cup {None},
        customer: Tenants \cup {None},
        subscription: BillingId \cup {None}]]
  /\ applied \in [Tenants -> SUBSET Nat]
  /\ \A t \in Tenants : applied[t] \subseteq DOMAIN issued[t]
  /\ late \subseteq Tenants

Activated(t) == {i \in applied[t] : issued[t][i].kind \in Activating}

(* An event is never taken to be about another tenant; and once a tenant   *)
(* has been activated, always by events of one and the same subscription,  *)
(* every event of that subscription and every one that names none finds    *)
(* it, with metadata or without, in whatever order they come.  (An event   *)
(* of another subscription, or an invoice without one, replaces the stored *)
(* id, and the first subscription's invoices are answered 404.)            *)
EventsFindTheirTenant ==
  \A t \in Tenants : \A i \in DOMAIN issued[t] :
    /\ Found(t, i) \subseteq {t}
    /\ \A n \in 1..MaxSubs :
         /\ Activated(t) # {}
         /\ \A j \in Activated(t) : issued[t][j].sub = n
         /\ issued[t][i].sub \in {0, n}
         => Found(t, i) = {t}

Newest(S) == CHOOSE i \in S : \A j \in S : j <= i

(* What Stripe says of the tenant's subscription in an event about it.     *)
Says(e) ==
  CASE e.kind \in {"created", "updated"} -> e.status
    [] e.kind = "deleted" -> "canceled"
    [] e.kind = "payment_failed" -> "past_due"
    [] e.kind = "paid" -> "active"

(* Where the application is known to part from Stripe: a subscription that *)
(* was created or changed is active whatever status it has, and an invoice *)
(* of no subscription is taken for one of the subscription.                *)
Parts(e) ==
  \/ e.kind \in {"created", "updated"} /\ e.status # "active"
  \/ e.sub = 0

(* The status is what Stripe says of the subscription in its newest event  *)
(* about the tenant, however often the events came, whoever asked for the  *)
(* usage in between and whatever was known before, as long as no event was *)
(* overtaken and the newest is none of those Parts names; and the plan is  *)
(* the one named by the newest activating event that names one.            *)
StatusFollowsStripe ==
  \A t \in Tenants \ late :
    /\ applied[t] # {} =>
         LET e == issued[t][Newest(applied[t])]
         IN ~Parts(e) => billing[t].status = Says(e)
    /\ LET planned == {i \in Activated(t) : issued[t][i].plan # None}
       IN planned # {} => billing[t].plan = issued[t][Newest(planned)].plan

(* "canceled / past_due / paused" is what evaluate_quota says it refuses:  *)
(* a tenant whose subscription Stripe's newest event calls inactive is not *)
(* active in the application, all events having come in their order.       *)
InactiveIsRefused ==
  \A t \in Tenants \ late :
    applied[t] # {} =>
      LET e == issued[t][Newest(applied[t])]
      IN Says(e) \in {"inactive", "past_due", "canceled"} => billing[t].status # "active"
=============================================================================
