----------------------------- MODULE DeliveryProofs -----------------------------
(***************************************************************************)
(* Proofs about what the application hands on, for any number of calls,    *)
(* documents, rows and faults: an alert goes out over a channel once in    *)
(* four hours, an accepted document is not lost, and the decision that is  *)
(* announced is the decision on record unless it came too late.            *)
(***************************************************************************)
EXTENDS Notifications, Intake, Approvals, SequenceTheorems, TLAPS

(* The dispatcher. *)

Sending(d, k) == dispatch[d] # None /\ dispatch[d].key = k

Apart(i, j) == i - j >= Window \/ j - i >= Window

(* Only a call that has decided to send has something left to send.        *)
SendersHaveDecided ==
  \A d \in Dispatches :
    dispatch[d] # None /\ dispatch[d].todo # <<>> =>
      dispatch[d].key \in Keys /\ dispatch[d].decided \in Hours

(* _last_sent is the time of the last decision to send, and has come.      *)
LastSentIsLast ==
  \A k \in Keys :
    /\ lastSent[k] # None => lastSent[k] <= hour
    /\ \A s \in sends : s.key = k => lastSent[k] # None /\ s.decided <= lastSent[k]
    /\ \A d \in Dispatches : Sending(d, k) =>
         /\ lastSent[k] # None
         /\ dispatch[d].decided \in Hours
         /\ dispatch[d].decided <= lastSent[k]

(* Whoever sends or has sent the same alert decided to four hours apart.   *)
DecisionsApart ==
  \A k \in Keys :
    /\ \A c, d \in Dispatches :
         c # d /\ Sending(c, k) /\ Sending(d, k) => Apart(dispatch[c].decided, dispatch[d].decided)
    /\ \A s \in sends : \A d \in Dispatches :
         s.key = k /\ s.by # d /\ Sending(d, k) => Apart(s.decided, dispatch[d].decided)
    /\ \A s, t \in sends :
         s.key = k /\ t.key = k /\ s.by # t.by => Apart(s.decided, t.decided)

DispatcherInv == NotificationsTypeOK /\ SendersHaveDecided /\ LastSentIsLast /\ DecisionsApart
-----------------------------------------------------------------------------
(* A call of no further interest is well typed, and of no key.             *)
LEMMA ReturnedIsACall ==
  ASSUME NotificationsFit
  PROVE  Returned \in Call /\ Returned.key \notin Keys
  BY EmptySeq DEF NotificationsFit, Returned, Call

(* The channels a tenant has enabled are channels.                         *)
LEMMA EnabledChannels ==
  ASSUME NEW prefs \in SUBSET Channel
  PROVE  Enabled(prefs) \in Seq(Channel)
<1> DEFINE Only(ch) == IF ch \in prefs THEN <<ch>> ELSE <<>>
<1>1. \A ch \in Channel : Only(ch) \in Seq(Channel)
  OBVIOUS
<1>2. Only("email") \in Seq(Channel) /\ Only("whatsapp") \in Seq(Channel) /\ Only("webhook") \in Seq(Channel)
  BY <1>1 DEF Channel
<1> HIDE DEF Only
<1>3. Only("email") \o Only("whatsapp") \in Seq(Channel)
  BY <1>2, ConcatProperties
<1>4. (Only("email") \o Only("whatsapp")) \o Only("webhook") \in Seq(Channel)
  BY <1>2, <1>3, ConcatProperties
<1>5. QED
  BY <1>4 DEF Enabled, Only

(* Nobody has sent anything at first.                                      *)
LEMMA DispatcherStarts ==
  ASSUME NotificationsFit, NotificationsInit
  PROVE  DispatcherInv
  BY DEF NotificationsFit, NotificationsInit, DispatcherInv, NotificationsTypeOK, SendersHaveDecided, LastSentIsLast, DecisionsApart, Sending

(* Time only makes the decisions older.                                    *)
LEMMA HoursPassPreserves ==
  ASSUME NotificationsFit, DispatcherInv, HoursPass
  PROVE  DispatcherInv'
<1>1. NotificationsTypeOK'
  BY DEF DispatcherInv, NotificationsTypeOK, HoursPass
<1>2. LastSentIsLast'
  <2>1. \A k \in Keys : lastSent[k] # None => lastSent[k] <= hour'
    BY DEF DispatcherInv, NotificationsTypeOK, LastSentIsLast, HoursPass, NotificationsFit
  <2>2. QED
    BY <2>1 DEF DispatcherInv, LastSentIsLast, HoursPass, Sending
<1>3. DecisionsApart'
  BY DEF DispatcherInv, DecisionsApart, HoursPass, Sending
<1>4. SendersHaveDecided'
  BY DEF DispatcherInv, SendersHaveDecided, HoursPass
<1>5. QED
  BY <1>1, <1>2, <1>3, <1>4 DEF DispatcherInv

(* A call that decides to send does so four hours after the last decision. *)
LEMMA DispatchPreserves ==
  ASSUME NotificationsFit, DispatcherInv, NEW d \in Dispatches, NEW k \in Keys,
         NEW critical \in BOOLEAN, NEW typeEnabled \in BOOLEAN, NEW prefs \in SUBSET Channel,
         Dispatch(d, k, critical, typeEnabled, prefs)
  PROVE  DispatcherInv'
<1> DEFINE call == [key |-> k, decided |-> hour, todo |-> Enabled(prefs)]
<1>1. NotificationsTypeOK /\ SendersHaveDecided /\ LastSentIsLast /\ DecisionsApart /\ UNCHANGED <<hour, sends>>
  BY DEF DispatcherInv, Dispatch
<1>2. call \in Call /\ hour \in Nat /\ hour \in Hours /\ hour # None
  BY <1>1, EnabledChannels DEF NotificationsTypeOK, Call, NotificationsFit
<1>3. CASE dispatch' = [dispatch EXCEPT ![d] = Returned] /\ UNCHANGED lastSent
  <2>1. NotificationsTypeOK'
    BY <1>1, <1>3, ReturnedIsACall DEF NotificationsTypeOK
  <2>2. \A c \in Dispatches : \A l \in Keys :
          Sending(c, l)' => Sending(c, l) /\ dispatch'[c] = dispatch[c]
    BY <1>1, <1>3, ReturnedIsACall DEF NotificationsTypeOK, Sending
  <2>3. LastSentIsLast'
    BY <1>1, <1>3, <2>2 DEF LastSentIsLast
  <2>4. DecisionsApart'
    BY <1>1, <2>2 DEF DecisionsApart, Apart
  <2>5. SendersHaveDecided'
    BY <1>1, <1>3 DEF NotificationsTypeOK, SendersHaveDecided, Returned
  <2>6. QED
    BY <2>1, <2>3, <2>4, <2>5 DEF DispatcherInv
<1>4. CASE /\ ~IsDup(k)
           /\ lastSent' = [lastSent EXCEPT ![k] = hour]
           /\ dispatch' = [dispatch EXCEPT ![d] = call]
  <2>1. NotificationsTypeOK'
    BY <1>1, <1>2, <1>4 DEF NotificationsTypeOK
  <2>2. \A c \in Dispatches : \A l \in Keys :
          Sending(c, l)' => \/ c # d /\ Sending(c, l) /\ dispatch'[c] = dispatch[c]
                            \/ c = d /\ l = k /\ dispatch'[c] = call
    BY <1>1, <1>4 DEF NotificationsTypeOK, Sending
  <2>3. /\ lastSent'[k] = hour
        /\ \A l \in Keys : l # k => lastSent'[l] = lastSent[l]
        /\ lastSent[k] # None => lastSent[k] \in Nat /\ lastSent[k] <= hour - Window
    BY <1>1, <1>2, <1>4 DEF NotificationsTypeOK, IsDup, Window, NotificationsFit
  <2>4. /\ \A s \in sends : s.key = k => s.decided \in Nat /\ s.decided <= hour - Window
        /\ \A c \in Dispatches : Sending(c, k) =>
             dispatch[c].decided \in Nat /\ dispatch[c].decided <= hour - Window
    <3>1. ASSUME NEW s \in sends, s.key = k
          PROVE  s.decided \in Nat /\ s.decided <= hour - Window
      <4>1. s.decided \in Nat
        BY <1>1 DEF NotificationsTypeOK, Sent, NotificationsFit
      <4>2. lastSent[k] # None /\ s.decided <= lastSent[k]
        BY <1>1, <3>1 DEF LastSentIsLast
      <4>3. QED
        BY <1>2, <2>3, <4>1, <4>2 DEF Window
    <3>2. ASSUME NEW c \in Dispatches, Sending(c, k)
          PROVE  dispatch[c].decided \in Nat /\ dispatch[c].decided <= hour - Window
      <4>1. lastSent[k] # None /\ dispatch[c].decided \in Nat /\ dispatch[c].decided <= lastSent[k]
        BY <1>1, <3>2 DEF LastSentIsLast, NotificationsFit
      <4>2. QED
        BY <1>2, <2>3, <4>1 DEF Window
    <3>3. QED
      BY <3>1, <3>2
  <2>5. LastSentIsLast'
    BY <1>1, <1>2, <2>2, <2>3, <2>4 DEF LastSentIsLast, Window
  <2>6. DecisionsApart'
    BY <1>1, <1>2, <2>2, <2>4 DEF DecisionsApart, Apart, Window
  <2>7. SendersHaveDecided'
    BY <1>1, <1>2, <1>4 DEF NotificationsTypeOK, SendersHaveDecided
  <2>8. QED
    BY <2>1, <2>5, <2>6, <2>7 DEF DispatcherInv
<1>5. QED
  BY <1>3, <1>4 DEF Dispatch

(* What is handed to a channel was decided when its call was.              *)
LEMMA SendPreserves ==
  ASSUME NotificationsFit, DispatcherInv, NEW d \in Dispatches, NEW outcome, Send(d, outcome)
  PROVE  DispatcherInv'
<1> DEFINE call == dispatch[d]
           s == [key |-> call.key, channel |-> Head(call.todo), by |-> d, decided |-> call.decided]
<1>1. /\ NotificationsTypeOK /\ SendersHaveDecided /\ LastSentIsLast /\ DecisionsApart /\ UNCHANGED <<hour, lastSent>>
      /\ call # None /\ call.todo # <<>>
      /\ sends' = sends \cup {s}
      /\ dispatch' = [dispatch EXCEPT ![d] =
           IF outcome = "raised" \/ Len(call.todo) = 1 THEN Returned ELSE [call EXCEPT !.todo = Tail(call.todo)]]
  BY DEF DispatcherInv, Send
<1>2. /\ call \in Call /\ call.key \in Keys /\ call.decided \in Hours
      /\ Head(call.todo) \in Channel /\ Tail(call.todo) \in Seq(Channel)
  BY <1>1, HeadTailProperties DEF NotificationsTypeOK, SendersHaveDecided, Call
<1>3. PICK after \in Call :
        /\ dispatch' = [dispatch EXCEPT ![d] = after]
        /\ after.key \in Keys => after.key = call.key /\ after.decided = call.decided
        /\ after.todo # <<>> => after.key \in Keys
  <2>1. CASE outcome = "raised" \/ Len(call.todo) = 1
    BY <1>1, <2>1, ReturnedIsACall DEF Returned
  <2>2. CASE ~(outcome = "raised" \/ Len(call.todo) = 1)
    <3> DEFINE rest == [call EXCEPT !.todo = Tail(call.todo)]
    <3>1. rest \in Call /\ rest.key = call.key /\ rest.decided = call.decided
      BY <1>2 DEF Call
    <3>2. dispatch' = [dispatch EXCEPT ![d] = rest]
      <4>1. (IF outcome = "raised" \/ Len(call.todo) = 1 THEN Returned ELSE rest) = rest
        BY <2>2
      <4>2. QED
        BY <1>1, <4>1
    <3> HIDE DEF rest
    <3>3. QED
      BY <1>2, <3>1, <3>2
  <2>3. QED
    BY <2>1, <2>2
<1>4. s \in Sent
  BY <1>2 DEF Sent
<1>5. NotificationsTypeOK'
  BY <1>1, <1>3, <1>4 DEF NotificationsTypeOK
<1>6. SendersHaveDecided'
  BY <1>1, <1>2, <1>3 DEF NotificationsTypeOK, SendersHaveDecided
<1>7. /\ Sending(d, call.key)
      /\ \A c \in Dispatches : \A k \in Keys :
           Sending(c, k)' => Sending(c, k) /\ dispatch'[c].decided = dispatch[c].decided
  BY <1>1, <1>3 DEF NotificationsTypeOK, Sending
<1>8. LastSentIsLast'
  BY <1>1, <1>2, <1>7 DEF LastSentIsLast
<1>9. DecisionsApart'
  <2> SUFFICES ASSUME NEW k \in Keys
               PROVE  /\ \A c, b \in Dispatches :
                           c # b /\ Sending(c, k)' /\ Sending(b, k)' =>
                             Apart(dispatch'[c].decided, dispatch'[b].decided)
                      /\ \A r \in sends' : \A b \in Dispatches :
                           r.key = k /\ r.by # b /\ Sending(b, k)' =>
                             Apart(r.decided, dispatch'[b].decided)
                      /\ \A r, t \in sends' :
                           r.key = k /\ t.key = k /\ r.by # t.by => Apart(r.decided, t.decided)
    BY DEF DecisionsApart, Apart
  <2>1. \A c, b \in Dispatches :
          c # b /\ Sending(c, k)' /\ Sending(b, k)' =>
            Apart(dispatch'[c].decided, dispatch'[b].decided)
    BY <1>1, <1>7 DEF DecisionsApart
  <2>2. ASSUME NEW r \in sends', NEW b \in Dispatches, r.key = k, r.by # b, Sending(b, k)'
        PROVE  Apart(r.decided, dispatch'[b].decided)
    BY <1>1, <1>7, <2>2 DEF DecisionsApart
  <2>3. ASSUME NEW r \in sends', NEW t \in sends', r.key = k, t.key = k, r.by # t.by
        PROVE  Apart(r.decided, t.decided)
    <3>1. CASE r \in sends /\ t \in sends
      BY <1>1, <2>3, <3>1 DEF DecisionsApart
    <3>2. CASE r = s /\ t \in sends
      BY <1>1, <1>7, <2>3, <3>2 DEF DecisionsApart, Apart
    <3>3. CASE r \in sends /\ t = s
      BY <1>1, <1>7, <2>3, <3>3 DEF DecisionsApart, Apart
    <3>4. QED
      BY <1>1, <2>3, <3>1, <3>2, <3>3
  <2>4. QED
    BY <2>1, <2>2, <2>3
<1>10. QED
  BY <1>5, <1>6, <1>8, <1>9 DEF DispatcherInv

(* The strengthening is an invariant of the dispatcher.                    *)
LEMMA DispatcherInvariance ==
  ASSUME NotificationsFit
  PROVE  NotificationsSpec => []DispatcherInv
<1>1. NotificationsInit => DispatcherInv
  BY DispatcherStarts
<1>2. DispatcherInv /\ [NotificationsNext]_NotificationsVars => DispatcherInv'
  <2> SUFFICES ASSUME DispatcherInv, [NotificationsNext]_NotificationsVars
               PROVE  DispatcherInv'
    OBVIOUS
  <2>1. CASE UNCHANGED NotificationsVars
    BY <2>1 DEF NotificationsVars, DispatcherInv, NotificationsTypeOK, SendersHaveDecided, LastSentIsLast, DecisionsApart, Sending
  <2>2. CASE NotificationsNext
    BY <2>2, HoursPassPreserves, DispatchPreserves, SendPreserves DEF NotificationsNext
  <2>3. QED
    BY <2>1, <2>2
<1>3. QED
  BY <1>1, <1>2, PTL DEF NotificationsSpec

(* Calls, times and what was handed to the channels keep to their types.   *)
THEOREM DispatcherTypes ==
  ASSUME NotificationsFit
  PROVE  NotificationsSpec => []NotificationsTypeOK
<1>1. DispatcherInv => NotificationsTypeOK
  BY DEF DispatcherInv
<1>2. QED
  BY DispatcherInvariance, <1>1, PTL

(* _is_dup and the entry in _last_sent are one step, so that two calls of  *)
(* dispatch() hand the same alert to a channel only if they decided to     *)
(* four hours apart, whatever their sends do meanwhile.                    *)
THEOREM AlertsAreNotRepeated ==
  ASSUME NotificationsFit
  PROVE  NotificationsSpec => []OncePerWindow
<1>1. DispatcherInv => OncePerWindow
  BY DEF DispatcherInv, NotificationsTypeOK, Sent, DecisionsApart, Apart, OncePerWindow
<1>2. QED
  BY DispatcherInvariance, <1>1, PTL
-----------------------------------------------------------------------------
(* The intake. *)

(* What a worker has behind it is there to stay, also if another delivery  *)
(* of the same document fails or finishes meanwhile.                       *)
DeliveriesKeepUp ==
  \A w \in Workers :
    /\ At(w, "publish_event") => worker[w].doc \in parsed
    /\ At(w, "return") => worker[w].doc \in announced

IntakeInv == IntakeTypeOK /\ DeliveriesKeepUp /\ AcceptedIsNotLost
-----------------------------------------------------------------------------
(* Nothing is uploaded, under way or announced at first.                   *)
LEMMA IntakeStarts ==
  ASSUME IntakeFit, IntakeInit
  PROVE  IntakeInv
  BY DEF IntakeFit, IntakeInit, IntakeInv, IntakeTypeOK, DeliveriesKeepUp, AcceptedIsNotLost, At, Free

(* An upload's steps: accepting it makes its task as well.                 *)
LEMMA UploadPreserves ==
  ASSUME IntakeFit, IntakeInv, NEW d \in Docs,
         UploadRaw(d) \/ EnqueueWorker(d) \/ UploadFails(d)
  PROVE  IntakeInv'
<1> USE DEF IntakeInv
<1>1. UNCHANGED <<worker, parsed, announced>> /\ tasks \subseteq tasks' /\ tasks' \subseteq Docs
  BY DEF UploadRaw, EnqueueWorker, UploadFails, IntakeTypeOK
<1>2. IntakeTypeOK'
  BY <1>1 DEF IntakeTypeOK, UploadRaw, EnqueueWorker, UploadFails, Fault, IntakeFit
<1>3. DeliveriesKeepUp'
  BY <1>1 DEF DeliveriesKeepUp, At
<1>4. AcceptedIsNotLost'
  <2>1. \A e \in Docs : upload'[e] = "accepted" => upload[e] = "accepted" \/ e \in tasks'
    BY DEF IntakeTypeOK, UploadRaw, EnqueueWorker, UploadFails
  <2>2. QED
    BY <1>1, <2>1 DEF AcceptedIsNotLost
<1>5. QED
  BY <1>2, <1>3, <1>4

(* A delivery begins, or ends before its time: the task stays.             *)
LEMMA DeliveryPreserves ==
  ASSUME IntakeFit, IntakeInv, NEW w \in Workers,
         (\E d \in Docs : Deliver(w, d)) \/ WorkerFails(w)
  PROVE  IntakeInv'
<1> USE DEF IntakeInv
<1>1. UNCHANGED <<upload, tasks, parsed, announced>>
  BY DEF Deliver, WorkerFails
<1>2. IntakeTypeOK'
  BY DEF IntakeTypeOK, Deliver, WorkerFails, Fault, Free, IntakeFit
<1>3. DeliveriesKeepUp'
  BY <1>1 DEF IntakeTypeOK, DeliveriesKeepUp, At, Deliver, WorkerFails, Free
<1>4. AcceptedIsNotLost'
  BY <1>1 DEF AcceptedIsNotLost
<1>5. QED
  BY <1>2, <1>3, <1>4

(* The pages are stored, announced, and only then is the task forgotten.   *)
LEMMA WorkerStepPreserves ==
  ASSUME IntakeFit, IntakeInv, NEW w \in Workers, WorkerStep(w)
  PROVE  IntakeInv'
<1> USE DEF IntakeInv
<1>1. worker[w].doc \in Docs
  BY DEF IntakeTypeOK, WorkerStep, SaveParsed, PublishEvent, Acknowledge, At
<1>2. CASE SaveParsed(w)
  <2>1. IntakeTypeOK'
    BY <1>1, <1>2 DEF IntakeTypeOK, SaveParsed
  <2>2. DeliveriesKeepUp'
    BY <1>2 DEF IntakeTypeOK, DeliveriesKeepUp, At, SaveParsed
  <2>3. AcceptedIsNotLost'
    BY <1>2 DEF AcceptedIsNotLost, SaveParsed
  <2>4. QED
    BY <2>1, <2>2, <2>3
<1>3. CASE PublishEvent(w)
  <2>1. IntakeTypeOK'
    BY <1>1, <1>3 DEF IntakeTypeOK, PublishEvent
  <2>2. DeliveriesKeepUp'
    BY <1>3 DEF IntakeTypeOK, DeliveriesKeepUp, At, PublishEvent
  <2>3. AcceptedIsNotLost'
    BY <1>3 DEF AcceptedIsNotLost, DeliveriesKeepUp, PublishEvent
  <2>4. QED
    BY <2>1, <2>2, <2>3
<1>4. CASE Acknowledge(w)
  <2>1. IntakeTypeOK'
    BY <1>4 DEF IntakeTypeOK, Acknowledge, Free
  <2>2. DeliveriesKeepUp'
    BY <1>4 DEF IntakeTypeOK, DeliveriesKeepUp, At, Acknowledge, Free
  <2>3. AcceptedIsNotLost'
    BY <1>4 DEF AcceptedIsNotLost, DeliveriesKeepUp, Acknowledge
  <2>4. QED
    BY <2>1, <2>2, <2>3
<1>5. QED
  BY <1>2, <1>3, <1>4 DEF WorkerStep

(* The strengthening is an invariant of the intake.                        *)
LEMMA IntakeInvariance ==
  ASSUME IntakeFit
  PROVE  IntakeSpec => []IntakeInv
<1>1. IntakeInit => IntakeInv
  BY IntakeStarts
<1>2. IntakeInv /\ [IntakeNext]_IntakeVars => IntakeInv'
  <2> SUFFICES ASSUME IntakeInv, [IntakeNext]_IntakeVars
               PROVE  IntakeInv'
    OBVIOUS
  <2>1. CASE UNCHANGED IntakeVars
    BY <2>1 DEF IntakeVars, IntakeInv, IntakeTypeOK, DeliveriesKeepUp, AcceptedIsNotLost, At
  <2>2. CASE IntakeNext
    BY <2>2, UploadPreserves, DeliveryPreserves, WorkerStepPreserves DEF IntakeNext
  <2>3. QED
    BY <2>1, <2>2
<1>3. QED
  BY <1>1, <1>2, PTL DEF IntakeSpec

(* Uploads, tasks and deliveries keep to their types whatever fails.       *)
THEOREM IntakeTypes ==
  ASSUME IntakeFit
  PROVE  IntakeSpec => []IntakeTypeOK
<1>1. IntakeInv => IntakeTypeOK
  BY DEF IntakeInv
<1>2. QED
  BY IntakeInvariance, <1>1, PTL

(* A 202 from POST /documents is a promise: the document is announced or   *)
(* the queue still has its task, and what is announced has its pages,      *)
(* however many workers have the document and whichever of them fail.      *)
THEOREM AcceptedDocumentsAreKept ==
  ASSUME IntakeFit
  PROVE  IntakeSpec => []AcceptedIsNotLost
<1>1. IntakeInv => AcceptedIsNotLost
  BY DEF IntakeInv
<1>2. QED
  BY IntakeInvariance, <1>1, PTL
-----------------------------------------------------------------------------
(* The approval queue. *)

(* Whose decision a row is, and what became of it: the UPDATE that won is  *)
(* the one on record, and only an answered request has published.          *)
DecidedByWinners ==
  /\ \A q \in Requests :
       /\ request[q].at # "unsent" =>
            request[q].run \in Queued /\ request[q].decision \in QueueDecision
       /\ request[q].at = "won" => row[request[q].run] = request[q].decision
  /\ \A p \in published : request[p.by].at = "answered"

(* No two requests win the same row, before or after they have published.  *)
OneWinnerPerRun ==
  /\ \A q, s \in Requests :
       request[q].at = "won" /\ request[s].at = "won" /\ request[q].run = request[s].run => q = s
  /\ \A p \in published : \A q \in Requests :
       ~p.late /\ request[q].at = "won" => p.run # request[q].run

ApprovalsInv ==
  ApprovalsTypeOK /\ DecidedByWinners /\ OneWinnerPerRun /\ AnnouncedMatchesUnlessLate

(* No row is queued, and nobody has decided.                               *)
LEMMA ApprovalsStart ==
  ASSUME ApprovalsFit, ApprovalsInit
  PROVE  ApprovalsInv
  BY DEF ApprovalsFit, ApprovalsInit, ApprovalsInv, ApprovalsTypeOK, DecidedByWinners, OneWinnerPerRun,
         AnnouncedMatchesUnlessLate, NoRequest, QueueDecision

(* A row appears: nothing was ever decided about it that is on record.     *)
LEMMA InsertPreserves ==
  ASSUME ApprovalsFit, ApprovalsInv, NEW r \in Queued, InsertRow(r)
  PROVE  ApprovalsInv'
<1> USE DEF ApprovalsInv
<1>1. /\ \A k \in Queued : k # r => row'[k] = row[k]
      /\ row[r] = "absent" /\ row'[r] = "pending"
      /\ UNCHANGED <<request, published>>
  BY DEF InsertRow, ApprovalsTypeOK
<1>2. ApprovalsTypeOK'
  BY DEF InsertRow, ApprovalsTypeOK
<1>3. DecidedByWinners' /\ OneWinnerPerRun'
  BY <1>1 DEF DecidedByWinners, OneWinnerPerRun, QueueDecision
<1>4. AnnouncedMatchesUnlessLate'
  BY <1>1 DEF AnnouncedMatchesUnlessLate, ApprovalsTypeOK, QueueDecision
<1>5. QED
  BY <1>2, <1>3, <1>4

(* The UPDATE: it wins a pending row, for which nobody has won before, or  *)
(* it comes too late and changes none.                                     *)
LEMMA DecidePreserves ==
  ASSUME ApprovalsFit, ApprovalsInv, NEW q \in Requests, NEW r \in Queued,
         NEW decision \in QueueDecision, Decide(q, r, decision)
  PROVE  ApprovalsInv'
<1> USE DEF ApprovalsInv
<1>1. /\ request[q].at = "unsent"
      /\ request'[q].run = r /\ request'[q].decision = decision
      /\ request'[q].at = IF row[r] = "pending" THEN "won" ELSE "late"
      /\ \A s \in Requests : s # q => request'[s] = request[s]
      /\ \A k \in Queued : k # r => row'[k] = row[k]
      /\ row'[r] = IF row[r] = "pending" THEN decision ELSE row[r]
      /\ published' = published
  BY DEF Decide, ApprovalsTypeOK, NoRequest
<1>2. ApprovalsTypeOK'
  BY DEF Decide, ApprovalsTypeOK
<1>3. row[r] = "pending" =>
        /\ \A s \in Requests : ~(request[s].at = "won" /\ request[s].run = r)
        /\ \A p \in published : p.late \/ p.run # r
  BY DEF DecidedByWinners, AnnouncedMatchesUnlessLate, ApprovalsTypeOK, QueueDecision
<1>4. DecidedByWinners'
  <2>1. \A p \in published : request'[p.by].at = "answered"
    BY <1>1 DEF DecidedByWinners, ApprovalsTypeOK
  <2>2. \A s \in Requests :
          /\ request'[s].at # "unsent" =>
               request'[s].run \in Queued /\ request'[s].decision \in QueueDecision
          /\ request'[s].at = "won" => row'[request'[s].run] = request'[s].decision
    BY <1>1, <1>3 DEF DecidedByWinners
  <2>3. QED
    BY <1>1, <2>1, <2>2 DEF DecidedByWinners
<1>5. OneWinnerPerRun'
  BY <1>1, <1>3 DEF OneWinnerPerRun
<1>6. AnnouncedMatchesUnlessLate'
  <2>1. \A p, o \in published :
          /\ ~p.late => row'[p.run] = p.decision
          /\ p.run = o.run /\ ~p.late /\ ~o.late => p = o
    BY <1>1, <1>3 DEF AnnouncedMatchesUnlessLate, ApprovalsTypeOK
  <2>2. ASSUME NEW k \in Queued, row'[k] \in QueueDecision
        PROVE  \/ \E p \in published : p.run = k /\ p.decision = row'[k] /\ ~p.late
               \/ \E s \in Requests :
                    /\ request'[s].run = k
                    /\ request'[s].decision = row'[k]
                    /\ request'[s].at \in {"won", "failed"}
    <3>1. CASE k = r /\ row[r] = "pending"
      BY <1>1, <3>1
    <3>2. CASE ~(k = r /\ row[r] = "pending")
      <4>1. row'[k] = row[k]
        BY <1>1, <3>2
      <4>2. QED
        BY <1>1, <2>2, <4>1 DEF AnnouncedMatchesUnlessLate
    <3>3. QED
      BY <3>1, <3>2
  <2>3. QED
    BY <1>1, <2>1, <2>2 DEF AnnouncedMatchesUnlessLate
<1>7. QED
  BY <1>2, <1>4, <1>5, <1>6

(* The decision goes out, or does not: a winner is followed by its event,  *)
(* or by the failure to publish it.                                        *)
LEMMA PublishPreserves ==
  ASSUME ApprovalsFit, ApprovalsInv, NEW q \in Requests, Publish(q) \/ PublishFails(q)
  PROVE  ApprovalsInv'
<1> USE DEF ApprovalsInv
<1> DEFINE e == [run |-> request[q].run, decision |-> request[q].decision, by |-> q,
                 late |-> request[q].at = "late"]
           after == IF Publish(q) THEN "answered" ELSE "failed"
<1>1. /\ request[q].at \in {"won", "late"}
      /\ request[q].run \in Queued /\ request[q].decision \in QueueDecision
      /\ row' = row
      /\ request' = [request EXCEPT ![q].at = after]
      /\ published' = IF Publish(q) THEN published \cup {e} ELSE published
  BY DEF Publish, PublishFails, DecidedByWinners
<1>2. /\ request'[q].run = request[q].run /\ request'[q].decision = request[q].decision
      /\ request'[q].at = after
      /\ \A s \in Requests : s # q => request'[s] = request[s]
  BY <1>1 DEF ApprovalsTypeOK
<1>3. after \in {"answered", "failed"}
  OBVIOUS
<1>4. ApprovalsTypeOK'
  <2>1. e \in [run: Queued, decision: QueueDecision, by: Requests, late: BOOLEAN]
    BY <1>1
  <2>2. published' \subseteq published \cup {e}
    BY <1>1
  <2>3. request' \in [Requests -> [run: Queued \cup {None}, decision: QueueDecision \cup {"none"},
                                    at: {"unsent", "won", "late", "answered", "failed"}]]
    <3> HIDE DEF after, e
    <3> QED
      BY <1>1, <1>3 DEF ApprovalsTypeOK
  <2>4. row' \in [Queued -> QueueDecision \cup {"absent", "pending"}]
    BY <1>1 DEF ApprovalsTypeOK
  <2>5. published' \subseteq [run: Queued, decision: QueueDecision, by: Requests, late: BOOLEAN]
    <3> HIDE DEF after, e
    <3> QED
      BY <2>1, <2>2 DEF ApprovalsTypeOK
  <2>6. QED
    BY <2>3, <2>4, <2>5 DEF ApprovalsTypeOK
<1>5. \A p \in published : p.by # q
  BY <1>1 DEF DecidedByWinners
<1>6. DecidedByWinners'
  <2>1. \A p \in published' : request'[p.by].at = "answered"
    BY <1>1, <1>2, <1>5 DEF DecidedByWinners, ApprovalsTypeOK
  <2>2. \A s \in Requests :
          /\ request'[s].at # "unsent" =>
               request'[s].run \in Queued /\ request'[s].decision \in QueueDecision
          /\ request'[s].at = "won" => row'[request'[s].run] = request'[s].decision
    BY <1>1, <1>2, <1>3 DEF DecidedByWinners
  <2>3. QED
    BY <2>1, <2>2 DEF DecidedByWinners
<1>7. OneWinnerPerRun'
  <2>1. \A s \in Requests : request'[s].at = "won" =>
          s # q /\ request[s].at = "won" /\ request'[s].run = request[s].run
    BY <1>2, <1>3
  <2>2. ASSUME NEW p \in published', NEW s \in Requests, ~p.late, request'[s].at = "won"
        PROVE  p.run # request'[s].run
    <3>1. CASE p \in published
      BY <2>1, <2>2, <3>1 DEF OneWinnerPerRun
    <3>2. CASE p = e
      BY <1>1, <2>1, <2>2, <3>2 DEF OneWinnerPerRun
    <3>3. QED
      BY <1>1, <3>1, <3>2
  <2>3. QED
    BY <2>1, <2>2 DEF OneWinnerPerRun
<1>8. AnnouncedMatchesUnlessLate'
  <2>1. ~e.late => request[q].at = "won" /\ row[e.run] = e.decision
    BY <1>1 DEF DecidedByWinners
  <2>2. \A p, o \in published' :
          /\ ~p.late => row[p.run] = p.decision
          /\ p.run = o.run /\ ~p.late /\ ~o.late => p = o
    BY <1>1, <2>1 DEF AnnouncedMatchesUnlessLate, OneWinnerPerRun
  <2>3. ASSUME NEW k \in Queued, row[k] \in QueueDecision
        PROVE  \/ \E p \in published' : p.run = k /\ p.decision = row[k] /\ ~p.late
               \/ \E s \in Requests :
                    /\ request'[s].run = k
                    /\ request'[s].decision = row[k]
                    /\ request'[s].at \in {"won", "failed"}
    <3>1. CASE \E p \in published : p.run = k /\ p.decision = row[k] /\ ~p.late
      BY <1>1, <3>1
    <3>2. CASE \E s \in Requests :
                 /\ request[s].run = k
                 /\ request[s].decision = row[k]
                 /\ request[s].at \in {"won", "failed"}
      <4>1. PICK s \in Requests :
              /\ request[s].run = k
              /\ request[s].decision = row[k]
              /\ request[s].at \in {"won", "failed"}
        BY <3>2
      <4>2. CASE s # q
        BY <1>2, <4>1, <4>2
      <4>3. CASE s = q /\ Publish(q)
        <5>1. e \in published' /\ ~e.late
          BY <1>1, <4>1, <4>3
        <5>2. QED
          BY <4>1, <4>3, <5>1
      <4>4. CASE s = q /\ ~Publish(q)
        BY <1>2, <4>1, <4>4
      <4>5. QED
        BY <4>2, <4>3, <4>4
    <3>3. QED
      BY <2>3, <3>1, <3>2 DEF AnnouncedMatchesUnlessLate
  <2>4. QED
    BY <1>1, <2>2, <2>3 DEF AnnouncedMatchesUnlessLate
<1>9. QED
  BY <1>4, <1>6, <1>7, <1>8

(* The strengthening is an invariant of the approval queue.                *)
LEMMA ApprovalsInvariance ==
  ASSUME ApprovalsFit
  PROVE  ApprovalsSpec => []ApprovalsInv
<1>1. ApprovalsInit => ApprovalsInv
  BY ApprovalsStart
<1>2. ApprovalsInv /\ [ApprovalsNext]_ApprovalsVars => ApprovalsInv'
  <2> SUFFICES ASSUME ApprovalsInv, [ApprovalsNext]_ApprovalsVars
               PROVE  ApprovalsInv'
    OBVIOUS
  <2>1. CASE UNCHANGED ApprovalsVars
    BY <2>1 DEF ApprovalsVars, ApprovalsInv, ApprovalsTypeOK, DecidedByWinners, OneWinnerPerRun,
                AnnouncedMatchesUnlessLate
  <2>2. CASE ApprovalsNext
    BY <2>2, InsertPreserves, DecidePreserves, PublishPreserves DEF ApprovalsNext
  <2>3. QED
    BY <2>1, <2>2
<1>3. QED
  BY <1>1, <1>2, PTL DEF ApprovalsSpec

(* Rows, requests and events keep to their types.                          *)
THEOREM ApprovalsTypes ==
  ASSUME ApprovalsFit
  PROVE  ApprovalsSpec => []ApprovalsTypeOK
<1>1. ApprovalsInv => ApprovalsTypeOK
  BY DEF ApprovalsInv
<1>2. QED
  BY ApprovalsInvariance, <1>1, PTL

(* Of all requests about a run one decides the row; what it publishes is   *)
(* what the row says, and if it publishes nothing the row still stands.    *)
(* Only requests that found no pending row announce anything else.         *)
THEOREM AnnouncedIsOnRecord ==
  ASSUME ApprovalsFit
  PROVE  ApprovalsSpec => []AnnouncedMatchesUnlessLate
<1>1. ApprovalsInv => AnnouncedMatchesUnlessLate
  BY DEF ApprovalsInv
<1>2. QED
  BY ApprovalsInvariance, <1>1, PTL
=============================================================================
