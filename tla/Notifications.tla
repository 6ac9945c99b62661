---------------------------- MODULE Notifications ----------------------------
(***************************************************************************)
(* The notification dispatcher: an alert goes out over every channel its   *)
(* tenant has enabled, unless its type is switched off, it is night and    *)
(* the alert is not critical, or the same alert went out less than four    *)
(* hours ago.  Dispatches run side by side and suspend in every send; the  *)
(* decision to send and the entry in _last_sent are one step.              *)
(***************************************************************************)
EXTENDS Absent, Integers, Sequences

CONSTANTS
  Dispatches, \* the calls of dispatch()
  Keys,       \* (tenant, entity, type) of an alert
  Hours       \* bound: the hours at which something happens

(* _DEDUP_WINDOW, and the preferences' default hours. *)
Window == 4
Inicio == 7
Fim == 22

(* What Services assumes of these constants. *)
NotificationsFit == Hours \subseteq Nat /\ Hours # {} /\ None \notin Nat \cup Keys

Channel == {"email", "whatsapp", "webhook"}

VARIABLES
  hour,     \* hours since the first midnight
  lastSent, \* _last_sent
  dispatch, \* each call: what is left to send, None before it is made
  sends     \* history: what was handed to a channel, by which call, decided when

NotificationsVars == <<hour, lastSent, dispatch, sends>>

Returned == [key |-> None, decided |-> None, todo |-> <<>>]

NotificationsInit ==
  /\ hour \in {h \in Hours : \A i \in Hours : h <= i}
  /\ lastSent = [k \in Keys |-> None]
  /\ dispatch = [d \in Dispatches |-> None]
  /\ sends = {}

HoursPass ==
  /\ hour' \in {h \in Hours : h > hour}
  /\ UNCHANGED <<lastSent, dispatch, sends>>
-----------------------------------------------------------------------------
(* An alert of a key nobody minds at night, or whose type is switched off, *)
(* is dropped before it counts as sent.                                    *)
WithinHours == Inicio <= hour % 24 /\ hour % 24 <= Fim

(* Fault: only what is still being sent counts as a duplicate. *)
IsDupInFlight(k) == \E d \in Dispatches : dispatch[d] # None /\ dispatch[d].key = k

IsDup(k) == lastSent[k] # None /\ hour - lastSent[k] < Window

Enabled(prefs) ==
  LET Only(ch) == IF ch \in prefs THEN <<ch>> ELSE <<>>
  IN Only("email") \o Only("whatsapp") \o Only("webhook")

(* The call and all it does before the first send. *)
Dispatch(d, k, critical, typeEnabled, prefs) ==
  /\ dispatch[d] = None
  /\ IF typeEnabled /\ (critical \/ WithinHours) /\ ~IsDup(k)
     THEN /\ lastSent' = [lastSent EXCEPT ![k] = hour]
          /\ dispatch' = [dispatch EXCEPT ![d] = 
             [key |-> k, decided |-> hour, todo |-> Enabled(prefs)]]
     ELSE /\ dispatch' = [dispatch EXCEPT ![d] = Returned]
          /\ UNCHANGED lastSent
  /\ UNCHANGED <<hour, sends>>

(* One channel has been tried: sent, not sent, or the sender raised, which *)
(* ends the call for the remaining channels too.  The webhook catches what *)
(* its client raises.                                                      *)
Send(d, outcome) ==
  LET call == dispatch[d]
  IN /\ call # None
     /\ call.todo # <<>>
     /\ outcome = "raised" => Head(call.todo) # "webhook"
     /\ sends' = sends \cup
          {[key |-> call.key, channel |-> Head(call.todo), by |-> d, decided |-> call.decided]}
     /\ dispatch' = [dispatch EXCEPT ![d] =
          IF outcome = "raised" \/ Len(call.todo) = 1 THEN Returned
          ELSE [call EXCEPT !.todo = Tail(call.todo)]]
     /\ UNCHANGED <<hour, lastSent>>

NotificationsNext ==
  \/ HoursPass
  \/ \E d \in Dispatches :
       \/ \E k \in Keys, critical \in BOOLEAN, typeEnabled \in BOOLEAN :
            \E prefs \in SUBSET Channel :
              Dispatch(d, k, critical, typeEnabled, prefs)
       \/ \E outcome \in {"sent", "failed", "raised"} : Send(d, outcome)

NotificationsSpec == NotificationsInit /\ [][NotificationsNext]_NotificationsVars
-----------------------------------------------------------------------------
Call == [key: Keys \cup {None}, decided: Hours \cup {None}, todo: Seq(Channel)]
Sent == [key: Keys, channel: Channel, by: Dispatches, decided: Hours]

NotificationsTypeOK ==
  /\ hour \in Hours
  /\ lastSent \in [Keys -> Hours \cup {None}]
  /\ dispatch \in [Dispatches -> Call \cup {None}]
  /\ sends \subseteq Sent

(* However the calls interleave and however long their sends take, the     *)
(* same alert is handed to a channel by two calls only if they decided to  *)
(* send it four hours apart: critical ones, repeated ones and those whose  *)
(* first attempt failed included.                                          *)
OncePerWindow ==
  \A s, t \in sends :
    /\ s.key = t.key
    /\ s.channel = t.channel
    /\ s.by # t.by
    => s.decided - t.decided >= Window \/ t.decided - s.decided >= Window
=============================================================================
