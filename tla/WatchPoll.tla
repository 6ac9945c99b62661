------------------------------ MODULE WatchPoll ------------------------------
(***************************************************************************)
(* The PNCP watch: configurations kept in a WatchStore, and poll cycles    *)
(* (the background loop and POST /watch/poll, possibly at the same time)   *)
(* that search the portal for every configuration and start one analysis   *)
(* for each new matching edital.                                           *)
(*                                                                         *)
(* The only suspension of a cycle is the search itself.  Everything after  *)
(* the answer (is_seen, the run, record, update_polled_at) awaits locks    *)
(* nobody holds and therefore is one action, up to the next search.        *)
(* Time is the calendar day the code reads from date.today() and utcnow(). *)
(***************************************************************************)
EXTENDS Integers, Sequences

CONSTANTS
  Configs,   \* ids of the configurations that will be created
  Editals,   \* numeroControlePNCP of what the portal will publish
  Matching,  \* for each configuration, the editals its keywords match
  Pollers,   \* the loop and the manual polls
  Loop,      \* watch_poll_loop among them
  Lookback,  \* WATCH_INITIAL_LOOKBACK_DAYS
  MaxDay,    \* bound: the last day of the model
  None

ASSUME ConstantsFit ==
  /\ Matching \in [Configs -> SUBSET Editals]
  /\ Loop \in Pollers
  /\ Lookback \in Nat
  /\ MaxDay \in Nat
  /\ None \notin Int \cup Configs

Day == 0..MaxDay

VARIABLES
  today,
  published, \* the day the portal published each edital
  made,      \* the ids given to configurations so far
  configs,   \* the configurations in the store, in order of creation
  polled,    \* last_polled_at of each configuration
  watched,   \* the configuration each edital in _watched is recorded for
  runs,      \* how many analyses were started for each edital
  poller,    \* each poll cycle under way
  lost       \* history: the days each configuration's searches left behind

vars == <<today, published, made, configs, polled, watched, runs, poller, lost>>

(* The configurations still to poll, the first of them being searched; the *)
(* cycle's date; the window's start, the day the search was sent on and    *)
(* what it had to find.                                                    *)
Idle == [todo |-> <<>>, until |-> 0, since |-> 0, asked |-> 0, hits |-> {}]

Init ==
  /\ today = 0
  /\ published = [e \in Editals |-> None]
  /\ made = {}
  /\ configs = <<>>
  /\ polled = [c \in Configs |-> None]
  /\ watched = [e \in Editals |-> None]
  /\ runs = [e \in Editals |-> 0]
  /\ poller = [p \in Pollers |-> Idle]
  /\ lost = [c \in Configs |-> {}]
-----------------------------------------------------------------------------
Midnight ==
  /\ today < MaxDay
  /\ today' = today + 1
  /\ UNCHANGED <<published, made, configs, polled, watched, runs, poller, lost>>

Publish(e) ==
  /\ published[e] = None
  /\ published' = [published EXCEPT ![e] = today]
  /\ UNCHANGED <<today, made, configs, polled, watched, runs, poller, lost>>

CreateConfig(c) ==
  /\ c \notin made
  /\ made' = made \cup {c}
  /\ configs' = Append(configs, c)
  /\ UNCHANGED <<today, published, polled, watched, runs, poller, lost>>

Configured(c) == \E i \in DOMAIN configs : configs[i] = c

(* A cycle that has listed the configuration still holds the object.       *)
DeleteConfig(c) ==
  /\ \E i \in DOMAIN configs :
       /\ configs[i] = c
       /\ configs' = SubSeq(configs, 1, i - 1) \o SubSeq(configs, i + 1, Len(configs))
  /\ UNCHANGED <<today, published, made, polled, watched, runs, poller, lost>>
-----------------------------------------------------------------------------
(* Fault: the day of the last poll is taken to be done. *)
SinceNextDay(c, until, polledAt) ==
  IF polledAt[c] = None THEN until - Lookback ELSE polledAt[c] + 1

Since(c, until, polledAt) ==
  IF polledAt[c] = None THEN until - Lookback ELSE polledAt[c]

InWindow(since, until) ==
  {e \in Editals : published[e] # None /\ since <= published[e] /\ published[e] <= until}

(* The search for the first of todo, from the day of its last poll to the  *)
(* day the cycle started on.                                               *)
Searching(todo, until, polledAt) ==
  IF todo = <<>> THEN Idle
  ELSE LET since == Since(Head(todo), until, polledAt)
       IN [todo |-> todo, until |-> until, since |-> since, asked |-> today,
           hits |-> InWindow(since, until)]

BeginCycle(p) ==
  /\ poller[p].todo = <<>>
  /\ configs # <<>>
  /\ poller' = [poller EXCEPT ![p] = Searching(configs, today, polled)]
  /\ UNCHANGED <<today, published, made, configs, polled, watched, runs, lost>>

(* Fault: nobody asks whether the edital has been seen. *)
NewEditalsUnseen(c, found) == found \cap Matching[c]

NewEditals(c, found) == {e \in found \cap Matching[c] : watched[e] = None}

(* Fault: the day of the poll is the server's, three hours ahead. *)
UpdatePolledAtAhead(c) ==
  polled' = IF Configured(c) THEN [polled EXCEPT ![c] = today + 1] ELSE polled

(* Fault: a configuration deleted meanwhile raises and ends the loop. *)
UpdatePolledAtRaises(c) ==
  /\ Configured(c)
  /\ polled' = [polled EXCEPT ![c] = today]

UpdatePolledAt(c) ==
  polled' = IF Configured(c) THEN [polled EXCEPT ![c] = today] ELSE polled

(* The answer cannot have missed anything that was published before the    *)
(* day it was asked on, if it is complete.  The days a configuration       *)
(* leaves behind without (and those before its first window) are lost,     *)
(* until a later search covers them.                                       *)
Audit(c, search, found) ==
  LET covered == {d \in search.since..search.until :
                    search.hits \subseteq found /\ d < search.asked}
      passed  == (IF polled[c] = None THEN 0 ELSE search.since)..(today - 1)
  IN lost' = IF Configured(c)
             THEN [lost EXCEPT ![c] = (@ \cup passed) \ covered] ELSE lost

(* The answer: any part of what matches the window, as failing pages and   *)
(* modalities are left out, or nothing when the search raises.  A run for  *)
(* each new edital, the poll recorded in every case, the next search sent. *)
EndSearch(p, found) ==
  LET search == poller[p]
      c      == Head(search.todo)
      new    == NewEditals(c, found)
  IN /\ search.todo # <<>>
     /\ found \subseteq InWindow(search.since, search.until)
     /\ watched' = [e \in Editals |-> IF e \in new THEN c ELSE watched[e]]
     /\ runs' = [e \in Editals |-> IF e \in new THEN runs[e] + 1 ELSE runs[e]]
     /\ UpdatePolledAt(c)
     /\ Audit(c, search, found)
     /\ poller' = [poller EXCEPT ![p] =
          Searching(Tail(search.todo), search.until, polled')]
     /\ UNCHANGED <<today, published, made, configs>>

Next ==
  \/ Midnight
  \/ \E e \in Editals : Publish(e)
  \/ \E c \in Configs : CreateConfig(c) \/ DeleteConfig(c)
  \/ \E p \in Pollers :
       BeginCycle(p) \/ \E found \in SUBSET Editals : EndSearch(p, found)

Spec == Init /\ [][Next]_vars

(* What the loop's searches for a configuration do when the portal works.  *)
CompleteSearch(c) ==
  /\ poller[Loop].todo # <<>>
  /\ Head(poller[Loop].todo) = c
  /\ \E found \in SUBSET Editals :
       poller[Loop].hits \subseteq found /\ EndSearch(Loop, found)

(* The loop sleeps and polls again for as long as the process lives.  A    *)
(* search ends, by its answer or by the client's timeouts, and of the      *)
(* portal it is assumed that it does not fail one configuration for ever:  *)
(* both are in the strong fairness, since a search of the loop's that did  *)
(* not end could be completed all the time.                                *)
FairSpec ==
  /\ Spec
  /\ WF_vars(BeginCycle(Loop))
  /\ \A c \in Configs : SF_vars(CompleteSearch(c))
-----------------------------------------------------------------------------
(* No poll is recorded for a day that has not come, and a cycle only       *)
(* searches for configurations that were created.                          *)
TypeOK ==
  /\ today \in Day
  /\ published \in [Editals -> Day \cup {None}]
  /\ made \subseteq Configs
  /\ configs \in Seq(made)
  /\ polled \in [Configs -> Day \cup {None}]
  /\ watched \in [Editals -> Configs \cup {None}]
  /\ runs \in [Editals -> Nat]
  /\ poller \in [Pollers -> [todo: Seq(made), until: Day, since: Int, asked: Day,
                             hits: SUBSET Editals]]
  /\ lost \in [Configs -> SUBSET Int]

(* One analysis per edital, over cycles that run side by side, windows     *)
(* that overlap and configurations that match the same edital; and each    *)
(* analysis is on record, so the next cycle will know of it.               *)
OneRunPerEdital ==
  \A e \in Editals : runs[e] = IF watched[e] = None THEN 0 ELSE 1

(* The windows leave no gap: whatever was published before the day of a    *)
(* configuration's last poll has been analysed, except on the days before  *)
(* its first window and those that a failed or partial search, or one that *)
(* was under way at midnight, has left behind.                             *)
NothingSkipped ==
  \A c \in Configs : \A e \in Matching[c] :
    /\ published[e] # None
    /\ polled[c] # None
    /\ published[e] < polled[c]
    /\ published[e] \notin lost[c]
    => watched[e] # None

(* An edital that comes out on or after the day of a configuration's last  *)
(* poll is analysed in the end, whatever happens to the searches of other  *)
(* configurations, unless the configuration goes or its own search fails   *)
(* or meets midnight.                                                      *)
NewEditalIsAnalysed ==
  \A c \in Configs : \A e \in Matching[c] :
    /\ Configured(c)
    /\ polled[c] # None
    /\ published[e] # None
    /\ polled[c] <= published[e]
    ~> \/ watched[e] # None
       \/ ~Configured(c)
       \/ published[e] \in lost[c]
=============================================================================
