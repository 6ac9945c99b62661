--------------------------- MODULE WatchPollProofs ---------------------------
(***************************************************************************)
(* Proofs about the watch, for any number of configurations, editais and   *)
(* pollers and any lookback: the type invariant, one analysis per edital,  *)
(* and that the windows of the searches leave no gap.                      *)
(***************************************************************************)
EXTENDS WatchPoll, SequenceTheorems, TLAPS

(* Nothing carries a date that has not come.                               *)
Past ==
  /\ \A e \in Editals : published[e] # None => published[e] <= today
  /\ \A c \in Configs : polled[c] # None => polled[c] <= today

(* A search under way reaches back to its configuration's last poll, and   *)
(* has to find whatever its window held before the day it was asked on.    *)
Thorough(search) ==
  /\ search.since <= search.asked
  /\ search.asked <= today
  /\ polled[Head(search.todo)] # None => search.since <= polled[Head(search.todo)]
  /\ \A e \in Editals :
       /\ published[e] # None
       /\ search.since <= published[e]
       /\ published[e] <= search.until
       /\ published[e] < search.asked
       => e \in search.hits

SearchesAreThorough ==
  \A p \in Pollers : poller[p].todo # <<>> => Thorough(poller[p])

CyclesStartedBefore == \A p \in Pollers : poller[p].todo # <<>> => poller[p].until <= today

IInv ==
  /\ TypeOK
  /\ Past
  /\ SearchesAreThorough
  /\ CyclesStartedBefore
  /\ OneRunPerEdital
  /\ NothingSkipped

Search == [todo: Seq(made), until: Day, since: Int, asked: Day, hits: SUBSET Editals]
-----------------------------------------------------------------------------
(* A day is a number, and None is neither a day nor a configuration.       *)
LEMMA Days ==
  /\ Day \subseteq Nat
  /\ None \notin Day
  /\ None \notin Configs
  BY ConstantsFit DEF Day

(* The search a cycle sends next is well typed and thorough.               *)
LEMMA NextSearch ==
  ASSUME TypeOK, Past,
         NEW todo \in Seq(made), NEW until \in Day, until <= today,
         NEW at \in [Configs -> Day \cup {None}],
         \A c \in Configs : at[c] # None => at[c] <= today
  PROVE  LET search == Searching(todo, until, at)
         IN /\ search \in Search
            /\ search.todo = todo
            /\ todo # <<>> =>
                 /\ search.until = until
                 /\ search.since <= search.asked
                 /\ search.asked = today
                 /\ at[Head(todo)] # None => search.since <= at[Head(todo)]
                 /\ search.hits = InWindow(search.since, search.until)
<1>1. CASE todo = <<>>
  <2>1. /\ 0 \in Day
        /\ 0 \in Int
    BY ConstantsFit DEF Day
  <2>2. QED
    BY <1>1, <2>1 DEF Searching, Idle, Search
<1>2. CASE todo # <<>>
  <2> DEFINE since == Since(Head(todo), until, at)
  <2>1. Head(todo) \in Configs
    BY <1>2, HeadTailProperties DEF TypeOK
  <2>2. /\ since \in Int
        /\ since <= today
        /\ at[Head(todo)] # None => since <= at[Head(todo)]
    <3>1. /\ today \in Nat /\ until \in Nat
          /\ at[Head(todo)] # None =>
               at[Head(todo)] \in Nat /\ at[Head(todo)] <= today
      BY <2>1, Days DEF TypeOK
    <3>2. CASE at[Head(todo)] = None
      <4>1. since = until - Lookback
        BY <3>2 DEF Since
      <4>2. QED
        BY <3>1, <3>2, <4>1, ConstantsFit
    <3>3. CASE at[Head(todo)] # None
      <4>1. since = at[Head(todo)]
        BY <3>3 DEF Since
      <4>2. QED
        BY <3>1, <3>3, <4>1
    <3>4. QED
      BY <3>2, <3>3
  <2>3. InWindow(since, until) \in SUBSET Editals
    BY DEF InWindow
  <2>4. Searching(todo, until, at) =
          [todo |-> todo, until |-> until, since |-> since, asked |-> today,
           hits |-> InWindow(since, until)]
    BY <1>2 DEF Searching
  <2> HIDE DEF since
  <2>5. QED
    BY <1>2, <2>2, <2>3, <2>4 DEF Search, TypeOK
<1>3. QED
  BY <1>1, <1>2
-----------------------------------------------------------------------------
(* Nothing is published, polled or searched at first.                     *)
LEMMA InitHolds == Init => IInv
<1> SUFFICES ASSUME Init PROVE IInv
  OBVIOUS
<1>1. /\ 0 \in Day
      /\ 0 \in Int
      /\ <<>> \in Seq(made)
  BY ConstantsFit DEF Day
<1>2. TypeOK
  BY <1>1 DEF Init, TypeOK, Idle
<1>3. /\ Past
      /\ SearchesAreThorough
      /\ CyclesStartedBefore
      /\ OneRunPerEdital
      /\ NothingSkipped
  BY DEF Init, Past, SearchesAreThorough, CyclesStartedBefore, Idle,
         OneRunPerEdital, NothingSkipped
<1>4. QED
  BY <1>2, <1>3 DEF IInv

(* A new day takes nothing back.                                           *)
LEMMA MidnightHolds == IInv /\ Midnight => IInv'
<1> SUFFICES ASSUME IInv, Midnight PROVE IInv'
  OBVIOUS
<1>1. /\ today \in Nat
      /\ today' = today + 1
      /\ today' \in Day
  BY Days, ConstantsFit DEF IInv, TypeOK, Midnight, Day
<1>2. TypeOK'
  BY <1>1 DEF IInv, TypeOK, Midnight
<1>3. Past'
  <2>1. ASSUME NEW d \in Day, d <= today PROVE d <= today'
    BY <1>1, <2>1, Days
  <2>2. QED
    BY <2>1 DEF IInv, TypeOK, Past, Midnight
<1>4. SearchesAreThorough' /\ CyclesStartedBefore'
  <2> SUFFICES ASSUME NEW p \in Pollers, poller[p].todo # <<>>
               PROVE  Thorough(poller[p])' /\ poller[p].until <= today'
    BY DEF SearchesAreThorough, CyclesStartedBefore, Midnight
  <2>1. /\ Thorough(poller[p])
        /\ poller[p].until <= today
        /\ poller[p].asked \in Nat
        /\ poller[p].until \in Nat
    BY Days DEF IInv, SearchesAreThorough, CyclesStartedBefore, TypeOK
  <2>2. poller[p].asked <= today' /\ poller[p].until <= today'
    BY <1>1, <2>1 DEF Thorough
  <2>3. QED
    BY <2>1, <2>2 DEF Thorough, Midnight
<1>5. OneRunPerEdital' /\ NothingSkipped'
  BY DEF IInv, OneRunPerEdital, NothingSkipped, Midnight
<1>6. QED
  BY <1>2, <1>3, <1>4, <1>5 DEF IInv

(* What is published today is after every poll, and before no search was   *)
(* asked that has to find it.                                              *)
LEMMA PublishHolds == ASSUME NEW x \in Editals PROVE IInv /\ Publish(x) => IInv'
<1> SUFFICES ASSUME IInv, Publish(x) PROVE IInv'
  OBVIOUS
<1>1. /\ today \in Day
      /\ today \in Nat
      /\ today # None
  BY Days DEF IInv, TypeOK
<1>2. \A e \in Editals : published'[e] = IF e = x THEN today ELSE published[e]
  BY DEF Publish, IInv, TypeOK
<1>3. TypeOK'
  BY <1>1 DEF IInv, TypeOK, Publish
<1>4. Past'
  BY <1>1, <1>2 DEF IInv, Past, Publish
<1>5. SearchesAreThorough' /\ CyclesStartedBefore'
  <2> SUFFICES ASSUME NEW p \in Pollers, poller[p].todo # <<>>
               PROVE  Thorough(poller[p])' /\ poller[p].until <= today
    BY DEF SearchesAreThorough, CyclesStartedBefore, Publish
  <2>1. /\ Thorough(poller[p])
        /\ poller[p].until <= today
        /\ poller[p].asked \in Nat
    BY Days DEF IInv, SearchesAreThorough, CyclesStartedBefore, TypeOK
  <2>2. ~(today < poller[p].asked)
    BY <1>1, <2>1 DEF Thorough
  <2>3. QED
    BY <1>2, <2>1, <2>2 DEF Thorough, Publish
<1>6. OneRunPerEdital'
  BY DEF IInv, OneRunPerEdital, Publish
<1>7. NothingSkipped'
  <2> SUFFICES ASSUME NEW c \in Configs, NEW e \in Matching[c],
                      published'[e] # None, polled[c] # None,
                      published'[e] < polled[c], published'[e] \notin lost[c]
               PROVE  watched[e] # None
    BY DEF NothingSkipped, Publish
  <2>1. /\ e \in Editals
        /\ polled[c] \in Nat
        /\ polled[c] <= today
    BY ConstantsFit, Days DEF IInv, TypeOK, Past
  <2>2. e # x
    BY <1>1, <1>2, <2>1
  <2>3. QED
    BY <1>2, <2>1, <2>2 DEF IInv, NothingSkipped
<1>8. QED
  BY <1>3, <1>4, <1>5, <1>6, <1>7 DEF IInv

(* Steps that only change which configurations there are.                  *)
LEMMA ConfigsHold ==
  ASSUME IInv, TypeOK',
         UNCHANGED <<today, published, polled, watched, runs, poller, lost>>
  PROVE  IInv'
  BY DEF IInv, Past, SearchesAreThorough, CyclesStartedBefore, Thorough,
         OneRunPerEdital, NothingSkipped

(* A configuration more, unpolled.                                        *)
LEMMA CreateConfigHolds ==
  ASSUME NEW c \in Configs PROVE IInv /\ CreateConfig(c) => IInv'
<1> SUFFICES ASSUME IInv, CreateConfig(c) PROVE IInv'
  OBVIOUS
<1>1. /\ made' = made \cup {c}
      /\ made' \subseteq Configs
  BY DEF IInv, TypeOK, CreateConfig
<1>2. /\ Seq(made) \subseteq Seq(made')
      /\ c \in made'
  BY <1>1
<1>3. Append(configs, c) \in Seq(made')
  <2>1. configs \in Seq(made')
    BY <1>2 DEF IInv, TypeOK
  <2>2. QED
    BY <1>2, <2>1, AppendProperties
<1>4. Search \subseteq Search'
  BY <1>2 DEF Search
<1>5. poller \in [Pollers -> Search']
  <2>1. poller \in [Pollers -> Search]
    BY DEF IInv, TypeOK, Search
  <2>2. QED
    BY <1>4, <2>1
<1>6. TypeOK'
  BY <1>1, <1>3, <1>5 DEF IInv, TypeOK, CreateConfig, Search
<1>7. QED
  BY <1>6, ConfigsHold DEF CreateConfig

(* A configuration less: the cycles that hold it go on with it.           *)
LEMMA DeleteConfigHolds ==
  ASSUME NEW c \in Configs PROVE IInv /\ DeleteConfig(c) => IInv'
<1> SUFFICES ASSUME IInv, DeleteConfig(c) PROVE IInv'
  OBVIOUS
<1>1. configs' \in Seq(made)
  <2>1. PICK i \in DOMAIN configs :
          configs' = SubSeq(configs, 1, i - 1) \o SubSeq(configs, i + 1, Len(configs))
    BY DEF DeleteConfig
  <2>2. /\ configs \in Seq(made)
        /\ i \in 1..Len(configs)
        /\ Len(configs) \in Nat
    BY <2>1, LenProperties DEF IInv, TypeOK
  <2>3. /\ SubSeq(configs, 1, i - 1) \in Seq(made)
        /\ SubSeq(configs, i + 1, Len(configs)) \in Seq(made)
    BY <2>2, SubSeqProperties
  <2>4. QED
    BY <2>1, <2>3, ConcatProperties
<1>2. TypeOK'
  BY <1>1 DEF IInv, TypeOK, DeleteConfig
<1>3. QED
  BY <1>2, ConfigsHold DEF DeleteConfig
-----------------------------------------------------------------------------
(* A cycle starts with the search for the first configuration.            *)
LEMMA BeginCycleHolds ==
  ASSUME NEW p \in Pollers PROVE IInv /\ BeginCycle(p) => IInv'
<1> SUFFICES ASSUME IInv, BeginCycle(p) PROVE IInv'
  OBVIOUS
<1> DEFINE search == Searching(configs, today, polled)
<1>1. /\ search \in Search
      /\ search.todo = configs
      /\ search.until = today
      /\ search.since <= search.asked
      /\ search.asked = today
      /\ polled[Head(configs)] # None => search.since <= polled[Head(configs)]
      /\ search.hits = InWindow(search.since, search.until)
  <2>1. /\ configs \in Seq(made) /\ configs # <<>>
        /\ today \in Day /\ today <= today
        /\ polled \in [Configs -> Day \cup {None}]
        /\ \A c \in Configs : polled[c] # None => polled[c] <= today
    BY Days DEF IInv, TypeOK, Past, BeginCycle
  <2>2. QED
    BY <2>1, NextSearch DEF IInv
<1>2. Thorough(search)
  <2>1. search.asked <= today /\ Head(search.todo) = Head(configs)
    BY <1>1, Days DEF IInv, TypeOK
  <2>2. QED
    BY <1>1, <2>1 DEF Thorough, InWindow
<1> HIDE DEF search
<1>3. \A q \in Pollers : poller'[q] = IF q = p THEN search ELSE poller[q]
  BY DEF BeginCycle, IInv, TypeOK, search
<1>4. /\ UNCHANGED <<today, published, made, configs, polled, watched, runs, lost>>
      /\ poller' = [poller EXCEPT ![p] = search]
  BY DEF BeginCycle, search
<1>5. TypeOK'
  <2>1. poller' \in [Pollers -> Search]
    BY <1>1, <1>4 DEF IInv, TypeOK, Search
  <2>2. QED
    BY <1>4, <2>1 DEF IInv, TypeOK, Search
<1>6. SearchesAreThorough'
  BY <1>2, <1>3, <1>4 DEF IInv, SearchesAreThorough, Thorough
<1>7. CyclesStartedBefore'
  BY <1>1, <1>3, <1>4, Days DEF IInv, TypeOK, CyclesStartedBefore
<1>8. Past' /\ OneRunPerEdital' /\ NothingSkipped'
  BY <1>4 DEF IInv, Past, OneRunPerEdital, NothingSkipped
<1>9. QED
  BY <1>5, <1>6, <1>7, <1>8 DEF IInv

(* The answer to a search: what it found is on record, its configuration   *)
(* is stamped with today, and the days it leaves behind are lost unless    *)
(* the search covers them.                                                 *)
LEMMA EndSearchHolds ==
  ASSUME NEW p \in Pollers, NEW found \in SUBSET Editals
  PROVE  IInv /\ EndSearch(p, found) => IInv'
<1> SUFFICES ASSUME IInv, EndSearch(p, found) PROVE IInv'
  OBVIOUS
<1> DEFINE search == poller[p]
           c      == Head(search.todo)
           new    == NewEditals(c, found)
           next   == Searching(Tail(search.todo), search.until, polled')
<1>1. /\ search \in Search
      /\ search.todo \in Seq(made)
      /\ search.todo # <<>>
      /\ c \in Configs
      /\ search.until \in Day
      /\ search.until <= today
      /\ search.until \in Nat
      /\ search.since \in Int
      /\ search.asked \in Nat
      /\ today \in Day
      /\ today \in Nat
      /\ Thorough(search)
  <2>1. /\ search \in Search
        /\ search.todo # <<>>
    BY DEF IInv, TypeOK, Search, EndSearch
  <2>2. /\ search.todo \in Seq(made)
        /\ search.until \in Day
        /\ search.since \in Int
        /\ search.asked \in Day
    BY <2>1 DEF Search
  <2>3. c \in made
    BY <2>1, <2>2, HeadTailProperties
  <2>4. Thorough(search) /\ search.until <= today
    BY <2>1 DEF IInv, SearchesAreThorough, CyclesStartedBefore
  <2>5. QED
    BY <2>1, <2>2, <2>3, <2>4, Days DEF IInv, TypeOK
<1>2. /\ UNCHANGED <<today, published, made, configs>>
      /\ watched' = [e \in Editals |-> IF e \in new THEN c ELSE watched[e]]
      /\ runs' = [e \in Editals |-> IF e \in new THEN runs[e] + 1 ELSE runs[e]]
      /\ UpdatePolledAt(c)
      /\ Audit(c, search, found)
      /\ poller' = [poller EXCEPT ![p] = next]
  BY DEF EndSearch
<1>3. \A k \in Configs :
        polled'[k] = IF k = c /\ Configured(c) THEN today ELSE polled[k]
  BY <1>1, <1>2 DEF UpdatePolledAt, IInv, TypeOK
<1>4. polled' \in [Configs -> Day \cup {None}]
  BY <1>1, <1>2 DEF UpdatePolledAt, IInv, TypeOK
<1>5. Past'
  BY <1>1, <1>2, <1>3 DEF IInv, Past
<1>6. /\ next \in Search
      /\ next.todo = Tail(search.todo)
      /\ next.todo # <<>> =>
           /\ next.until = search.until
           /\ next.since <= next.asked
           /\ next.asked = today
           /\ polled'[Head(next.todo)] # None =>
                next.since <= polled'[Head(next.todo)]
           /\ next.hits = InWindow(next.since, next.until)
  <2>1. Tail(search.todo) \in Seq(made)
    BY <1>1, HeadTailProperties
  <2>2. \A k \in Configs : polled'[k] # None => polled'[k] <= today
    BY <1>2, <1>5 DEF Past
  <2>3. TypeOK /\ Past
    BY DEF IInv
  <2> DEFINE todo  == Tail(search.todo)
             until == search.until
  <2>4. /\ todo \in Seq(made)
        /\ until \in Day
        /\ until <= today
        /\ next = Searching(todo, until, polled')
    BY <1>1, <2>1
  <2> HIDE DEF todo, until, next
  <2>5. /\ next \in Search
        /\ next.todo = todo
        /\ todo # <<>> =>
             /\ next.until = until
             /\ next.since <= next.asked
             /\ next.asked = today
             /\ polled'[Head(todo)] # None => next.since <= polled'[Head(todo)]
             /\ next.hits = InWindow(next.since, next.until)
    BY <1>4, <2>2, <2>3, <2>4, NextSearch
  <2>6. QED
    BY <2>5 DEF todo, until
<1>7. \A e \in Editals :
        /\ e \in new <=> e \in found /\ e \in Matching[c] /\ watched[e] = None
        /\ watched'[e] = IF e \in new THEN c ELSE watched[e]
        /\ runs'[e] = IF e \in new THEN runs[e] + 1 ELSE runs[e]
  BY <1>2 DEF NewEditals
<1>8. \A k \in Configs : lost'[k] =
        IF k = c /\ Configured(c)
        THEN (lost[c] \cup ((IF polled[c] = None THEN 0 ELSE search.since)..(today - 1)))
               \ {d \in search.since..search.until :
                    search.hits \subseteq found /\ d < search.asked}
        ELSE lost[k]
  BY <1>1, <1>2 DEF Audit, IInv, TypeOK
<1>9. \A q \in Pollers : poller'[q] = IF q = p THEN next ELSE poller[q]
  BY <1>2 DEF IInv, TypeOK
<1> HIDE DEF next, new
<1>10. TypeOK'
  <2>1. watched' \in [Editals -> Configs \cup {None}]
    BY <1>1, <1>2 DEF IInv, TypeOK
  <2>2. runs' \in [Editals -> Nat]
    BY <1>2 DEF IInv, TypeOK
  <2>3. poller' \in [Pollers -> Search]
    BY <1>2, <1>6 DEF IInv, TypeOK, Search
  <2>4. lost' \in [Configs -> SUBSET Int]
    <3>1. /\ 0 \in Int /\ search.since \in Int /\ today - 1 \in Int
      BY <1>1
    <3>2. (IF polled[c] = None THEN 0 ELSE search.since)..(today - 1) \subseteq Int
      BY <3>1
    <3>3. \A k \in Configs : lost[k] \subseteq Int
      BY DEF IInv, TypeOK
    <3>4. \A k \in Configs : lost'[k] \subseteq Int
      BY <1>1, <1>8, <3>2, <3>3
    <3>5. \E f : lost' = [lost EXCEPT ![c] = f] \/ lost' = lost
      BY <1>2 DEF Audit
    <3>6. lost' = [k \in Configs |-> lost'[k]]
      BY <3>5 DEF IInv, TypeOK
    <3>7. QED
      BY <3>4, <3>6
  <2>5. QED
    BY <1>2, <1>4, <2>1, <2>2, <2>3, <2>4 DEF IInv, TypeOK, Search
<1>11. SearchesAreThorough'
  <2> SUFFICES ASSUME NEW q \in Pollers, poller'[q].todo # <<>>
               PROVE  Thorough(poller[q])'
    BY DEF SearchesAreThorough
  <2>1. CASE q = p
    <3>1. poller'[q] = next /\ next.todo # <<>>
      BY <1>9, <2>1
    <3>2. next.asked <= today
      BY <1>1, <1>6, <3>1
    <3>3. QED
      BY <1>2, <1>6, <3>1, <3>2 DEF Thorough, InWindow
  <2>2. CASE q # p
    <3> DEFINE other == poller[q]
    <3>1. /\ poller'[q] = other
          /\ other.todo # <<>>
          /\ Thorough(other)
          /\ other.since \in Int
          /\ other.asked \in Nat
      BY <1>9, <2>2, Days DEF IInv, SearchesAreThorough, TypeOK
    <3>2. Head(other.todo) \in Configs
      BY <3>1, HeadTailProperties DEF IInv, TypeOK
    <3>3. other.since <= today
      BY <1>1, <3>1 DEF Thorough
    <3>4. polled'[Head(other.todo)] # None => other.since <= polled'[Head(other.todo)]
      BY <1>3, <3>1, <3>2, <3>3 DEF Thorough
    <3>5. QED
      BY <1>2, <3>1, <3>4 DEF Thorough
  <2>3. QED
    BY <2>1, <2>2
<1>12. CyclesStartedBefore'
  BY <1>1, <1>2, <1>6, <1>9 DEF IInv, CyclesStartedBefore
<1>13. OneRunPerEdital'
  <2> SUFFICES ASSUME NEW e \in Editals
               PROVE  runs'[e] = IF watched'[e] = None THEN 0 ELSE 1
    BY DEF OneRunPerEdital
  <2>1. runs[e] = IF watched[e] = None THEN 0 ELSE 1
    BY DEF IInv, OneRunPerEdital
  <2>2. c # None
    BY <1>1, Days
  <2>3. QED
    BY <1>7, <2>1, <2>2
<1>14. NothingSkipped'
  <2> SUFFICES ASSUME NEW k \in Configs, NEW e \in Matching[k],
                      published[e] # None, polled'[k] # None,
                      published[e] < polled'[k], published[e] \notin lost'[k]
               PROVE  watched'[e] # None
    BY <1>2 DEF NothingSkipped
  <2>1. /\ e \in Editals
        /\ published[e] \in Nat
        /\ c # None
    BY <1>1, ConstantsFit, Days DEF IInv, TypeOK
  <2>2. watched[e] # None => watched'[e] # None
    BY <1>7, <2>1
  <2>3. CASE k = c /\ Configured(c)
    <3> DEFINE d   == published[e]
               low == IF polled[c] = None THEN 0 ELSE search.since
    <3>1. polled'[c] = today
      BY <1>1, <1>3, <2>3
    <3>2. CASE d \in search.since..search.until /\ search.hits \subseteq found
                 /\ d < search.asked
      <4>1. e \in search.hits
        BY <1>1, <2>1, <3>2 DEF Thorough
      <4>2. QED
        BY <1>7, <2>1, <2>3, <3>2, <4>1
    <3>3. CASE d \notin lost[c] /\ d \notin low..(today - 1)
      <4>1. d <= today - 1
        BY <1>1, <2>1, <2>3, <3>1
      <4>2. low \in Int
        BY <1>1
      <4>3. d < low
        BY <1>1, <2>1, <3>3, <4>1, <4>2
      <4>4. polled[c] # None /\ d < search.since
        BY <2>1, <4>3
      <4>5. polled[c] \in Nat /\ search.since <= polled[c]
        BY <1>1, <4>4, Days DEF Thorough, IInv, TypeOK
      <4>6. d < polled[c]
        BY <1>1, <2>1, <4>4, <4>5
      <4>7. watched[e] # None
        BY <1>1, <2>3, <3>3, <4>4, <4>6 DEF IInv, NothingSkipped
      <4>8. QED
        BY <2>2, <4>7
    <3>4. QED
      BY <1>1, <1>8, <2>3, <3>2, <3>3
  <2>4. CASE ~(k = c /\ Configured(c))
    <3>1. polled'[k] = polled[k] /\ lost'[k] = lost[k]
      BY <1>3, <1>8, <2>4
    <3>2. QED
      BY <2>2, <3>1 DEF IInv, NothingSkipped
  <2>5. QED
    BY <2>3, <2>4
<1>15. QED
  BY <1>5, <1>10, <1>11, <1>12, <1>13, <1>14 DEF IInv
-----------------------------------------------------------------------------
(* The inductive invariant of the watch.                                   *)
THEOREM WatchInvariance == Spec => []IInv
<1>1. IInv /\ [Next]_vars => IInv'
  <2> SUFFICES ASSUME IInv, [Next]_vars PROVE IInv'
    OBVIOUS
  <2>1. CASE Midnight
    BY <2>1, MidnightHolds
  <2>2. ASSUME NEW e \in Editals, Publish(e) PROVE IInv'
    BY <2>2, PublishHolds
  <2>3. ASSUME NEW c \in Configs, CreateConfig(c) \/ DeleteConfig(c) PROVE IInv'
    BY <2>3, CreateConfigHolds, DeleteConfigHolds
  <2>4. ASSUME NEW p \in Pollers, BeginCycle(p) PROVE IInv'
    BY <2>4, BeginCycleHolds
  <2>5. ASSUME NEW p \in Pollers, NEW found \in SUBSET Editals, EndSearch(p, found)
        PROVE  IInv'
    BY <2>5, EndSearchHolds
  <2>6. CASE UNCHANGED vars
    BY <2>6 DEF vars, IInv, TypeOK, Past, SearchesAreThorough, CyclesStartedBefore,
                Thorough, OneRunPerEdital, NothingSkipped
  <2>7. QED
    BY <2>1, <2>2, <2>3, <2>4, <2>5, <2>6 DEF Next
<1>2. QED
  BY InitHolds, <1>1, PTL DEF Spec

(* No poll is stamped with a day to come, and cycles search for known      *)
(* configurations.                                                         *)
THEOREM WatchTypes == Spec => []TypeOK
BY WatchInvariance, PTL DEF IInv

(* However many cycles overlap, an edital is analysed once.                *)
THEOREM OneAnalysis == Spec => []OneRunPerEdital
BY WatchInvariance, PTL DEF IInv

(* However the polls interleave with each other, with the calendar and     *)
(* with the operators, only a search that was incomplete or not done in    *)
(* its day leaves a day behind.                                            *)
THEOREM NoDaySkipped == Spec => []NothingSkipped
BY WatchInvariance, PTL DEF IInv
=============================================================================
