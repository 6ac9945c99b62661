------------------------------- MODULE Portals -------------------------------
(***************************************************************************)
(* One round of the portal orchestrator: every adapter fetches at the same *)
(* time, they finish in any order or fail each for itself, and once all    *)
(* have finished their editais are merged in the order of the adapters,    *)
(* each edital (dedup_hash) once.                                          *)
(***************************************************************************)
EXTENDS Absent, Naturals, Sequences, FiniteSets

CONSTANTS
  Adapters, \* the adapters in the order they were given, a sequence
  Hashes,   \* dedup_hash of what the portals publish
  MaxFetch  \* bound: editais of one fetch

(* What Services assumes of these constants. *)
PortalsFit == Adapters \in Seq(STRING) /\ MaxFetch \in Nat

VARIABLES
  fetched, \* by position: the hashes delivered, "error", or None while it runs
  outcome  \* PortalRunResult, None before the merge

PortalsVars == <<fetched, outcome>>

PortalsInit ==
  /\ fetched = [i \in DOMAIN Adapters |-> None]
  /\ outcome = None

FetchOne(i, hashes) ==
  /\ fetched[i] = None
  /\ fetched' = [fetched EXCEPT ![i] = [status |-> "online", hashes |-> hashes]]
  /\ UNCHANGED outcome

(* The exception becomes the portal's health and an empty list. *)
FetchFails(i) ==
  /\ fetched[i] = None
  /\ fetched' = [fetched EXCEPT ![i] = [status |-> "error", hashes |-> <<>>]]
  /\ UNCHANGED outcome
-----------------------------------------------------------------------------
Item(h, i) == [hash |-> h, portal |-> i]

(* Fault: an edital already taken from the same portal is not looked for. *)
TakeTwice(out, item) ==
  IF \E k \in DOMAIN out.editais : /\ out.editais[k].hash = item.hash
                                   /\ out.editais[k].portal # item.portal
  THEN [out EXCEPT !.duplicados = Append(@, item)]
  ELSE [out EXCEPT !.editais = Append(@, item), !.seen = @ \cup {item.hash}]

Take(out, item) ==
  IF item.hash \in out.seen
  THEN [out EXCEPT !.duplicados = Append(@, item)]
  ELSE [out EXCEPT !.editais = Append(@, item), !.seen = @ \cup {item.hash}]

(* The editais of one adapter, in the order it delivered them. *)
TakeAll(out, i, hashes) ==
  LET taken[k \in 0..Len(hashes)] == IF k = 0 THEN out ELSE Take(taken[k - 1], Item(hashes[k], i))
  IN taken[Len(hashes)]

Empty == [editais |-> <<>>, duplicados |-> <<>>, seen |-> {}]

(* Adapter by adapter, in the order they were given. *)
Merged(results) ==
  LET merged[i \in 0..Len(Adapters)] ==
        IF i = 0 THEN Empty ELSE TakeAll(merged[i - 1], i, results[i].hashes)
  IN merged[Len(Adapters)]

Merge ==
  /\ outcome = None
  /\ \A i \in DOMAIN Adapters : fetched[i] # None
  /\ outcome' = Merged(fetched)
  /\ UNCHANGED fetched

PortalsNext ==
  \/ \E i \in DOMAIN Adapters :
       \/ \E n \in 0..MaxFetch : \E hashes \in [1..n -> Hashes] : FetchOne(i, hashes)
       \/ FetchFails(i)
  \/ Merge

PortalsSpec == PortalsInit /\ [][PortalsNext]_PortalsVars
-----------------------------------------------------------------------------
RawEdital == [hash: Hashes, portal: DOMAIN Adapters]
Fetch == [status: {"online", "error"}, hashes: UNION {[1..n -> Hashes] : n \in 0..MaxFetch}]
Outcome == [editais: Seq(RawEdital), duplicados: Seq(RawEdital), seen: SUBSET Hashes]

PortalsTypeOK ==
  /\ fetched \in [DOMAIN Adapters -> Fetch \cup {None}]
  /\ outcome \in Outcome \cup {None}

Times(list, item) == Cardinality({k \in DOMAIN list : list[k] = item})
Delivers(i, h) == \E k \in DOMAIN fetched[i].hashes : fetched[i].hashes[k] = h
DeliversFirst(i, h) == Delivers(i, h) /\ \A j \in 1..(i - 1) : ~Delivers(j, h)

(* Whatever order the portals answer in and whoever fails: each edital     *)
(* that was delivered is analysed once, as the first adapter in their      *)
(* given order that delivered it has it, and nothing else is; every other  *)
(* delivery is listed as a duplicate.                                      *)
FirstOccurrenceWins ==
  outcome # None =>
    \A i \in DOMAIN Adapters, h \in Hashes :
      LET kept == Times(outcome.editais, Item(h, i))
      IN /\ kept = IF DeliversFirst(i, h) THEN 1 ELSE 0
         /\ kept + Times(outcome.duplicados, Item(h, i))
              = Cardinality({k \in DOMAIN fetched[i].hashes : fetched[i].hashes[k] = h})
=============================================================================
