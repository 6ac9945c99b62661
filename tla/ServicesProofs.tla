---------------------------- MODULE ServicesProofs ----------------------------
(***************************************************************************)
(* Proofs about the services together.  The portals' merge, for adapters   *)
(* that deliver lists of any length: types, and that the first occurrence  *)
(* of every edital wins.  And what is proved of each service by itself,    *)
(* carried over to Services, the specification that the runs check.        *)
(***************************************************************************)
EXTENDS Services, UsageProofs, DeliveryProofs, FiguresProofs

(* The merge of the portals. *)

(* Induction over the steps of a loop.                                     *)
LEMMA LoopHolds ==
  ASSUME NEW M \in Nat, NEW Good, 0 \in Good, \A n \in 1..M : n - 1 \in Good => n \in Good
  PROVE  \A n \in 0..M : n \in Good
<1> DEFINE Bad == {n \in 0..M : n \notin Good}
<1>1. ASSUME Bad # {}
      PROVE  FALSE
  <2>1. Bad \subseteq Nat
    OBVIOUS
  <2>2. PICK n \in Bad : \A y \in Bad : n <= y
    <3> HIDE DEF Bad
    <3> QED
      BY <1>1, <2>1, Smallest
  <2>3. n \in 1..M /\ n - 1 \in 0..M /\ n - 1 \notin Bad
    BY <2>2
  <2>4. QED
    BY <2>2, <2>3
<1>2. QED
  BY <1>1

(* A run of a loop over 1..M, from base, each value computed from the one *)
(* before.                                                                 *)
IsRun(f, S, base, M, advance) ==
  f \in [0..M -> S] /\ f[0] = base /\ \A n \in 1..M : f[n] = advance[<<n, f[n - 1]>>]

HasRun(S, base, M, advance) == \E f : IsRun(f, S, base, M, advance)

(* Every such loop has a run.                                              *)
LEMMA LoopRuns ==
  ASSUME NEW S, NEW base \in S, NEW M \in Nat, NEW advance,
         \A n \in 1..M : \A x \in S : advance[<<n, x>>] \in S
  PROVE  HasRun(S, base, M, advance)
<1> DEFINE Goes(f, k) == IsRun(f, S, base, k, advance)
           Stuck == {k \in 0..M : ~\E f : Goes(f, k)}
<1>1. ASSUME Stuck # {}
      PROVE  FALSE
  <2>1. Stuck \subseteq Nat
    OBVIOUS
  <2>2. PICK k \in Stuck : \A y \in Stuck : k <= y
    <3> HIDE DEF Stuck
    <3> QED
      BY <1>1, <2>1, Smallest
  <2>3. CASE k = 0
    <3>1. Goes([n \in 0..0 |-> base], 0)
      BY DEF IsRun
    <3>2. QED
      BY <2>2, <2>3, <3>1
  <2>4. CASE k # 0
    <3>1. k \in 1..M /\ k - 1 \in Nat /\ k - 1 \in 0..M /\ k - 1 \notin Stuck
      BY <2>2, <2>4
    <3>2. PICK f : Goes(f, k - 1)
      BY <3>1
    <3>3. /\ f \in [0..(k - 1) -> S] /\ f[0] = base
          /\ \A n \in 1..(k - 1) : f[n] = advance[<<n, f[n - 1]>>]
          /\ f[k - 1] \in S
      BY <3>1, <3>2 DEF IsRun
    <3> DEFINE g == [n \in 0..k |-> IF n = k THEN advance[<<k, f[k - 1]>>] ELSE f[n]]
    <3>4. advance[<<k, f[k - 1]>>] \in S
      BY <3>1, <3>3
    <3>5. g \in [0..k -> S]
      BY <3>1, <3>3, <3>4
    <3>6. g[0] = base
      BY <3>1, <3>3
    <3>7. ASSUME NEW n \in 1..k
          PROVE  g[n] = advance[<<n, g[n - 1]>>]
      <4>1. CASE n = k
        <5>1. k \in 0..k /\ k - 1 \in 0..k /\ k - 1 # k
          BY <3>1
        <5>2. g[k] = advance[<<k, f[k - 1]>>] /\ g[k - 1] = f[k - 1]
          BY <5>1
        <5>3. QED
          BY <4>1, <5>2
      <4>2. CASE n # k
        <5>1. n \in 1..(k - 1) /\ n - 1 \in 0..(k - 1) /\ n - 1 # k
          BY <3>1, <4>2
        <5>2. g[n] = f[n] /\ g[n - 1] = f[n - 1]
          BY <3>1, <5>1
        <5>3. QED
          BY <3>3, <5>1, <5>2
      <4>3. QED
        BY <4>1, <4>2
    <3> HIDE DEF g
    <3>8. Goes(g, k)
      BY <3>5, <3>6, <3>7 DEF IsRun
    <3>9. QED
      BY <2>2, <3>8
  <2>5. QED
    BY <2>3, <2>4
<1>2. M \in 0..M /\ M \notin Stuck
  BY <1>1
<1>3. QED
  BY <1>2 DEF HasRun

(* How often an item stands in a list that grows.                          *)
LEMMA TimesGrow ==
  ASSUME NEW S, NEW list \in Seq(S), NEW x \in S, NEW y
  PROVE  /\ Times(list, y) \in Nat
         /\ Times(Append(list, x), y) = Times(list, y) + (IF x = y THEN 1 ELSE 0)
<1> DEFINE K == {k \in DOMAIN list : list[k] = y}
           n == Len(list)
<1>1. n \in Nat /\ DOMAIN list = 1..n /\ n + 1 \notin K
  OBVIOUS
<1>2. IsFiniteSet(K)
  <2>1. IsFiniteSet(1..n)
    BY <1>1, FS_Interval
  <2>2. K \in SUBSET (1..n)
    BY <1>1
  <2>3. QED
    BY <2>1, <2>2, FS_Subset
<1>3. {k \in DOMAIN Append(list, x) : Append(list, x)[k] = y} = IF x = y THEN K \cup {n + 1} ELSE K
  <2>1. DOMAIN Append(list, x) = 1..(n + 1)
    OBVIOUS
  <2>2. \A k \in 1..(n + 1) : Append(list, x)[k] = IF k = n + 1 THEN x ELSE list[k]
    OBVIOUS
  <2>3. QED
    BY <1>1, <2>1, <2>2
<1> HIDE DEF K, n
<1>4. Cardinality(K) \in Nat
  BY <1>2, FS_CardinalityType
<1>5. Cardinality(IF x = y THEN K \cup {n + 1} ELSE K) = Cardinality(K) + (IF x = y THEN 1 ELSE 0)
  <2>1. CASE x = y
    BY <1>1, <1>2, <2>1, FS_AddElement
  <2>2. CASE x # y
    BY <1>4, <2>2
  <2>3. QED
    BY <2>1, <2>2
<1>6. QED
  BY <1>3, <1>4, <1>5 DEF Times, K

(* What one more edital makes of an outcome.                               *)
LEMMA TakeIsOutcome ==
  ASSUME NEW out \in Outcome, NEW i \in DOMAIN Adapters, NEW h \in Hashes
  PROVE  Take(out, Item(h, i)) \in Outcome
<1>1. Item(h, i) \in RawEdital /\ Item(h, i).hash = h
  BY DEF Item, RawEdital
<1> DEFINE item == Item(h, i)
<1> HIDE DEF item
<1>2. item \in RawEdital /\ item.hash \in Hashes
  BY <1>1 DEF item
<1>3. Append(out.editais, item) \in Seq(RawEdital) /\ Append(out.duplicados, item) \in Seq(RawEdital)
  BY <1>2 DEF Outcome
<1>4. Take(out, item) \in Outcome
  BY <1>2, <1>3 DEF Take, Outcome
<1>5. QED
  BY <1>4 DEF item

(* The loop over the editais of one adapter.                               *)
LEMMA TakeAllRuns ==
  ASSUME NEW out \in Outcome, NEW i \in DOMAIN Adapters, NEW hashes \in Seq(Hashes)
  PROVE  \E f :
           /\ \A k \in 0..Len(hashes) : f[k] \in Outcome
           /\ f[0] = out
           /\ \A k \in 1..Len(hashes) : f[k] = Take(f[k - 1], Item(hashes[k], i))
           /\ TakeAll(out, i, hashes) = f[Len(hashes)]
<1> DEFINE L == Len(hashes)
           Recurs(f) == f = [k \in 0..L |-> IF k = 0 THEN out ELSE Take(f[k - 1], Item(hashes[k], i))]
           advance == [x \in (1..L) \X Outcome |-> Take(x[2], Item(hashes[x[1]], i))]
<1>1. L \in Nat /\ \A k \in 1..L : hashes[k] \in Hashes
  OBVIOUS
<1>2. \A n \in 1..L : \A x \in Outcome : advance[<<n, x>>] \in Outcome
  BY <1>1, TakeIsOutcome
<1>3. PICK f \in [0..L -> Outcome] : f[0] = out /\ \A n \in 1..L : f[n] = advance[<<n, f[n - 1]>>]
  <2>1. L \in Nat
    BY <1>1
  <2> HIDE DEF L, advance
  <2>2. HasRun(Outcome, out, L, advance)
    BY <1>2, <2>1, LoopRuns
  <2>3. QED
    BY <2>2 DEF HasRun, IsRun
<1>4. TakeAll(out, i, hashes) = (CHOOSE g : Recurs(g))[L]
  BY DEF TakeAll
<1> HIDE DEF L
<1>5. ASSUME NEW n \in 1..L
      PROVE  f[n] = Take(f[n - 1], Item(hashes[n], i))
  <2>1. f[n - 1] \in Outcome
    BY <1>1
  <2>2. QED
    BY <1>3, <2>1
<1>6. Recurs(f)
  <2>1. f = [k \in 0..L |-> f[k]]
    OBVIOUS
  <2>2. \A k \in 0..L : f[k] = IF k = 0 THEN out ELSE Take(f[k - 1], Item(hashes[k], i))
    BY <1>1, <1>3, <1>5
  <2>3. QED
    BY <2>1, <2>2
<1> DEFINE g == CHOOSE g : Recurs(g)
<1>7. Recurs(g)
  <2> HIDE DEF Recurs
  <2> QED
    BY <1>6
<1>8. g[0] = out /\ \A k \in 1..L : g[k] = Take(g[k - 1], Item(hashes[k], i))
  <2> HIDE DEF g
  <2> QED
    BY <1>1, <1>7
<1> HIDE DEF g
<1>9. \A k \in 0..L : g[k] \in Outcome
  <2> DEFINE Good == {k \in Nat : g[k] \in Outcome}
  <2>1. 0 \in Good
    BY <1>8
  <2>2. \A k \in 1..L : k - 1 \in Good => k \in Good
    BY <1>1, <1>8, TakeIsOutcome
  <2>3. \A k \in 0..L : k \in Good
    <3> HIDE DEF Good
    <3> QED
      BY <1>1, <2>1, <2>2, LoopHolds
  <2>4. QED
    BY <2>3
<1>10. QED
  BY <1>4, <1>8, <1>9 DEF g, L

(* What has been fetched when all have finished, and its lists.            *)
Fetched == [DOMAIN Adapters -> Fetch]

(* Once all have finished, each adapter has left a list of hashes.         *)
LEMMA FetchedLists ==
  ASSUME PortalsFit, NEW d \in Fetched, NEW p \in DOMAIN Adapters
  PROVE  /\ d[p].hashes \in Seq(Hashes)
         /\ DOMAIN d[p].hashes = 1..Len(d[p].hashes) /\ Len(d[p].hashes) \in Nat
<1>1. d[p] \in Fetch
  BY DEF Fetched
<1>2. PICK n \in 0..MaxFetch : d[p].hashes \in [1..n -> Hashes]
  BY <1>1 DEF Fetch
<1>3. n \in Nat
  BY DEF PortalsFit
<1>4. d[p].hashes \in Seq(Hashes)
  BY <1>2, <1>3
<1>5. QED
  BY <1>4

(* The loop over the adapters.                                             *)
LEMMA MergedRuns ==
  ASSUME PortalsFit, NEW d \in Fetched
  PROVE  \E f :
           /\ \A i \in 0..Len(Adapters) : f[i] \in Outcome
           /\ f[0] = Empty
           /\ \A i \in 1..Len(Adapters) : f[i] = TakeAll(f[i - 1], i, d[i].hashes)
           /\ Merged(d) = f[Len(Adapters)]
<1> DEFINE N == Len(Adapters)
           Recurs(f) == f = [i \in 0..N |-> IF i = 0 THEN Empty ELSE TakeAll(f[i - 1], i, d[i].hashes)]
           advance == [x \in (1..N) \X Outcome |-> TakeAll(x[2], x[1], d[x[1]].hashes)]
<1>1. N \in Nat /\ DOMAIN Adapters = 1..N
  BY DEF PortalsFit
<1>2. \A i \in 1..N : d[i].hashes \in Seq(Hashes)
  BY <1>1, FetchedLists
<1>3. ASSUME NEW i \in 1..N, NEW out \in Outcome
      PROVE  TakeAll(out, i, d[i].hashes) \in Outcome
  <2>1. i \in DOMAIN Adapters /\ d[i].hashes \in Seq(Hashes)
    BY <1>1, <1>2
  <2>2. Len(d[i].hashes) \in 0..Len(d[i].hashes)
    BY <2>1
  <2>3. QED
    BY <2>1, <2>2, TakeAllRuns
<1>4. Empty \in Outcome
  BY DEF Empty, Outcome
<1>5. \A n \in 1..N : \A x \in Outcome : advance[<<n, x>>] \in Outcome
  BY <1>3
<1>6. PICK f \in [0..N -> Outcome] : f[0] = Empty /\ \A n \in 1..N : f[n] = advance[<<n, f[n - 1]>>]
  <2>1. N \in Nat
    BY <1>1
  <2> HIDE DEF N, advance
  <2>2. HasRun(Outcome, Empty, N, advance)
    BY <1>4, <1>5, <2>1, LoopRuns
  <2>3. QED
    BY <2>2 DEF HasRun, IsRun
<1>7. Merged(d) = (CHOOSE g : Recurs(g))[N]
  BY DEF Merged
<1> HIDE DEF N
<1>8. ASSUME NEW n \in 1..N
      PROVE  f[n] = TakeAll(f[n - 1], n, d[n].hashes)
  <2>1. f[n - 1] \in Outcome
    BY <1>1
  <2>2. QED
    BY <1>6, <2>1
<1>9. Recurs(f)
  <2>1. f = [i \in 0..N |-> f[i]]
    OBVIOUS
  <2>2. \A i \in 0..N : f[i] = IF i = 0 THEN Empty ELSE TakeAll(f[i - 1], i, d[i].hashes)
    BY <1>1, <1>6, <1>8
  <2>3. QED
    BY <2>1, <2>2
<1> DEFINE g == CHOOSE g : Recurs(g)
<1>10. Recurs(g)
  <2> HIDE DEF Recurs
  <2> QED
    BY <1>9
<1>11. g[0] = Empty /\ \A i \in 1..N : g[i] = TakeAll(g[i - 1], i, d[i].hashes)
  <2> HIDE DEF g
  <2> QED
    BY <1>1, <1>10
<1> HIDE DEF g
<1>12. \A i \in 0..N : g[i] \in Outcome
  <2> DEFINE Good == {i \in Nat : g[i] \in Outcome}
  <2>1. 0 \in Good
    BY <1>4, <1>11
  <2>2. \A i \in 1..N : i - 1 \in Good => i \in Good
    BY <1>1, <1>3, <1>11
  <2>3. \A i \in 0..N : i \in Good
    <3> HIDE DEF Good
    <3> QED
      BY <1>1, <2>1, <2>2, LoopHolds
  <2>4. QED
    BY <2>3
<1>13. QED
  BY <1>7, <1>11, <1>12 DEF g, N
-----------------------------------------------------------------------------
(* The copies of an edital an adapter has delivered up to position k of    *)
(* adapter i's list, positions counted adapter by adapter.                 *)
Copies(d, i, k, p, h) ==
  {m \in DOMAIN d[p].hashes : d[p].hashes[m] = h /\ (p < i \/ (p = i /\ m <= k))}

KeptOf(d, i, k, p, h) ==
  Copies(d, i, k, p, h) # {} /\ \A q \in 1..(p - 1) : Copies(d, i, k, q, h) = {}

(* What the merge has made of what lies up to a position: each edital      *)
(* once, of the first adapter, and each of its copies somewhere.           *)
Sound(out, d, i, k) ==
  /\ \A h \in Hashes : h \in out.seen <=> \E p \in DOMAIN Adapters : Copies(d, i, k, p, h) # {}
  /\ \A p \in DOMAIN Adapters, h \in Hashes :
       /\ Times(out.editais, Item(h, p)) = IF KeptOf(d, i, k, p, h) THEN 1 ELSE 0
       /\ Times(out.editais, Item(h, p)) + Times(out.duplicados, Item(h, p))
            = Cardinality(Copies(d, i, k, p, h))

(* One more edital adds one copy, of its hash and its adapter.             *)
LEMMA OneMoreCopy ==
  ASSUME PortalsFit, NEW d \in Fetched, NEW i \in DOMAIN Adapters, NEW k \in 1..Len(d[i].hashes)
  PROVE  /\ \A p \in DOMAIN Adapters, h \in Hashes :
              /\ Copies(d, i, k, p, h) = Copies(d, i, k - 1, p, h)
                                           \cup (IF p = i /\ h = d[i].hashes[k] THEN {k} ELSE {})
              /\ Cardinality(Copies(d, i, k, p, h)) = Cardinality(Copies(d, i, k - 1, p, h))
                                           + (IF p = i /\ h = d[i].hashes[k] THEN 1 ELSE 0)
              /\ p > i => Copies(d, i, k - 1, p, h) = {}
         /\ d[i].hashes[k] \in Hashes
<1>1. Len(Adapters) \in Nat /\ DOMAIN Adapters = 1..Len(Adapters)
  BY DEF PortalsFit
<1>2. \A p \in DOMAIN Adapters :
        /\ d[p].hashes \in Seq(Hashes)
        /\ DOMAIN d[p].hashes = 1..Len(d[p].hashes) /\ Len(d[p].hashes) \in Nat
  BY FetchedLists
<1>3. d[i].hashes[k] \in Hashes /\ k \in DOMAIN d[i].hashes
  BY <1>2
<1>4. ASSUME NEW p \in DOMAIN Adapters, NEW h \in Hashes
      PROVE  /\ Copies(d, i, k, p, h) = Copies(d, i, k - 1, p, h)
                                          \cup (IF p = i /\ h = d[i].hashes[k] THEN {k} ELSE {})
             /\ Cardinality(Copies(d, i, k, p, h)) = Cardinality(Copies(d, i, k - 1, p, h))
                                          + (IF p = i /\ h = d[i].hashes[k] THEN 1 ELSE 0)
             /\ p > i => Copies(d, i, k - 1, p, h) = {}
  <2>1. /\ p \in Nat /\ i \in Nat /\ k \in Nat
        /\ DOMAIN d[p].hashes = 1..Len(d[p].hashes) /\ Len(d[p].hashes) \in Nat
    BY <1>1, <1>2
  <2> DEFINE old == Copies(d, i, k - 1, p, h)
             new == Copies(d, i, k, p, h)
  <2>2. new = old \cup (IF p = i /\ h = d[i].hashes[k] THEN {k} ELSE {})
    BY <1>3, <2>1 DEF Copies
  <2>3. k \notin old \/ p # i
    BY <2>1 DEF Copies
  <2>4. IsFiniteSet(old)
    <3> DEFINE length == Len(d[p].hashes)
    <3>1. IsFiniteSet(1..length)
      <4>1. length \in Int
        BY <2>1
      <4> HIDE DEF length
      <4>2. QED
        BY <4>1, FS_Interval
    <3>2. old \in SUBSET (1..Len(d[p].hashes))
      BY <2>1 DEF Copies
    <3>3. QED
      BY <3>1, <3>2, FS_Subset
  <2>5. p > i => old = {}
    BY <2>1 DEF Copies
  <2> HIDE DEF old, new
  <2>6. Cardinality(old) \in Nat
    BY <2>4, FS_CardinalityType
  <2>7. Cardinality(new) = Cardinality(old) + (IF p = i /\ h = d[i].hashes[k] THEN 1 ELSE 0)
    <3>1. CASE p = i /\ h = d[i].hashes[k]
      <4>1. new = old \cup {k} /\ k \notin old
        BY <2>2, <2>3, <3>1
      <4>2. Cardinality(new) = Cardinality(old) + 1
        BY <2>4, <4>1, FS_AddElement
      <4>3. QED
        BY <3>1, <4>2
    <3>2. CASE ~(p = i /\ h = d[i].hashes[k])
      <4>1. new = old
        BY <2>2, <3>2
      <4>2. QED
        BY <2>6, <3>2, <4>1
    <3>3. QED
      BY <3>1, <3>2
  <2>8. QED
    BY <2>2, <2>5, <2>7, Zenon DEF old, new
<1>5. QED
  BY <1>3, <1>4

(* One more edital is taken, or listed as a duplicate.                     *)
LEMMA TakeIsSound ==
  ASSUME PortalsFit, NEW d \in Fetched, NEW i \in DOMAIN Adapters, NEW k \in 1..Len(d[i].hashes),
         NEW out \in Outcome, Sound(out, d, i, k - 1)
  PROVE  Sound(Take(out, Item(d[i].hashes[k], i)), d, i, k)
<1> DEFINE h0 == d[i].hashes[k]
           new == Take(out, Item(h0, i))
           Old(p, h) == Copies(d, i, k - 1, p, h)
           New(p, h) == Copies(d, i, k, p, h)
<1>1. Len(Adapters) \in Nat /\ DOMAIN Adapters = 1..Len(Adapters) /\ i \in Nat
  BY DEF PortalsFit
<1>2. h0 \in Hashes
  BY OneMoreCopy
<1>3. \A p \in DOMAIN Adapters, h \in Hashes :
        /\ New(p, h) = Old(p, h) \cup (IF p = i /\ h = h0 THEN {k} ELSE {})
        /\ Cardinality(New(p, h)) = Cardinality(Old(p, h)) + (IF p = i /\ h = h0 THEN 1 ELSE 0)
        /\ p > i => Old(p, h) = {}
  BY OneMoreCopy
<1>4. out.editais \in Seq(RawEdital) /\ out.duplicados \in Seq(RawEdital) /\ Item(h0, i) \in RawEdital
  BY <1>2 DEF Outcome, RawEdital, Item
<1>5. \A h \in Hashes : h \in out.seen <=> \E p \in DOMAIN Adapters : Old(p, h) # {}
  BY DEF Sound
<1>6. ASSUME NEW p \in DOMAIN Adapters, NEW h \in Hashes
      PROVE  /\ Times(out.editais, Item(h, p)) \in Nat
             /\ Times(out.duplicados, Item(h, p)) \in Nat
             /\ Times(Append(out.editais, Item(h0, i)), Item(h, p))
                  = Times(out.editais, Item(h, p)) + (IF p = i /\ h = h0 THEN 1 ELSE 0)
             /\ Times(Append(out.duplicados, Item(h0, i)), Item(h, p))
                  = Times(out.duplicados, Item(h, p)) + (IF p = i /\ h = h0 THEN 1 ELSE 0)
  <2>1. Item(h0, i) = Item(h, p) <=> p = i /\ h = h0
    BY DEF Item
  <2>2. QED
    BY <1>4, <2>1, TimesGrow
<1>7. ASSUME NEW p \in DOMAIN Adapters, NEW h \in Hashes
      PROVE  /\ Times(out.editais, Item(h, p))
                  = IF Old(p, h) # {} /\ \A q \in 1..(p - 1) : Old(q, h) = {} THEN 1 ELSE 0
             /\ Times(out.editais, Item(h, p)) + Times(out.duplicados, Item(h, p)) = Cardinality(Old(p, h))
  BY DEF Sound, KeptOf
<1>8. CASE h0 \in out.seen
  <2>1. new.editais = out.editais /\ new.seen = out.seen
        /\ new.duplicados = Append(out.duplicados, Item(h0, i))
    BY <1>8 DEF Take, Item, Outcome
  <2>2. PICK p0 \in DOMAIN Adapters : Old(p0, h0) # {}
    BY <1>2, <1>5, <1>8
  <2> HIDE DEF h0, new, Old, New
  <2>3. p0 <= i
    BY <1>1, <1>2, <1>3, <2>2
  <2>4. \A h \in Hashes : h \in new.seen <=> \E p \in DOMAIN Adapters : New(p, h) # {}
    BY <1>2, <1>3, <1>5, <2>1, <2>2
  <2>5. ASSUME NEW p \in DOMAIN Adapters, NEW h \in Hashes
        PROVE  /\ Times(new.editais, Item(h, p))
                    = IF New(p, h) # {} /\ \A q \in 1..(p - 1) : New(q, h) = {} THEN 1 ELSE 0
               /\ Times(new.editais, Item(h, p)) + Times(new.duplicados, Item(h, p)) = Cardinality(New(p, h))
    <3>1. Times(new.editais, Item(h, p)) = Times(out.editais, Item(h, p))
      BY <2>1
    <3>2. (New(p, h) # {} /\ \A q \in 1..(p - 1) : New(q, h) = {})
            <=> (Old(p, h) # {} /\ \A q \in 1..(p - 1) : Old(q, h) = {})
      <4>1. \A q \in 1..(p - 1) : q \in DOMAIN Adapters
        BY <1>1
      <4>2. CASE h # h0
        BY <1>3, <4>1, <4>2
      <4>3. CASE h = h0 /\ p < i
        BY <1>1, <1>3, <4>1, <4>3
      <4>4. CASE h = h0 /\ p > i
        BY <1>1, <1>3, <4>1, <4>4
      <4>5. CASE h = h0 /\ p = i
        <5>1. ASSUME NEW q \in 1..(p - 1)
              PROVE  New(q, h) = Old(q, h)
          <6>1. q # i /\ q \in DOMAIN Adapters
            BY <1>1, <4>1, <4>5
          <6>2. QED
            BY <1>3, <6>1
        <5>2. (\A q \in 1..(p - 1) : Old(q, h) = {}) => p0 = i
          BY <1>1, <2>2, <2>3, <4>5
        <5>3. New(p, h) # {}
          BY <1>3, <4>5
        <5>4. QED
          BY <2>2, <4>5, <5>1, <5>2, <5>3
      <4>6. p < i \/ p > i \/ p = i
        BY <1>1
      <4>7. QED
        BY <4>2, <4>3, <4>4, <4>5, <4>6, Zenon
    <3>3. Times(new.editais, Item(h, p)) + Times(new.duplicados, Item(h, p)) = Cardinality(New(p, h))
      BY <1>3, <1>6, <1>7, <2>1
    <3>4. QED
      BY <1>7, <3>1, <3>2, <3>3
  <2>6. QED
    BY <2>4, <2>5 DEF Sound, KeptOf, New, new, h0
<1>9. CASE h0 \notin out.seen
  <2>1. new.editais = Append(out.editais, Item(h0, i)) /\ new.seen = out.seen \cup {h0}
        /\ new.duplicados = out.duplicados
    BY <1>9 DEF Take, Item, Outcome
  <2>2. \A p \in DOMAIN Adapters : Old(p, h0) = {}
    BY <1>2, <1>5, <1>9
  <2> HIDE DEF h0, new, Old, New
  <2>3. ASSUME NEW h \in Hashes
        PROVE  h \in new.seen <=> \E p \in DOMAIN Adapters : New(p, h) # {}
    <3>1. CASE h = h0
      <4>1. h \in new.seen
        BY <2>1, <3>1
      <4>2. New(i, h) # {}
        BY <1>3, <3>1
      <4>3. QED
        BY <4>1, <4>2
    <3>2. CASE h # h0
      <4>1. \A p \in DOMAIN Adapters : New(p, h) = Old(p, h)
        BY <1>3, <3>2
      <4>2. h \in new.seen <=> h \in out.seen
        BY <2>1, <3>2
      <4>3. QED
        BY <1>5, <4>1, <4>2
    <3>3. QED
      BY <3>1, <3>2
  <2>4. ASSUME NEW p \in DOMAIN Adapters, NEW h \in Hashes
        PROVE  /\ Times(new.editais, Item(h, p))
                    = IF New(p, h) # {} /\ \A q \in 1..(p - 1) : New(q, h) = {} THEN 1 ELSE 0
               /\ Times(new.editais, Item(h, p)) + Times(new.duplicados, Item(h, p)) = Cardinality(New(p, h))
    <3>1. \A q \in 1..(p - 1) : q \in DOMAIN Adapters
      BY <1>1
    <3>2. CASE p = i /\ h = h0
      <4>1. New(p, h) # {} /\ \A q \in 1..(p - 1) : New(q, h) = {}
        <5>1. New(p, h) # {}
          BY <1>3, <3>2
        <5>2. ASSUME NEW q \in 1..(p - 1)
              PROVE  New(q, h) = {}
          <6>1. q # i /\ q \in DOMAIN Adapters
            BY <1>1, <3>1, <3>2
          <6>2. QED
            BY <1>3, <2>2, <3>2, <6>1
        <5>3. QED
          BY <5>1, <5>2
      <4>2. Times(out.editais, Item(h, p)) = 0
        BY <1>7, <2>2, <3>2
      <4>3. QED
        BY <1>3, <1>6, <1>7, <2>1, <3>2, <4>1, <4>2
    <3>3. CASE h = h0 /\ p # i
      <4>1. New(p, h) = {} /\ Old(p, h) = {}
        BY <1>3, <2>2, <3>3
      <4>2. Times(new.editais, Item(h, p)) = Times(out.editais, Item(h, p))
        BY <1>6, <2>1, <3>3
      <4>3. Times(out.editais, Item(h, p)) = 0
        BY <1>7, <4>1
      <4>4. Times(new.editais, Item(h, p)) + Times(new.duplicados, Item(h, p)) = Cardinality(New(p, h))
        BY <1>7, <2>1, <4>1, <4>2
      <4>5. QED
        BY <4>1, <4>2, <4>3, <4>4
    <3>4. CASE h # h0
      <4>1. New(p, h) = Old(p, h) /\ \A q \in 1..(p - 1) : New(q, h) = Old(q, h)
        BY <1>3, <3>1, <3>4
      <4>2. QED
        BY <1>3, <1>6, <1>7, <2>1, <3>4, <4>1
    <3>5. QED
      BY <3>2, <3>3, <3>4
  <2>5. QED
    BY <2>3, <2>4 DEF Sound, KeptOf, New, new, h0
<1>10. QED
  BY <1>8, <1>9

(* All of one adapter's editais are taken, and the next one's turn comes.  *)
LEMMA TakeAllIsSound ==
  ASSUME PortalsFit, NEW d \in Fetched, NEW i \in DOMAIN Adapters,
         NEW out \in Outcome, Sound(out, d, i, 0)
  PROVE  /\ TakeAll(out, i, d[i].hashes) \in Outcome
         /\ Sound(TakeAll(out, i, d[i].hashes), d, i + 1, 0)
<1> DEFINE hashes == d[i].hashes
           L == Len(hashes)
<1>1. hashes \in Seq(Hashes) /\ L \in Nat
  BY FetchedLists
<1>2. PICK f : /\ \A k \in 0..L : f[k] \in Outcome
               /\ f[0] = out
               /\ \A k \in 1..L : f[k] = Take(f[k - 1], Item(hashes[k], i))
               /\ TakeAll(out, i, hashes) = f[L]
  BY <1>1, TakeAllRuns
<1> DEFINE Good == {k \in Nat : Sound(f[k], d, i, k)}
<1>3. 0 \in Good
  BY <1>2
<1>4. ASSUME NEW k \in 1..L, k - 1 \in Good
      PROVE  k \in Good
  <2>1. f[k - 1] \in Outcome /\ Sound(f[k - 1], d, i, k - 1) /\ k \in Nat
    BY <1>1, <1>2, <1>4
  <2>2. Sound(Take(f[k - 1], Item(d[i].hashes[k], i)), d, i, k)
    BY <2>1, TakeIsSound
  <2>3. QED
    BY <1>2, <2>1, <2>2
<1>5. L \in Good
  <2> HIDE DEF Good, L
  <2> QED
    BY <1>1, <1>3, <1>4, LoopHolds
<1>6. f[L] \in Outcome /\ Sound(f[L], d, i, L)
  BY <1>1, <1>2, <1>5
<1>7. ASSUME NEW p \in DOMAIN Adapters, NEW h \in Hashes
      PROVE  Copies(d, i, L, p, h) = Copies(d, i + 1, 0, p, h)
  <2>1. p \in Nat /\ i \in Nat
    BY DEF PortalsFit
  <2>2. /\ DOMAIN d[p].hashes = 1..Len(d[p].hashes) /\ Len(d[p].hashes) \in Nat
        /\ DOMAIN hashes = 1..L
    BY FetchedLists
  <2>3. QED
    BY <1>1, <2>1, <2>2 DEF Copies
<1>8. \A p \in DOMAIN Adapters, h \in Hashes : KeptOf(d, i, L, p, h) = KeptOf(d, i + 1, 0, p, h)
  <2>1. \A p \in DOMAIN Adapters : \A q \in 1..(p - 1) : q \in DOMAIN Adapters
    BY DEF PortalsFit
  <2>2. QED
    BY <1>7, <2>1 DEF KeptOf
<1>9. Sound(f[L], d, i + 1, 0)
  BY <1>6, <1>7, <1>8 DEF Sound
<1>10. QED
  BY <1>2, <1>6, <1>9

(* What the merge leaves is an outcome in which the first occurrence of    *)
(* every edital is kept, and every other one listed.                       *)
LEMMA MergeIsSound ==
  ASSUME PortalsFit, NEW d \in Fetched
  PROVE  Merged(d) \in Outcome /\ Sound(Merged(d), d, Len(Adapters) + 1, 0)
<1> DEFINE N == Len(Adapters)
<1>1. N \in Nat /\ DOMAIN Adapters = 1..N
  BY DEF PortalsFit
<1>2. PICK f : /\ \A i \in 0..N : f[i] \in Outcome
               /\ f[0] = Empty
               /\ \A i \in 1..N : f[i] = TakeAll(f[i - 1], i, d[i].hashes)
               /\ Merged(d) = f[N]
  BY MergedRuns
<1> HIDE DEF N
<1> DEFINE Good == {i \in Nat : Sound(f[i], d, i + 1, 0)}
<1>3. 0 \in Good
  <2>1. ASSUME NEW p \in DOMAIN Adapters, NEW h \in Hashes
        PROVE  /\ Copies(d, 1, 0, p, h) = {}
               /\ Times(<<>>, Item(h, p)) = 0
    <3>1. p \in Nat /\ p > 0
      BY <1>1
    <3>2. DOMAIN d[p].hashes = 1..Len(d[p].hashes) /\ Len(d[p].hashes) \in Nat
      BY FetchedLists
    <3>3. Copies(d, 1, 0, p, h) = {}
      BY <3>1, <3>2 DEF Copies
    <3>4. {k \in DOMAIN <<>> : <<>>[k] = Item(h, p)} = {}
      OBVIOUS
    <3>5. QED
      BY <3>3, <3>4, FS_EmptySet DEF Times
  <2>2. Empty.editais = <<>> /\ Empty.duplicados = <<>> /\ Empty.seen = {}
    BY DEF Empty
  <2>3. Sound(Empty, d, 1, 0)
    BY <2>1, <2>2, FS_EmptySet DEF Sound, KeptOf
  <2>4. QED
    BY <1>2, <2>3
<1>4. ASSUME NEW i \in 1..N, i - 1 \in Good
      PROVE  i \in Good
  <2>1. i \in Nat /\ i \in DOMAIN Adapters /\ i - 1 \in 0..N /\ (i - 1) + 1 = i
    BY <1>1
  <2>2. f[i - 1] \in Outcome /\ Sound(f[i - 1], d, i, 0)
    BY <1>2, <1>4, <2>1
  <2>3. Sound(TakeAll(f[i - 1], i, d[i].hashes), d, i + 1, 0)
    BY <2>1, <2>2, TakeAllIsSound
  <2>4. QED
    BY <1>2, <2>1, <2>3
<1>5. N \in Good
  <2> HIDE DEF Good
  <2> QED
    BY <1>1, <1>3, <1>4, LoopHolds
<1>6. QED
  BY <1>1, <1>2, <1>5 DEF N
-----------------------------------------------------------------------------
(* The round is merged once all has been fetched, and then stays.          *)
PortalsInv ==
  /\ PortalsTypeOK
  /\ outcome # None => fetched \in Fetched /\ (\A i \in DOMAIN Adapters : fetched[i] # None)
                       /\ outcome = Merged(fetched)

(* A fetch that ends, one that fails, and the merge.                       *)
LEMMA PortalsStepPreserves ==
  ASSUME PortalsFit, PortalsInv, [PortalsNext]_PortalsVars
  PROVE  PortalsInv'
<1>1. fetched \in [DOMAIN Adapters -> Fetch \cup {None}] /\ outcome \in Outcome \cup {None}
  BY DEF PortalsInv, PortalsTypeOK
<1>2. ASSUME NEW i \in DOMAIN Adapters, NEW r \in Fetch,
             fetched[i] = None, fetched' = [fetched EXCEPT ![i] = r], UNCHANGED outcome
      PROVE  PortalsInv'
  <2>1. outcome = None
    BY <1>2 DEF PortalsInv
  <2>2. QED
    BY <1>1, <1>2, <2>1 DEF PortalsInv, PortalsTypeOK
<1>3. ASSUME NEW i \in DOMAIN Adapters, NEW n \in 0..MaxFetch, NEW hashes \in [1..n -> Hashes],
             FetchOne(i, hashes)
      PROVE  PortalsInv'
  <2>1. [status |-> "online", hashes |-> hashes] \in Fetch
    BY DEF Fetch
  <2>2. QED
    BY <1>2, <1>3, <2>1 DEF FetchOne
<1>4. ASSUME NEW i \in DOMAIN Adapters, FetchFails(i)
      PROVE  PortalsInv'
  <2>1. <<>> \in [1..0 -> Hashes] /\ 0 \in 0..MaxFetch
    BY DEF PortalsFit
  <2>2. [status |-> "error", hashes |-> <<>>] \in Fetch
    BY <2>1 DEF Fetch
  <2>3. QED
    BY <1>2, <1>4, <2>2 DEF FetchFails
<1>5. CASE Merge
  <2>1. fetched \in Fetched
    BY <1>1, <1>5 DEF Merge, Fetched
  <2>2. Merged(fetched) \in Outcome
    BY <2>1, MergeIsSound
  <2>3. QED
    BY <1>1, <1>5, <2>1, <2>2 DEF Merge, PortalsInv, PortalsTypeOK
<1>6. CASE UNCHANGED PortalsVars
  BY <1>6 DEF PortalsVars, PortalsInv, PortalsTypeOK
<1>7. QED
  BY <1>3, <1>4, <1>5, <1>6 DEF PortalsNext

(* The portals' invariant holds in every round.                            *)
LEMMA PortalsInvariance ==
  ASSUME PortalsFit
  PROVE  PortalsSpec => []PortalsInv
<1>1. PortalsInit => PortalsInv
  BY DEF PortalsInit, PortalsInv, PortalsTypeOK
<1>2. PortalsInv /\ [PortalsNext]_PortalsVars => PortalsInv'
  BY PortalsStepPreserves
<1>3. QED
  BY <1>1, <1>2, PTL DEF PortalsSpec

(* What is fetched and what is merged keep their types.                    *)
THEOREM PortalsTypes ==
  ASSUME PortalsFit
  PROVE  PortalsSpec => []PortalsTypeOK
<1>1. PortalsInv => PortalsTypeOK
  BY DEF PortalsInv
<1>2. QED
  BY PortalsInvariance, <1>1, PTL

(* For any adapters and lists of any length: whoever answers first or      *)
(* fails, each edital is analysed once, from the first adapter that        *)
(* delivered it, and no delivery goes unaccounted for.                     *)
THEOREM MergeKeepsFirsts ==
  ASSUME PortalsFit
  PROVE  PortalsSpec => []FirstOccurrenceWins
<1>1. ASSUME PortalsInv
      PROVE  FirstOccurrenceWins
  <2> SUFFICES ASSUME outcome # None, NEW i \in DOMAIN Adapters, NEW h \in Hashes
               PROVE  /\ Times(outcome.editais, Item(h, i)) = IF DeliversFirst(i, h) THEN 1 ELSE 0
                      /\ Times(outcome.editais, Item(h, i)) + Times(outcome.duplicados, Item(h, i))
                           = Cardinality({k \in DOMAIN fetched[i].hashes : fetched[i].hashes[k] = h})
    BY DEF FirstOccurrenceWins
  <2>1. fetched \in Fetched /\ outcome = Merged(fetched)
    BY <1>1 DEF PortalsInv
  <2> DEFINE N == Len(Adapters)
  <2>2. Sound(outcome, fetched, N + 1, 0)
    BY <2>1, MergeIsSound
  <2>3. ASSUME NEW p \in DOMAIN Adapters
        PROVE  Copies(fetched, N + 1, 0, p, h) = {k \in DOMAIN fetched[p].hashes : fetched[p].hashes[k] = h}
    <3>1. N \in Nat /\ p \in 1..N
      BY DEF PortalsFit
    <3>2. p < N + 1
      BY <3>1
    <3>3. QED
      BY <3>2 DEF Copies
  <2>4. \A p \in DOMAIN Adapters : Copies(fetched, N + 1, 0, p, h) # {} <=> Delivers(p, h)
    BY <2>3 DEF Delivers
  <2>5. \A q \in 1..(i - 1) : q \in DOMAIN Adapters
    BY DEF PortalsFit
  <2>6. KeptOf(fetched, N + 1, 0, i, h) <=> DeliversFirst(i, h)
    BY <2>4, <2>5 DEF KeptOf, DeliversFirst
  <2> HIDE DEF N
  <2>7. QED
    BY <2>2, <2>3, <2>6 DEF Sound
<1>2. QED
  BY PortalsInvariance, <1>1, PTL
-----------------------------------------------------------------------------
(* Whatever the application does is for every service a step of its own or *)
(* no step at all.                                                         *)
LEMMA StepsAreApart ==
  ASSUME [Next]_vars
  PROVE  /\ UNCHANGED area
         /\ [CallsNext]_CallsVars /\ [BillingNext]_BillingVars /\ [BoardNext]_BoardVars
         /\ [ContractsNext]_ContractsVars /\ [NotificationsNext]_NotificationsVars
         /\ [IntakeNext]_IntakeVars /\ [ApprovalsNext]_ApprovalsVars
         /\ [PortalsNext]_PortalsVars /\ [CalculatorsNext]_question
BY DEF Next, AgentStep, BillingStep, BoardStep, ContractStep, NotificationStep, IntakeStep,
       ApprovalStep, PortalStep, CalculatorStep, vars

(* A behaviour of the application is one of each service, by the shape of  *)
(* Next: what holds of a service alone holds of it in Services.            *)
LEMMA ServicesAreIndependent ==
  Spec => /\ CallsSpec /\ BillingSpec /\ BoardSpec /\ ContractsSpec /\ NotificationsSpec
          /\ IntakeSpec /\ ApprovalsSpec /\ PortalsSpec /\ CalculatorsSpec
<1>1. Init => /\ CallsInit /\ BillingInit /\ BoardInit /\ ContractsInit /\ NotificationsInit
              /\ IntakeInit /\ ApprovalsInit /\ PortalsInit /\ CalculatorsInit
  BY DEF Init
<1>2. [Next]_vars =>
        /\ [CallsNext]_CallsVars /\ [BillingNext]_BillingVars /\ [BoardNext]_BoardVars
        /\ [ContractsNext]_ContractsVars /\ [NotificationsNext]_NotificationsVars
        /\ [IntakeNext]_IntakeVars /\ [ApprovalsNext]_ApprovalsVars
        /\ [PortalsNext]_PortalsVars /\ [CalculatorsNext]_question
  BY StepsAreApart
<1>3. QED
  BY <1>1, <1>2, PTL
     DEF Spec, CallsSpec, BillingSpec, BoardSpec, ContractsSpec, NotificationsSpec,
         IntakeSpec, ApprovalsSpec, PortalsSpec, CalculatorsSpec

(* All the services keep their types together.                             *)
THEOREM ServicesTypes == Spec => []TypeOK
<1>1. Init => area \in Areas
  BY DEF Init
<1>2. area \in Areas /\ [Next]_vars => (area \in Areas)'
  BY StepsAreApart
<1>3. Spec => [](area \in Areas)
  BY <1>1, <1>2, PTL DEF Spec
<1>4. /\ CallsFit /\ BillingFit /\ BoardFit /\ ContractsFit /\ NotificationsFit
      /\ IntakeFit /\ ApprovalsFit /\ PortalsFit /\ CalculatorsFit
  BY ServicesFit DEF ServicesFit
<1>5. CallsSpec => []CallsTypeOK
  BY <1>4, CallsTypes
<1>6. BillingSpec => []BillingTypeOK
  BY <1>4, BillingTypes
<1>7. BoardSpec => []BoardTypeOK
  BY <1>4, BoardTypes
<1>8. ContractsSpec => []ContractsTypeOK
  BY <1>4, ContractsTypes
<1>9. NotificationsSpec => []NotificationsTypeOK
  BY <1>4, DispatcherTypes
<1>10. IntakeSpec => []IntakeTypeOK
  BY <1>4, IntakeTypes
<1>11. ApprovalsSpec => []ApprovalsTypeOK
  BY <1>4, ApprovalsTypes
<1>12. PortalsSpec => []PortalsTypeOK
  BY <1>4, PortalsTypes
<1>13. CalculatorsSpec => []CalculatorsTypeOK
  BY <1>4, CalculatorsInvariance
<1>14. QED
  BY ServicesAreIndependent, <1>3, <1>5, <1>6, <1>7, <1>8, <1>9, <1>10, <1>11, <1>12, <1>13, PTL DEF TypeOK

(* What the runs check of Services on small instances holds for any values *)
(* of its constants: metrics stay with their calls; Stripe's events find   *)
(* their tenant, whose status and plan are those of the newest, where the  *)
(* code reads them from it; cards, reports and scores agree; alerts are    *)
(* not repeated, documents not lost, decisions announced as recorded;      *)
(* first occurrences win and the calculators' answers are right.           *)
THEOREM ServicesAreSafe ==
  Spec => /\ [](/\ MetricInOnePlace /\ OwnMetricUnlessShared
                /\ EventsFindTheirTenant /\ StatusFollowsStripe
                /\ LossesDifferByFailedRuns
                /\ ReportsAgree /\ ScoreRisesByTimeOnlyOnLapse
                /\ OncePerWindow /\ AcceptedIsNotLost /\ AnnouncedMatchesUnlessLate
                /\ FirstOccurrenceWins /\ AnswersMatchReference)
          /\ MovesBackOnApprovalOnly
<1>1. /\ CallsFit /\ BillingFit /\ BoardFit /\ ContractsFit /\ NotificationsFit
      /\ IntakeFit /\ ApprovalsFit /\ PortalsFit /\ CalculatorsFit
  BY ServicesFit DEF ServicesFit
<1>2. CallsSpec => []MetricInOnePlace /\ []OwnMetricUnlessShared
  BY <1>1, MetricsAreNeverDoubled, OwnMetricReported
<1>3. BillingSpec => []EventsFindTheirTenant /\ []StatusFollowsStripe
  BY <1>1, EventsAreFound, StatusIsStripes
<1>4. BoardSpec => []LossesDifferByFailedRuns /\ MovesBackOnApprovalOnly
  BY <1>1, PagesDifferByFailedRuns, CardsMoveBackOnApproval
<1>5. ContractsSpec => []ReportsAgree /\ []ScoreRisesByTimeOnlyOnLapse
  BY <1>1, PagesAgree, ScoreDoesNotRiseByItself
<1>6. NotificationsSpec => []OncePerWindow
  BY <1>1, AlertsAreNotRepeated
<1>7. IntakeSpec => []AcceptedIsNotLost
  BY <1>1, AcceptedDocumentsAreKept
<1>8. ApprovalsSpec => []AnnouncedMatchesUnlessLate
  BY <1>1, AnnouncedIsOnRecord
<1>9. PortalsSpec => []FirstOccurrenceWins
  BY <1>1, MergeKeepsFirsts
<1>10. CalculatorsSpec => []AnswersMatchReference
  BY <1>1, AnswersAreRight
<1>11. QED
  BY ServicesAreIndependent, <1>2, <1>3, <1>4, <1>5, <1>6, <1>7, <1>8, <1>9, <1>10, PTL
=============================================================================
