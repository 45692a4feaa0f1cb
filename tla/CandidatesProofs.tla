-------------------------- MODULE CandidatesProofs --------------------------
(***************************************************************************)
(* Proofs about Candidates: which host an alert is placed at, and which    *)
(* rows of the frame are found by localize and by the cut filters, for any *)
(* alerts, catalogs, hosts, superevents, maps and cuts.                    *)
(***************************************************************************)
EXTENDS Candidates, FiniteSetTheorems, WellFoundedInduction, TLAPS

-----------------------------------------------------------------------------
(* Sets and sequences.                                                     *)

(* A set of natural numbers has a least one: of the intervals below them, *)
(* one holds no other.                                                     *)
LEMMA LeastNatural ==
  ASSUME NEW T \in SUBSET Nat, T # {}
  PROVE  \E n \in T : \A m \in T : n <= m
<1> DEFINE Below == {0 .. n : n \in T}
<1>1. IsWellFoundedOn(StrictSubsetOrdering(Nat), FiniteSubsetsOf(Nat))
  BY FS_StrictSubsetOrderingWellFounded
<1>2. Below \subseteq FiniteSubsetsOf(Nat) /\ Below # {}
  <2>1. \A n \in T : IsFiniteSet(0 .. n) /\ 0 .. n \in SUBSET Nat
    BY FS_Interval
  <2> QED BY <2>1 DEF FiniteSubsetsOf
<1>3. PICK B \in Below : \A C \in Below : <<C, B>> \notin StrictSubsetOrdering(Nat)
  <2> HIDE DEF Below
  <2> QED BY <1>1, <1>2, WFMin
<1>4. PICK n \in T : B = 0 .. n
  BY <1>3
<1>5. ASSUME NEW m \in T, m < n
      PROVE  FALSE
  <2>1. 0 .. m \in Below /\ 0 .. m \subseteq 0 .. n /\ 0 .. m # 0 .. n
    BY <1>5
  <2>2. 0 .. m \in SUBSET Nat /\ 0 .. n \in SUBSET Nat
    OBVIOUS
  <2>3. <<0 .. m, 0 .. n>> \in StrictSubsetOrdering(Nat)
    BY <2>1, <2>2 DEF StrictSubsetOrdering
  <2> QED BY <2>1, <2>3, <1>3, <1>4
<1> QED BY <1>5

LEMMA CatalogsFinite == IsFiniteSet(ToSet(Catalogs))
<1>1. Catalogs \in [1 .. Len(Catalogs) -> ToSet(Catalogs)] /\ Len(Catalogs) \in Nat
  BY CandidatesAssumption DEF ToSet
<1>2. Catalogs \in Bijection(1 .. Len(Catalogs), ToSet(Catalogs))
  BY <1>1, CandidatesAssumption DEF Bijection, Injection, Surjection, IsInjective, ToSet
<1> QED BY <1>1, <1>2, FS_Interval, FS_Bijection DEF ExistsBijection

(* Each sequence of SetToSeqs holds all of the set.                        *)
LEMMA InjectionOntoItself ==
  ASSUME NEW S, IsFiniteSet(S), NEW o \in SetToSeqs(S)
  PROVE  ToSet(o) = S
<1> DEFINE D == 1 .. Cardinality(S)
<1>1. o \in [D -> S] /\ \A i, j \in D : i # j => o[i] # o[j]
  BY DEF SetToSeqs
<1>2. Cardinality(S) \in Nat
  BY FS_CardinalityType
<1>3. o \in Bijection(D, ToSet(o))
  BY <1>1 DEF Bijection, Injection, Surjection, IsInjective, ToSet
<1>4. IsFiniteSet(D) /\ Cardinality(D) = Cardinality(S)
  BY <1>2, FS_Interval
<1>5. IsFiniteSet(ToSet(o)) /\ Cardinality(ToSet(o)) = Cardinality(S)
  BY <1>3, <1>4, FS_Bijection DEF ExistsBijection
<1>6. ToSet(o) \subseteq S
  BY <1>1 DEF ToSet
<1> QED
  BY <1>5, <1>6, FS_Subset

-----------------------------------------------------------------------------
(* The invariant: where the run is tells what each variable holds.         *)

(* What has been drawn from outside.                                       *)
Drawn ==
  /\ order \in SetToSeqs(ToSet(Catalogs))
  /\ require_2d_credible_level \in BOOLEAN /\ magnitudes \in BOOLEAN
  /\ pc \in {"crossmatch", "distance", "localize", "spatial", "cut_filters", "done", "failed"}
  /\ pc = "crossmatch" => columns = <<>> /\ matched = {}

ColumnsTyped ==
  /\ columns \in EachOf(Alerts, LAMBDA i : [ToSet(Catalogs) -> HostColumns[i]])
  /\ matched \subseteq Alerts

EventsTyped == events \in EachOf(Superevents, LAMBDA e : EventRows[e])

(* Nothing is placed before distance, or when nothing matched; then each   *)
(* matched alert with a usable host is.                                    *)
Placed ==
  \/ pc \in {"crossmatch", "distance"} /\ placed = <<>>
  \/ pc = "done" /\ matched = {} /\ placed = <<>>
  \/ pc \notin {"crossmatch", "distance"} /\ placed = nearest_hosts(order)

(* The rows of one superevent, and those that are owed.                    *)
RowsOf(e) ==
  IF events[e].map # "3d" THEN {FailedRow(p, None, events[e].map) : p \in PairsOf(e)}
  ELSE {Measured(p, l) : p \in PairsOf(e), l \in Cosmologies}

Matches ==
  {Pair(p[1], p[2]) : p \in {q \in gw_match_input \X Superevents : InWindow(events, q[1], q[2])}}

EventsOf(s) == {p.event : p \in s}

(* localize has not begun, or the pairs are the matches in time and the    *)
(* rows are those of the superevents that are dealt with.                  *)
NotLocalized ==
  /\ pc \in {"crossmatch", "distance", "localize", "done"}
  /\ events = <<>> /\ pairs = {} /\ toMatch = {} /\ spatial = {} /\ found = <<>>

Localizing ==
  /\ pc \in {"spatial", "cut_filters", "done", "failed"}
  /\ EventsTyped
  /\ pairs = Matches
  /\ toMatch \subseteq EventsOf(pairs)
  /\ spatial = UNION {RowsOf(e) : e \in EventsOf(pairs) \ toMatch}
  /\ IF pc = "spatial" THEN found = <<>> ELSE "localize" \in DOMAIN found

(* The cut filters run in turn: those before the next one have run.        *)
RanBefore(n) == {"localize"} \cup {CutFilters[k].name : k \in 1 .. n - 1}

InTurn ==
  pc = "cut_filters" =>
    \E n \in DOMAIN CutFilters :
      /\ DOMAIN found = RanBefore(n)
      /\ IsFiniteSet(DOMAIN found) /\ Cardinality(DOMAIN found) = n

(* Each has kept some of the placed rows.                                  *)
FoundInv ==
  /\ DOMAIN found \subseteq RanBefore(Len(CutFilters) + 1)
  /\ \A f \in DOMAIN found : found[f] \subseteq DOMAIN placed

-----------------------------------------------------------------------------
(* nearest_hosts.                                                          *)

(* Hosts in the order they are preferred, in whatever order the catalogs   *)
(* are configured.                                                         *)
Better(x, y) ==
  \/ SortsBefore(x, y)
  \/ x.host.sep = y.host.sep /\ x.catalog = y.catalog /\ x.place < y.place

IsBest(x, i) ==
  x \in UsableHosts(i) /\ \A y \in UsableHosts(i) : y # x => Better(x, y)

(* A configured catalog has one place in any order of the catalogs.        *)
LEMMA PlaceIs ==
  ASSUME NEW o \in SetToSeqs(ToSet(Catalogs)), NEW c \in ToSet(Catalogs)
  PROVE  PlaceOf(c, o) \in Nat /\ o[PlaceOf(c, o)] = c
<1>1. IsFiniteSet(ToSet(Catalogs))
  BY CatalogsFinite
<1>2. ToSet(o) = ToSet(Catalogs) /\ DOMAIN o \subseteq Nat
  BY <1>1, InjectionOntoItself, FS_CardinalityType DEF SetToSeqs
<1>3. \E k \in DOMAIN o : o[k] = c
  BY <1>2 DEF ToSet
<1> QED BY <1>2, <1>3 DEF PlaceOf

LEMMA RankIs ==
  ASSUME NEW c \in ToSet(Catalogs)
  PROVE  NameRank(c) \in Nat /\ Catalogs[NameRank(c)] = c
<1>1. DOMAIN Catalogs \subseteq Nat
  BY CandidatesAssumption
<1>2. \E k \in DOMAIN Catalogs : Catalogs[k] = c
  BY DEF ToSet
<1> QED BY <1>1, <1>2 DEF NameRank, PlaceOf

(* A row of the pool is of a matched alert, a catalog and a host.          *)
LEMMA RowIs ==
  ASSUME ColumnsTyped, NEW x \in PooledHosts(Catalogs), Usable(x.host)
  PROVE  /\ x.alert \in matched /\ x.catalog \in ToSet(Catalogs)
         /\ x.place \in Nat /\ x.host.sep \in Nat
         /\ x = HostRow(x.alert, x.catalog, x.place)
<1>1. PICK i \in matched, c \in ToSet(Catalogs) : \E k \in DOMAIN columns[i][c] : x = HostRow(i, c, k)
  BY DEF PooledHosts
<1>2. PICK k \in DOMAIN columns[i][c] : x = HostRow(i, c, k)
  BY <1>1
<1>3. i \in Alerts /\ columns[i] \in [ToSet(Catalogs) -> HostColumns[i]]
  BY <1>1 DEF ColumnsTyped, EachOf
<1>4. columns[i][c] \in Seq(Host)
  BY <1>1, <1>3, CandidatesAssumption
<1>5. x.alert = i /\ x.catalog = c /\ x.place = k /\ x.host = columns[i][c][k]
  BY <1>2 DEF HostRow
<1>6. k \in Nat /\ columns[i][c][k] \in Host
  BY <1>2, <1>4
<1> QED BY <1>1, <1>2, <1>5, <1>6 DEF Usable, Host

(* The order of the catalogs makes no difference to what is in the pool.   *)
LEMMA PoolIs ==
  ASSUME NEW o \in SetToSeqs(ToSet(Catalogs))
  PROVE  PooledHosts(o) = PooledHosts(Catalogs)
<1>1. ToSet(o) = ToSet(Catalogs)
  BY CatalogsFinite, InjectionOntoItself
<1> QED BY <1>1 DEF PooledHosts

(* Nor to which of two usable hosts of an alert comes first.               *)
LEMMA PrecedesIsBetter ==
  ASSUME ColumnsTyped, NEW o \in SetToSeqs(ToSet(Catalogs)), NEW i,
         NEW x \in UsableHosts(i), NEW y \in UsableHosts(i), x # y
  PROVE  Precedes(x, y, o) <=> Better(x, y)
<1>1. /\ x.alert = i /\ x.catalog \in ToSet(Catalogs) /\ x.place \in Nat /\ x.host.sep \in Nat
      /\ x = HostRow(x.alert, x.catalog, x.place)
  BY RowIs DEF UsableHosts
<1>2. /\ y.alert = i /\ y.catalog \in ToSet(Catalogs) /\ y.place \in Nat /\ y.host.sep \in Nat
      /\ y = HostRow(y.alert, y.catalog, y.place)
  BY RowIs DEF UsableHosts
<1>3. x.catalog = y.catalog => x.place # y.place
  BY <1>1, <1>2
<1>4. /\ NameRank(x.catalog) \in Nat /\ NameRank(y.catalog) \in Nat
      /\ NameRank(x.catalog) = NameRank(y.catalog) => x.catalog = y.catalog
  BY <1>1, <1>2, RankIs
<1>5. PlaceOf(x.catalog, o) \in Nat /\ PlaceOf(y.catalog, o) \in Nat
  BY <1>1, <1>2, PlaceIs
<1> QED BY <1>1, <1>2, <1>3, <1>4, <1>5 DEF Precedes, Better, SortsBefore, ConcatenatedBefore

(* An alert has one best host,                                             *)
LEMMA BestIsUnique ==
  ASSUME ColumnsTyped, NEW i, NEW x, NEW y, IsBest(x, i), IsBest(y, i)
  PROVE  x = y
<1> SUFFICES ASSUME x # y PROVE FALSE
  OBVIOUS
<1>1. Better(x, y) /\ Better(y, x)
  BY DEF IsBest
<1>2. /\ x.host.sep \in Nat /\ y.host.sep \in Nat /\ x.place \in Nat /\ y.place \in Nat
      /\ x.catalog \in ToSet(Catalogs) /\ y.catalog \in ToSet(Catalogs)
  BY RowIs DEF IsBest, UsableHosts
<1>3. NameRank(x.catalog) \in Nat /\ NameRank(y.catalog) \in Nat
  BY <1>2, RankIs
<1> QED BY <1>1, <1>2, <1>3 DEF Better, SortsBefore

(* if it has any: the first in its column of those of the first catalog    *)
(* among the nearest.                                                      *)
LEMMA BestExists ==
  ASSUME ColumnsTyped, NEW i, UsableHosts(i) # {}
  PROVE  \E x \in UsableHosts(i) : IsBest(x, i)
<1> DEFINE U == UsableHosts(i)
<1>1. \A x \in U : /\ x.alert = i /\ x.catalog \in ToSet(Catalogs)
                   /\ x.place \in Nat /\ x.host.sep \in Nat
                   /\ x = HostRow(x.alert, x.catalog, x.place)
  BY RowIs DEF UsableHosts
<1>2. \A x \in U : NameRank(x.catalog) \in Nat /\ Catalogs[NameRank(x.catalog)] = x.catalog
  BY <1>1, RankIs
<1> HIDE DEF U
<1>3. PICK x1 \in U : \A y \in U : x1.host.sep <= y.host.sep
  <2>1. {x.host.sep : x \in U} \in SUBSET Nat /\ {x.host.sep : x \in U} # {}
    BY <1>1 DEF U
  <2>2. PICK n \in {x.host.sep : x \in U} : \A m \in {x.host.sep : x \in U} : n <= m
    BY <2>1, LeastNatural
  <2> QED BY <2>2
<1> DEFINE V == {x \in U : x.host.sep = x1.host.sep}
<1>4. PICK x2 \in V : \A y \in V : NameRank(x2.catalog) <= NameRank(y.catalog)
  <2>1. {NameRank(x.catalog) : x \in V} \in SUBSET Nat /\ {NameRank(x.catalog) : x \in V} # {}
    BY <1>2, <1>3
  <2>2. PICK n \in {NameRank(x.catalog) : x \in V} : \A m \in {NameRank(x.catalog) : x \in V} : n <= m
    BY <2>1, LeastNatural
  <2> QED BY <2>2
<1> DEFINE W == {x \in V : x.catalog = x2.catalog}
<1>5. PICK x3 \in W : \A y \in W : x3.place <= y.place
  <2>1. {x.place : x \in W} \in SUBSET Nat /\ {x.place : x \in W} # {}
    BY <1>1, <1>4
  <2>2. PICK n \in {x.place : x \in W} : \A m \in {x.place : x \in W} : n <= m
    BY <2>1, LeastNatural
  <2> QED BY <2>2
<1>6. ASSUME NEW y \in U, y # x3
      PROVE  Better(x3, y)
  <2>1. CASE y.host.sep # x1.host.sep
    BY <2>1, <1>1, <1>3, <1>5 DEF Better, SortsBefore
  <2>2. CASE y \in V /\ y.catalog # x2.catalog
    <3>1. NameRank(x2.catalog) < NameRank(y.catalog)
      BY <2>2, <1>2, <1>4
    <3> QED BY <3>1, <2>2, <1>5 DEF Better, SortsBefore
  <2>3. CASE y \in W
    <3>1. x3.place < y.place
      BY <2>3, <1>1, <1>5, <1>6
    <3> QED BY <3>1, <2>3, <1>5 DEF Better
  <2> QED BY <2>1, <2>2, <2>3
<1> QED BY <1>5, <1>6 DEF IsBest, U

(* nearest_hosts keeps the alerts that have a usable host, at the best.    *)
LEMMA NearestIs ==
  ASSUME ColumnsTyped, NEW o \in SetToSeqs(ToSet(Catalogs))
  PROVE  /\ DOMAIN nearest_hosts(o) = {i \in Alerts : UsableHosts(i) # {}}
         /\ \A i \in DOMAIN nearest_hosts(o) : IsBest(nearest_hosts(o)[i], i)
<1> DEFINE pool == {x \in PooledHosts(o) : Usable(x.host)}
<1>1. \A i : UsableHosts(i) = {x \in pool : x.alert = i}
  BY PoolIs DEF UsableHosts
<1>2. \A x \in pool : x.alert \in Alerts
  BY PoolIs, RowIs DEF ColumnsTyped
<1>3. nearest_hosts(o) = FirstOfEach(pool, o)
  BY DEF nearest_hosts
<1> HIDE DEF pool
<1>4. DOMAIN FirstOfEach(pool, o) = {x.alert : x \in pool}
  BY DEF FirstOfEach
<1>5. ASSUME NEW i \in {x.alert : x \in pool}
      PROVE  IsBest(FirstOfEach(pool, o)[i], i)
  <2>1. \A x \in UsableHosts(i) : IsFirst(x, pool, o) <=> IsBest(x, i)
    <3>1. \A x \in UsableHosts(i) : x.alert = i
      BY DEF UsableHosts
    <3>2. \A x, y \in UsableHosts(i) : x # y => (Precedes(x, y, o) <=> Better(x, y))
      BY PrecedesIsBetter
    <3> QED BY <3>1, <3>2, <1>1 DEF IsFirst, IsBest
  <2>2. \E x \in pool : x.alert = i /\ IsFirst(x, pool, o)
    BY <2>1, <1>1, <1>5, BestExists
  <2>3. FirstOfEach(pool, o)[i] = CHOOSE x \in pool : x.alert = i /\ IsFirst(x, pool, o)
    BY <1>5 DEF FirstOfEach
  <2> DEFINE b == FirstOfEach(pool, o)[i]
  <2>4. b \in pool /\ b.alert = i /\ IsFirst(b, pool, o)
    BY <2>2, <2>3
  <2> QED BY <2>4, <2>1, <1>1
<1>6. {x.alert : x \in pool} = {i \in Alerts : UsableHosts(i) # {}}
  BY <1>1, <1>2
<1> QED BY <1>3, <1>4, <1>5, <1>6

(* So the order of the catalogs does not decide it.                        *)
LEMMA NearestIsOne ==
  ASSUME ColumnsTyped,
         NEW o \in SetToSeqs(ToSet(Catalogs)), NEW q \in SetToSeqs(ToSet(Catalogs))
  PROVE  nearest_hosts(o) = nearest_hosts(q)
<1>1. DOMAIN nearest_hosts(o) = DOMAIN nearest_hosts(q)
  BY NearestIs
<1>2. \A i \in DOMAIN nearest_hosts(o) : nearest_hosts(o)[i] = nearest_hosts(q)[i]
  BY <1>1, NearestIs, BestIsUnique
<1>3. \A r : nearest_hosts(r) = [i \in DOMAIN nearest_hosts(r) |-> nearest_hosts(r)[i]]
  BY DEF nearest_hosts, FirstOfEach
<1> QED BY <1>1, <1>2, <1>3

(* A step of the stages behind distance leaves it as it is.                *)
LEMMA NearestStays ==
  ASSUME UNCHANGED <<order, columns, matched>>
  PROVE  nearest_hosts(order)' = nearest_hosts(order)
BY DEF nearest_hosts, PooledHosts, HostRow

-----------------------------------------------------------------------------
(* The invariant is inductive.                                             *)

ColumnsInv == pc # "crossmatch" => ColumnsTyped

CandidatesInv ==
  Drawn /\ ColumnsInv /\ Placed /\ (NotLocalized \/ Localizing) /\ InTurn /\ FoundInv

LEMMA CandidatesInit == Init => CandidatesInv
<1> SUFFICES ASSUME Init PROVE CandidatesInv
  OBVIOUS
<1> USE DEF Init
<1>1. Drawn /\ ColumnsInv /\ Placed /\ NotLocalized /\ InTurn
  BY DEF Drawn, ColumnsInv, Placed, NotLocalized, InTurn
<1>2. FoundInv
  BY DEF FoundInv
<1> QED BY <1>1, <1>2 DEF CandidatesInv

(* The draws and the columns.                                              *)
LEMMA DrawnStep ==
  ASSUME CandidatesInv, [Next]_vars
  PROVE  Drawn' /\ ColumnsInv'
<1> USE DEF CandidatesInv, Drawn, given
<1> DEFINE Typed(c) == c \in EachOf(Alerts, LAMBDA i : [ToSet(Catalogs) -> HostColumns[i]])
<1>1. CASE Crossmatch
  <2>1. matched' \subseteq Alerts
    BY <1>1 DEF Crossmatch, filter_matched
  <2>2. ColumnsTyped'
    BY <1>1, <2>1 DEF Crossmatch, ColumnsTyped, EachOf
  <2> QED BY <1>1, <2>2 DEF Crossmatch, ColumnsInv
<1>2. ASSUME UNCHANGED <<given, columns, matched>>, pc # "crossmatch",
             pc' \in {"distance", "localize", "spatial", "cut_filters", "done", "failed"}
      PROVE  Drawn' /\ ColumnsInv'
  BY <1>2 DEF ColumnsInv, ColumnsTyped, EachOf
<1>3. CASE UNCHANGED vars
  BY <1>3 DEF vars, ColumnsInv, ColumnsTyped, EachOf
<1>4. CASE AttachDistances
  BY <1>2, <1>4 DEF AttachDistances
<1>5. CASE TemporalCrossmatch
  BY <1>2, <1>5 DEF TemporalCrossmatch
<1>6. ASSUME NEW e \in Superevents, SkymapFails(e) \/ SpatialCrossmatch(e)
      PROVE  Drawn' /\ ColumnsInv'
  BY <1>2, <1>6 DEF SkymapFails, SpatialCrossmatch
<1>7. CASE AttachLocalizations
  BY <1>2, <1>7 DEF AttachLocalizations
<1>8. CASE RunCutFilter \/ CutColumnMissing
  BY <1>2, <1>8 DEF RunCutFilter, CutColumnMissing
<1> QED BY <1>1, <1>3, <1>4, <1>5, <1>6, <1>7, <1>8 DEF Next

(* What is placed is settled by distance.                                  *)
LEMMA PlacedStep ==
  ASSUME CandidatesInv, [Next]_vars
  PROVE  Placed'
<1> USE DEF CandidatesInv, Placed, given
<1>1. CASE Crossmatch
  BY <1>1 DEF Crossmatch
<1>2. CASE AttachDistances
  <2>1. nearest_hosts(order)' = nearest_hosts(order)
    BY <1>2, NearestStays DEF AttachDistances
  <2> QED BY <1>2, <2>1 DEF AttachDistances
<1>3. ASSUME UNCHANGED <<given, columns, matched, placed>>,
             \/ pc \in {"localize", "spatial", "cut_filters"} /\ pc' \notin {"crossmatch", "distance"}
             \/ pc' = pc
      PROVE  Placed'
  <2>1. nearest_hosts(order)' = nearest_hosts(order)
    BY <1>3, NearestStays
  <2> QED BY <1>3, <2>1
<1>4. CASE UNCHANGED vars
  BY <1>3, <1>4 DEF vars
<1>5. CASE TemporalCrossmatch
  BY <1>3, <1>5 DEF TemporalCrossmatch
<1>6. ASSUME NEW e \in Superevents, SkymapFails(e) \/ SpatialCrossmatch(e)
      PROVE  Placed'
  BY <1>3, <1>6 DEF SkymapFails, SpatialCrossmatch
<1>7. CASE AttachLocalizations
  BY <1>3, <1>7 DEF AttachLocalizations
<1>8. CASE RunCutFilter \/ CutColumnMissing
  BY <1>3, <1>8 DEF RunCutFilter, CutColumnMissing
<1> QED BY <1>1, <1>2, <1>4, <1>5, <1>6, <1>7, <1>8 DEF Next

(* What localize has matched does not change but by its own steps.         *)
LEMMA MatchedStays ==
  ASSUME UNCHANGED <<events, placed, pairs>>
  PROVE  /\ EventsTyped' = EventsTyped /\ Matches' = Matches
         /\ EventsOf(pairs)' = EventsOf(pairs)
         /\ \A e : RowsOf(e)' = RowsOf(e)
<1>1. EventsTyped' = EventsTyped
  BY DEF EventsTyped, EachOf
<1>2. Matches' = Matches
  BY DEF Matches, gw_match_input, InWindow
<1>3. \A e : RowsOf(e)' = RowsOf(e)
  BY DEF RowsOf, PairsOf, Measured
<1> QED BY <1>1, <1>2, <1>3 DEF EventsOf

(* One superevent's rows are added.                                        *)
LEMMA RowsAdded ==
  ASSUME Localizing, pc = "spatial",
         UNCHANGED <<events, pc, placed, pairs, found>>,
         NEW e \in toMatch, spatial' = spatial \cup RowsOf(e), toMatch' = toMatch \ {e}
  PROVE  Localizing'
<1> DEFINE done == EventsOf(pairs) \ toMatch
<1>1. EventsOf(pairs) \ toMatch' = done \cup {e}
  BY DEF Localizing
<1>2. spatial' = UNION {RowsOf(x) : x \in done \cup {e}}
  BY DEF Localizing
<1>3. UNION {RowsOf(x)' : x \in EventsOf(pairs) \ toMatch'} = spatial'
  BY <1>1, <1>2, MatchedStays
<1>4. /\ EventsTyped' /\ pairs' = Matches' /\ toMatch' \subseteq EventsOf(pairs)'
      /\ pc' = "spatial" /\ found' = <<>>
  BY MatchedStays DEF Localizing
<1>5. EventsOf(pairs)' = EventsOf(pairs)
  BY MatchedStays
<1> QED BY <1>3, <1>4, <1>5 DEF Localizing

LEMMA LocalizeStep ==
  ASSUME CandidatesInv, [Next]_vars
  PROVE  (NotLocalized \/ Localizing)'
<1> USE DEF CandidatesInv
<1>1. CASE Crossmatch
  BY <1>1 DEF Crossmatch, NotLocalized, Localizing
<1>2. CASE AttachDistances
  BY <1>2 DEF AttachDistances, NotLocalized, Localizing
<1>3. CASE TemporalCrossmatch
  <2>1. NotLocalized
    BY <1>3 DEF TemporalCrossmatch, NotLocalized, Localizing
  <2>2. EventsTyped'
    BY <1>3 DEF TemporalCrossmatch, EventsTyped, EachOf
  <2>3. pairs' = Matches'
    BY <1>3 DEF TemporalCrossmatch, Matches, gw_match_input, InWindow
  <2>4. toMatch' = EventsOf(pairs)'
    BY <1>3 DEF TemporalCrossmatch, EventsOf
  <2>5. spatial' = {} /\ found' = <<>> /\ pc' = "spatial"
    BY <1>3, <2>1 DEF TemporalCrossmatch, NotLocalized
  <2>6. (UNION {RowsOf(e) : e \in EventsOf(pairs) \ toMatch})' = {}
    BY <2>4
  <2> QED BY <2>2, <2>3, <2>4, <2>5, <2>6 DEF Localizing
<1>4. ASSUME NEW e \in Superevents, SkymapFails(e) \/ SpatialCrossmatch(e)
      PROVE  (NotLocalized \/ Localizing)'
  <2>1. Localizing
    BY <1>4 DEF SkymapFails, SpatialCrossmatch, NotLocalized
  <2>2. spatial' = spatial \cup RowsOf(e)
    BY <1>4 DEF SkymapFails, SpatialCrossmatch, RowsOf
  <2> QED BY <1>4, <2>1, <2>2, RowsAdded DEF SkymapFails, SpatialCrossmatch
<1>5. ASSUME Localizing, UNCHANGED <<events, placed, pairs, toMatch, spatial>>,
             \/ pc # "spatial" /\ DOMAIN found \subseteq DOMAIN found'
             \/ "localize" \in DOMAIN found',
             pc' \in {"cut_filters", "done", "failed"}
      PROVE  Localizing'
  BY <1>5, MatchedStays DEF Localizing
<1>6. CASE AttachLocalizations
  <2>1. Localizing
    BY <1>6 DEF AttachLocalizations, NotLocalized
  <2> QED BY <1>5, <1>6, <2>1 DEF AttachLocalizations, Keep
<1>7. CASE RunCutFilter \/ CutColumnMissing
  <2>1. Localizing /\ pc = "cut_filters"
    BY <1>7 DEF RunCutFilter, CutColumnMissing, NotLocalized
  <2> QED BY <1>5, <1>7, <2>1 DEF RunCutFilter, CutColumnMissing, Keep
<1>8. CASE UNCHANGED vars
  <2>1. NotLocalized => NotLocalized'
    BY <1>8 DEF vars, NotLocalized
  <2>2. Localizing => Localizing'
    BY <1>8, MatchedStays DEF vars, Localizing
  <2> QED BY <2>1, <2>2
<1> QED BY <1>1, <1>2, <1>3, <1>4, <1>6, <1>7, <1>8 DEF Next

(* No cut filter has the name of localize, nor two of them one name.       *)
LEMMA CutFiltersAre ==
  /\ Len(CutFilters) \in Nat /\ DOMAIN CutFilters = 1 .. Len(CutFilters)
  /\ \A k \in DOMAIN CutFilters :
       /\ CutFilters[k].name # "localize"
       /\ CutFilters[k].cuts \in Seq(Cut)
  /\ \A k, l \in DOMAIN CutFilters : CutFilters[k].name = CutFilters[l].name => k = l
<1> DEFINE R == [name : STRING \ {"localize"}, cuts : Seq(Cut) \ {<<>>}]
<1>1. CutFilters \in Seq(R)
  BY CandidatesAssumption
<1>2. ASSUME NEW k \in DOMAIN CutFilters
      PROVE  CutFilters[k].name # "localize" /\ CutFilters[k].cuts \in Seq(Cut)
  <2>1. CutFilters[k] \in R
    <3> HIDE DEF R
    <3> QED BY <1>1
  <2> QED BY <2>1
<1>3. Len(CutFilters) \in Nat /\ DOMAIN CutFilters = 1 .. Len(CutFilters)
  <2> HIDE DEF R
  <2> QED BY <1>1
<1> QED BY <1>2, <1>3, CandidatesAssumption

(* The filter that runs is the n-th, which has not run.                    *)
LEMMA FilterInTurn ==
  ASSUME InTurn, pc = "cut_filters"
  PROVE  \E n \in DOMAIN CutFilters :
           /\ CutFilter = CutFilters[n] /\ CutFilter.name \notin DOMAIN found
           /\ DOMAIN found = RanBefore(n)
           /\ IsFiniteSet(DOMAIN found) /\ Cardinality(DOMAIN found) = n
<1>1. PICK n \in DOMAIN CutFilters :
             /\ DOMAIN found = RanBefore(n)
             /\ IsFiniteSet(DOMAIN found) /\ Cardinality(DOMAIN found) = n
  BY DEF InTurn
<1>2. CutFilter = CutFilters[n]
  BY <1>1 DEF CutFilter
<1>3. \A k \in 1 .. n - 1 : k \in DOMAIN CutFilters /\ k # n
  BY CutFiltersAre
<1>4. CutFilters[n].name \notin RanBefore(n)
  BY <1>3, CutFiltersAre DEF RanBefore
<1> QED BY <1>1, <1>2, <1>4

LEMMA InTurnStep ==
  ASSUME CandidatesInv, [Next]_vars
  PROVE  InTurn'
<1> USE DEF CandidatesInv
<1> SUFFICES ASSUME pc' = "cut_filters" PROVE InTurn'
  BY DEF InTurn
<1>1. CASE AttachLocalizations
  <2>1. found = <<>> /\ CutFilters # <<>>
    BY <1>1 DEF AttachLocalizations, NotLocalized, Localizing
  <2>2. DOMAIN found' = {"localize"}
    BY <1>1, <2>1 DEF AttachLocalizations, Keep
  <2>3. RanBefore(1) = {"localize"}
    BY DEF RanBefore
  <2>4. 1 \in DOMAIN CutFilters
    BY <2>1, CandidatesAssumption
  <2> QED BY <2>2, <2>3, <2>4, FS_Singleton DEF InTurn
<1>2. CASE RunCutFilter
  <2>1. PICK n \in DOMAIN CutFilters :
               /\ CutFilter = CutFilters[n] /\ CutFilter.name \notin DOMAIN found
               /\ DOMAIN found = RanBefore(n)
               /\ IsFiniteSet(DOMAIN found) /\ Cardinality(DOMAIN found) = n
    BY <1>2, FilterInTurn DEF RunCutFilter
  <2>2. n # Len(CutFilters)
    BY <1>2, <2>1 DEF RunCutFilter, Last
  <2>3. n + 1 \in DOMAIN CutFilters /\ n \in Nat
    BY <2>1, <2>2, CutFiltersAre
  <2>4. DOMAIN found' = DOMAIN found \cup {CutFilter.name}
    BY <1>2 DEF RunCutFilter, Keep
  <2>5. IsFiniteSet(DOMAIN found') /\ Cardinality(DOMAIN found') = n + 1
    BY <2>1, <2>4, FS_AddElement
  <2>6. 1 .. (n + 1) - 1 = (1 .. n - 1) \cup {n}
    BY <2>1, CutFiltersAre
  <2>7. DOMAIN found' = RanBefore(n + 1)
    BY <2>1, <2>4, <2>6 DEF RanBefore
  <2> QED BY <2>3, <2>5, <2>7 DEF InTurn
<1>3. CASE UNCHANGED vars
  BY <1>3 DEF vars, InTurn
<1>4. ASSUME NEW e \in Superevents, SkymapFails(e) \/ SpatialCrossmatch(e)
      PROVE  FALSE
  BY <1>4 DEF SkymapFails, SpatialCrossmatch
<1>5. CASE Crossmatch \/ AttachDistances \/ TemporalCrossmatch \/ CutColumnMissing
  BY <1>5 DEF Crossmatch, AttachDistances, TemporalCrossmatch, CutColumnMissing
<1> QED BY <1>1, <1>2, <1>3, <1>4, <1>5 DEF Next

LEMMA FoundStep ==
  ASSUME CandidatesInv, [Next]_vars
  PROVE  FoundInv'
<1> USE DEF CandidatesInv
<1>1. CASE AttachLocalizations
  BY <1>1 DEF AttachLocalizations, Keep, FoundInv, RanBefore
<1>2. CASE RunCutFilter
  <2>1. PICK n \in DOMAIN CutFilters : CutFilter = CutFilters[n]
    BY <1>2, FilterInTurn DEF RunCutFilter
  <2>2. CutFilter.name \in RanBefore(Len(CutFilters) + 1)
    BY <2>1, CutFiltersAre DEF RanBefore
  <2>3. apply_cuts(CutFilter.cuts) \subseteq DOMAIN placed
    BY DEF apply_cuts
  <2> QED BY <1>2, <2>2, <2>3 DEF RunCutFilter, Keep, FoundInv
<1>3. CASE UNCHANGED <<placed, found>>
  BY <1>3 DEF FoundInv
<1>4. CASE AttachDistances
  <2>1. found' = <<>>
    BY <1>4 DEF AttachDistances, NotLocalized, Localizing
  <2>2. DOMAIN found' = {}
    BY <2>1
  <2> QED BY <2>2 DEF FoundInv
<1>5. ASSUME NEW e \in Superevents, SkymapFails(e) \/ SpatialCrossmatch(e)
      PROVE  FoundInv'
  BY <1>3, <1>5 DEF SkymapFails, SpatialCrossmatch
<1>6. CASE Crossmatch \/ TemporalCrossmatch \/ CutColumnMissing \/ UNCHANGED vars
  BY <1>3, <1>6 DEF Crossmatch, TemporalCrossmatch, CutColumnMissing, vars
<1> QED BY <1>1, <1>2, <1>4, <1>5, <1>6 DEF Next

THEOREM CandidatesInvariant == Spec => []CandidatesInv
<1>1. CandidatesInv /\ [Next]_vars => CandidatesInv'
  BY DrawnStep, PlacedStep, LocalizeStep, InTurnStep, FoundStep DEF CandidatesInv
<1> QED BY <1>1, CandidatesInit, PTL DEF Spec

-----------------------------------------------------------------------------
(* What follows of the rows of the frame, and of the host of each.         *)

LEMMA PlacedIsBest ==
  ASSUME CandidatesInv, NEW i \in DOMAIN placed
  PROVE  i \in matched /\ IsBest(placed[i], i)
<1>1. placed # <<>> /\ placed = nearest_hosts(order) /\ pc # "crossmatch"
  BY DEF CandidatesInv, Placed
<1>2. ColumnsTyped /\ order \in SetToSeqs(ToSet(Catalogs))
  BY <1>1 DEF CandidatesInv, ColumnsInv, Drawn
<1>3. UsableHosts(i) # {} /\ IsBest(placed[i], i)
  BY <1>1, <1>2, NearestIs
<1>4. \A x \in UsableHosts(i) : x.alert = i /\ x.alert \in matched
  BY <1>2, RowIs DEF UsableHosts
<1> QED BY <1>3, <1>4

LEMMA PlacedAreAlerts == CandidatesInv => DOMAIN placed \subseteq matched /\ matched \subseteq Alerts
<1>1. CandidatesInv => matched \subseteq Alerts
  BY DEF CandidatesInv, Drawn, ColumnsInv, ColumnsTyped
<1> QED BY <1>1, PlacedIsBest

(* A pair in time is of a placed alert that has a time, and its key is the *)
(* alert's row.                                                            *)
LEMMA MatchIs ==
  ASSUME NEW p \in Matches
  PROVE  /\ p.row \in gw_match_input /\ p.event \in Superevents
         /\ p.key = p.row /\ p = Pair(p.row, p.event)
         /\ InWindow(events, p.row, p.event)
BY DEF Matches, Pair, AlertKey

LEMMA MatchOf ==
  ASSUME NEW i \in gw_match_input, NEW e \in Superevents, InWindow(events, i, e)
  PROVE  Pair(i, e) \in Matches
<1>1. <<i, e>> \in {q \in gw_match_input \X Superevents : InWindow(events, q[1], q[2])}
  OBVIOUS
<1> QED BY <1>1 DEF Matches

LEMMA EventIs ==
  ASSUME EventsTyped, NEW e \in Superevents
  PROVE  events[e] \in EventRow
BY CandidatesAssumption DEF EventsTyped, EachOf

(* A row of the spatial match, by whether the map has distances.           *)
SpatialRowType ==
  [key : DOMAIN placed, event : Superevents, cosmology : Cosmologies \cup {None},
   status : {"missing", "unreadable", "flat", "crossmatch_failed", "ok"},
   inside_3d : BOOLEAN, inside_2d : BOOLEAN]

LEMMA RowType ==
  ASSUME EventsTyped, pairs = Matches, NEW e \in Superevents
  PROVE  RowsOf(e) \subseteq SpatialRowType
<1>1. \A p \in PairsOf(e) : p.key \in DOMAIN placed /\ p.event = e
  BY MatchIs DEF PairsOf, gw_match_input
<1>2. events[e].map \in {"missing", "unreadable", "flat", "3d"}
  BY EventIs DEF EventRow
<1>3. ASSUME NEW p \in PairsOf(e), events[e].map # "3d"
      PROVE  FailedRow(p, None, events[e].map) \in SpatialRowType
  BY <1>1, <1>2, <1>3 DEF FailedRow, SpatialRow, SpatialRowType
<1>4. ASSUME NEW p \in PairsOf(e), NEW l \in Cosmologies
      PROVE  Measured(p, l) \in SpatialRowType
  <2>1. FailedRow(p, l, "crossmatch_failed") \in SpatialRowType
    BY <1>1 DEF FailedRow, SpatialRow, SpatialRowType
  <2>2. \A a, b \in BOOLEAN : SpatialRow(p, l, "ok", a, b) \in SpatialRowType
    BY <1>1 DEF SpatialRow, SpatialRowType
  <2> DEFINE in3d == <<p.row, l>> \in events[p.event].volume
             in2d == p.row \in events[p.event].area
  <2>3. Measured(p, l) = IF l \in events[p.event].raises THEN FailedRow(p, l, "crossmatch_failed")
                         ELSE SpatialRow(p, l, "ok", in3d, in2d)
    BY Zenon DEF Measured
  <2>4. in3d \in BOOLEAN /\ in2d \in BOOLEAN
    OBVIOUS
  <2> HIDE DEF in3d, in2d
  <2> QED BY <2>1, <2>2, <2>3, <2>4
<1> QED BY <1>3, <1>4 DEF RowsOf

(* Each variable keeps its type: a placed alert has a host that may be     *)
(* used, and a row of the spatial match has both of its flags.             *)
THEOREM CandidatesTypeCorrect == Spec => []TypeOK
<1>1. ASSUME CandidatesInv PROVE TypeOK
  <2>1. /\ order \in SetToSeqs(ToSet(Catalogs))
        /\ require_2d_credible_level \in BOOLEAN /\ magnitudes \in BOOLEAN
        /\ pc \in {"crossmatch", "distance", "localize", "spatial", "cut_filters", "done", "failed"}
    BY <1>1 DEF CandidatesInv, Drawn
  <2>2. columns # <<>> => columns \in EachOf(Alerts, LAMBDA i : [ToSet(Catalogs) -> HostColumns[i]])
    BY <1>1 DEF CandidatesInv, Drawn, ColumnsInv, ColumnsTyped
  <2>3. DOMAIN placed \subseteq matched /\ matched \subseteq Alerts
    BY <1>1, PlacedAreAlerts
  <2>4. \A i \in DOMAIN placed : placed[i].alert = i /\ Usable(placed[i].host)
    BY <1>1, PlacedIsBest DEF IsBest, UsableHosts
  <2>5. \A f \in DOMAIN found : found[f] \subseteq DOMAIN placed
    BY <1>1 DEF CandidatesInv, FoundInv
  <2>6. CASE NotLocalized
    BY <2>1, <2>2, <2>3, <2>4, <2>5, <2>6 DEF TypeOK, NotLocalized
  <2>7. CASE Localizing
    <3>1. events \in EachOf(Superevents, LAMBDA e : EventRows[e])
      BY <2>7 DEF Localizing, EventsTyped
    <3>2. pairs \subseteq [row : DOMAIN placed, key : DOMAIN placed, event : Superevents]
      <4>1. \A p \in Matches : p \in [row : DOMAIN placed, key : DOMAIN placed, event : Superevents]
        BY MatchIs DEF gw_match_input, Pair
      <4> QED BY <4>1, <2>7 DEF Localizing
    <3>3. EventsOf(pairs) \subseteq Superevents
      BY <3>2 DEF EventsOf
    <3>4. spatial \subseteq SpatialRowType
      BY <3>3, <2>7, RowType DEF Localizing
    <3> QED BY <2>1, <2>2, <2>3, <2>4, <2>5, <2>7, <3>1, <3>2, <3>3, <3>4
            DEF TypeOK, Localizing, SpatialRowType
  <2> QED BY <1>1, <2>6, <2>7 DEF CandidatesInv
<1> QED BY <1>1, CandidatesInvariant, PTL

(* An alert is placed exactly when one of its hosts is sound, and then at  *)
(* none that is farther than another sound one.                            *)
THEOREM CandidatesHostIsNearest == Spec => []HostIsNearestUsable
<1>1. ASSUME CandidatesInv, pc \notin {"crossmatch", "distance"}
      PROVE  DOMAIN placed = {i \in Alerts : UsableHosts(i) # {}}
  <2>1. ColumnsTyped /\ order \in SetToSeqs(ToSet(Catalogs))
    BY <1>1 DEF CandidatesInv, ColumnsInv, Drawn
  <2>2. CASE matched = {} /\ placed = <<>>
    <3>1. \A i : UsableHosts(i) = {}
      BY <2>2 DEF UsableHosts, PooledHosts
    <3> QED BY <2>2, <3>1
  <2>3. CASE placed = nearest_hosts(order)
    BY <2>1, <2>3, NearestIs
  <2> QED BY <1>1, <2>2, <2>3 DEF CandidatesInv, Placed
<1>2. ASSUME CandidatesInv, NEW i \in DOMAIN placed
      PROVE  placed[i] \in UsableHosts(i) /\ \A x \in UsableHosts(i) : placed[i].host.sep <= x.host.sep
  <2>1. IsBest(placed[i], i)
    BY <1>2, PlacedIsBest
  <2>2. ColumnsTyped
    <3>1. placed # <<>>
      BY <1>2
    <3> QED BY <3>1, <1>2 DEF CandidatesInv, Placed, ColumnsInv
  <2>3. \A x \in UsableHosts(i) : x.host.sep \in Nat
    BY <2>2, RowIs DEF UsableHosts
  <2> QED BY <2>1, <2>3 DEF IsBest, Better, SortsBefore
<1>3. CandidatesInv => HostIsNearestUsable
  BY <1>1, <1>2 DEF HostIsNearestUsable
<1> QED BY <1>3, CandidatesInvariant, PTL

(* Any other order of the catalogs would have placed the alerts alike.     *)
THEOREM CandidatesOrderIsImmaterial == Spec => []OrderOfCatalogsIsImmaterial
<1>1. ASSUME CandidatesInv, pc = "localize", NEW o \in SetToSeqs(ToSet(Catalogs))
      PROVE  nearest_hosts(o) = placed
  <2>1. placed = nearest_hosts(order) /\ ColumnsTyped /\ order \in SetToSeqs(ToSet(Catalogs))
    BY <1>1 DEF CandidatesInv, Placed, ColumnsInv, Drawn
  <2> QED BY <2>1, NearestIsOne
<1>2. CandidatesInv => OrderOfCatalogsIsImmaterial
  BY <1>1 DEF OrderOfCatalogsIsImmaterial
<1> QED BY <1>2, CandidatesInvariant, PTL

-----------------------------------------------------------------------------
(* What localize finds.                                                    *)

(* Once all are matched, the rows that select_coincidences keeps of an     *)
(* alert are its coincidences.                                             *)
LEMMA SelectedAreCoincident ==
  ASSUME Localizing, toMatch = {}, DOMAIN placed \subseteq Alerts, NEW i \in DOMAIN placed
  PROVE  (\E r \in select_coincidences : r.key = i)
           <=> \E e \in Superevents, l \in Cosmologies : Coincident(i, e, l)
<1>1. pairs = Matches /\ EventsTyped /\ spatial = UNION {RowsOf(e) : e \in EventsOf(pairs)}
  BY DEF Localizing
<1>2. AlertInfo[i].time \in Int \cup {None} /\ window_days \in Nat
  BY CandidatesAssumption
<1>3. \A e \in Superevents : events[e].gw_time \in Int \cup {None}
                             /\ events[e].map \in {"missing", "unreadable", "flat", "3d"}
  BY <1>1, EventIs DEF EventRow
<1>4. ASSUME NEW r \in select_coincidences, r.key = i
      PROVE  \E e \in Superevents, l \in Cosmologies : Coincident(i, e, l)
  <2>1. /\ r \in spatial /\ r.status = "ok" /\ r.inside_3d
        /\ require_2d_credible_level => r.inside_2d
    BY DEF select_coincidences
  <2>2. PICK e \in EventsOf(pairs) : r \in RowsOf(e)
    BY <1>1, <2>1
  <2>3. e \in Superevents
    BY <1>1, <2>2, MatchIs DEF EventsOf
  <2>4. events[e].map = "3d"
    BY <1>3, <2>1, <2>2, <2>3 DEF RowsOf, FailedRow, SpatialRow
  <2>5. PICK p \in PairsOf(e), l \in Cosmologies : r = Measured(p, l)
    BY <2>2, <2>4 DEF RowsOf
  <2>6. p.row = p.key /\ p.event = e /\ p.row \in gw_match_input /\ InWindow(events, p.row, e)
    BY <1>1, <2>5, MatchIs DEF PairsOf
  <2>7. l \notin events[e].raises
    BY <2>1, <2>5, <2>6 DEF Measured, FailedRow, SpatialRow
  <2>8. r = SpatialRow(p, l, "ok", <<p.row, l>> \in events[e].volume, p.row \in events[e].area)
    BY <2>5, <2>6, <2>7 DEF Measured
  <2>9. r.key = p.key /\ (r.inside_3d <=> <<p.row, l>> \in events[e].volume)
        /\ (r.inside_2d <=> p.row \in events[e].area)
    BY <2>8 DEF SpatialRow
  <2>10. p.row = i
    BY <2>6, <2>9, <1>4
  <2>11. Coincident(i, e, l)
    BY <1>2, <1>3, <2>1, <2>3, <2>4, <2>6, <2>7, <2>9, <2>10 DEF Coincident, InWindow, gw_match_input
  <2> QED BY <2>3, <2>11
<1>5. ASSUME NEW e \in Superevents, NEW l \in Cosmologies, Coincident(i, e, l)
      PROVE  \E r \in select_coincidences : r.key = i
  <2>1. i \in gw_match_input /\ InWindow(events, i, e)
    BY <1>2, <1>3, <1>5 DEF Coincident, gw_match_input, InWindow
  <2> DEFINE p == Pair(i, e)
             r == Measured(p, l)
  <2>2. p \in PairsOf(e) /\ e \in EventsOf(pairs)
    BY <1>1, <2>1, MatchOf DEF PairsOf, EventsOf, Pair
  <2>3. p.row = i /\ p.key = i /\ p.event = e
    BY DEF Pair, AlertKey
  <2> HIDE DEF p
  <2>4. r \in spatial
    BY <1>1, <1>5, <2>2 DEF RowsOf, Coincident
  <2>5. r = SpatialRow(p, l, "ok", <<i, l>> \in events[e].volume, i \in events[e].area)
    BY <1>5, <2>3 DEF Measured, Coincident
  <2> HIDE DEF r
  <2>6. r.key = i /\ r.status = "ok" /\ (r.inside_3d <=> <<i, l>> \in events[e].volume)
        /\ (r.inside_2d <=> i \in events[e].area)
    BY <2>3, <2>5 DEF SpatialRow
  <2>7. r \in select_coincidences
    BY <1>5, <2>4, <2>6 DEF select_coincidences, Coincident
  <2> QED BY <2>6, <2>7
<1> QED BY <1>4, <1>5

(* What localize finds are the placed alerts that lie in time, and under   *)
(* one cosmology in volume, within one superevent; neither gaps in the     *)
(* rows nor maps that fail have a say in it.                               *)
THEOREM CandidatesFound == Spec => []CandidatesAreCoincident
<1>1. Init => CandidatesAreCoincident
  BY DEF Init, CandidatesAreCoincident
<1>2. ASSUME CandidatesInv, CandidatesInv', CandidatesAreCoincident, [Next]_vars
      PROVE  CandidatesAreCoincident'
  <2>1. CASE AttachLocalizations
    <3>1. Localizing /\ toMatch = {} /\ found = <<>>
      BY <1>2, <2>1 DEF AttachLocalizations, CandidatesInv, NotLocalized, Localizing
    <3>2. DOMAIN placed \subseteq Alerts
      BY <1>2, PlacedAreAlerts
    <3>3. found'["localize"] = {i \in DOMAIN placed : \E r \in select_coincidences : r.key = i}
      BY <2>1, <3>1 DEF AttachLocalizations, Keep
    <3>4. found'["localize"] =
            {i \in DOMAIN placed : \E e \in Superevents, l \in Cosmologies : Coincident(i, e, l)}
      BY <3>1, <3>2, <3>3, SelectedAreCoincident
    <3> QED BY <2>1, <3>4 DEF AttachLocalizations, CandidatesAreCoincident, Coincident, given
  <2>2. ASSUME UNCHANGED <<given, events, placed>>,
               "localize" \in DOMAIN found' =>
                 "localize" \in DOMAIN found /\ found'["localize"] = found["localize"]
        PROVE  CandidatesAreCoincident'
    BY <1>2, <2>2 DEF CandidatesAreCoincident, Coincident, given
  <2>3. CASE RunCutFilter
    <3>1. CutFilter.name # "localize"
      BY <1>2, <2>3, FilterInTurn, CutFiltersAre DEF RunCutFilter, CandidatesInv
    <3> QED BY <2>2, <2>3, <3>1 DEF RunCutFilter, Keep
  <2>4. CASE Crossmatch \/ CutColumnMissing
    BY <2>2, <2>4 DEF Crossmatch, CutColumnMissing
  <2>5. ASSUME NEW e \in Superevents, SkymapFails(e) \/ SpatialCrossmatch(e)
        PROVE  CandidatesAreCoincident'
    BY <2>2, <2>5 DEF SkymapFails, SpatialCrossmatch
  <2>6. CASE AttachDistances \/ TemporalCrossmatch
    <3>1. found' = <<>>
      BY <1>2, <2>6 DEF AttachDistances, TemporalCrossmatch, CandidatesInv, NotLocalized, Localizing
    <3> QED BY <3>1 DEF CandidatesAreCoincident
  <2>7. CASE UNCHANGED vars
    BY <2>2, <2>7 DEF vars
  <2> QED BY <1>2, <2>1, <2>3, <2>4, <2>5, <2>6, <2>7 DEF Next
<1> QED BY <1>1, <1>2, CandidatesInvariant, PTL DEF Spec

-----------------------------------------------------------------------------
(* A row tells of which pair and which cosmology it is.                    *)
LEMMA RowTells ==
  ASSUME NEW p
  PROVE  /\ \A c, s : LET r == FailedRow(p, c, s)
                     IN r.key = p.key /\ r.event = p.event /\ r.cosmology = c
         /\ \A l : LET r == Measured(p, l)
                  IN r.key = p.key /\ r.event = p.event /\ r.cosmology = l
<1>1. \A c, s, a, b : /\ SpatialRow(p, c, s, a, b).key = p.key
                      /\ SpatialRow(p, c, s, a, b).event = p.event
                      /\ SpatialRow(p, c, s, a, b).cosmology = c
  BY DEF SpatialRow
<1>2. \A c, s : FailedRow(p, c, s) = SpatialRow(p, c, s, FALSE, FALSE)
  BY DEF FailedRow
<1>3. ASSUME NEW l
      PROVE  \E s, a, b : Measured(p, l) = SpatialRow(p, l, s, a, b)
  <2>1. CASE l \in events[p.event].raises
    BY <1>2, <2>1 DEF Measured
  <2>2. CASE l \notin events[p.event].raises
    BY <2>2, Zenon DEF Measured
  <2> QED BY <2>1, <2>2
<1>4. ASSUME NEW c, NEW s
      PROVE  LET r == FailedRow(p, c, s)
             IN r.key = p.key /\ r.event = p.event /\ r.cosmology = c
  BY DEF FailedRow, SpatialRow
<1>5. ASSUME NEW l
      PROVE  LET r == Measured(p, l)
             IN r.key = p.key /\ r.event = p.event /\ r.cosmology = l
  BY <1>1, <1>3
<1> QED BY <1>4, <1>5

(* The rows of one pair: none before its superevent is dealt with,         *)
LEMMA NoRowsBefore ==
  ASSUME Localizing, NEW p \in pairs, p.event \in toMatch
  PROVE  {r \in spatial : r.key = p.key /\ r.event = p.event} = {}
<1> SUFFICES ASSUME NEW r \in spatial, r.event = p.event
             PROVE  FALSE
  OBVIOUS
<1>1. PICK e \in EventsOf(pairs) \ toMatch : r \in RowsOf(e)
  BY DEF Localizing
<1>2. r.event = e
  <2>1. PICK q \in PairsOf(e) : r.event = q.event
    BY <1>1, RowTells DEF RowsOf
  <2> QED BY <2>1 DEF PairsOf
<1> QED BY <1>1, <1>2

(* and then the one that failed, or one for each cosmology.                *)
LEMMA RowsAfter ==
  ASSUME Localizing, NEW p \in pairs, p.event \notin toMatch
  PROVE  {r \in spatial : r.key = p.key /\ r.event = p.event} =
           IF events[p.event].map # "3d" THEN {FailedRow(p, None, events[p.event].map)}
           ELSE {Measured(p, l) : l \in Cosmologies}
<1> DEFINE rows == {r \in spatial : r.key = p.key /\ r.event = p.event}
           expected == IF events[p.event].map # "3d" THEN {FailedRow(p, None, events[p.event].map)}
                       ELSE {Measured(p, l) : l \in Cosmologies}
<1>1. pairs = Matches /\ p \in PairsOf(p.event) /\ p.event \in EventsOf(pairs) \ toMatch
  BY DEF Localizing, PairsOf, EventsOf
<1>2. ASSUME NEW r \in rows PROVE r \in expected
  <2>1. PICK e \in EventsOf(pairs) \ toMatch : r \in RowsOf(e)
    BY DEF Localizing
  <2>2. ASSUME NEW q \in PairsOf(e), q.key = p.key, e = p.event
        PROVE  q = p
    BY <1>1, <2>2, MatchIs DEF PairsOf
  <2>3. CASE events[e].map # "3d"
    <3>1. PICK q \in PairsOf(e) : r = FailedRow(q, None, events[e].map)
      BY <2>1, <2>3 DEF RowsOf
    <3>2. q.key = p.key /\ e = p.event
      BY <3>1, RowTells DEF PairsOf
    <3> QED BY <2>2, <2>3, <3>1, <3>2
  <2>4. CASE events[e].map = "3d"
    <3>1. PICK q \in PairsOf(e), l \in Cosmologies : r = Measured(q, l)
      BY <2>1, <2>4 DEF RowsOf
    <3>2. q.key = p.key /\ e = p.event
      BY <3>1, RowTells DEF PairsOf
    <3> QED BY <2>2, <2>4, <3>1, <3>2
  <2> QED BY <2>3, <2>4
<1>3. ASSUME NEW r \in expected PROVE r \in rows
  <2>1. r \in RowsOf(p.event)
    BY <1>1, <1>3 DEF RowsOf
  <2>2. r \in spatial
    BY <1>1, <2>1 DEF Localizing
  <2>3. r.key = p.key /\ r.event = p.event
    BY <1>3, RowTells
  <2> QED BY <2>2, <2>3
<1> QED BY <1>2, <1>3

LEMMA PairIsAccounted ==
  ASSUME Localizing, NEW p \in pairs, p.event \notin toMatch
  PROVE  LET rows == {r \in spatial : r.key = p.key /\ r.event = p.event}
             labels == {r.cosmology : r \in rows}
         IN Cardinality(rows) = Cardinality(labels) /\ labels \in {{None}, Cosmologies}
<1> DEFINE rows == {r \in spatial : r.key = p.key /\ r.event = p.event}
           labels == {r.cosmology : r \in rows}
<1>1. CASE events[p.event].map # "3d"
  <2> DEFINE row == FailedRow(p, None, events[p.event].map)
  <2>1. rows = {row}
    BY <1>1, RowsAfter
  <2>2. row.cosmology = None
    BY RowTells
  <2> HIDE DEF rows, row
  <2>3. labels = {None}
    BY <2>1, <2>2
  <2> QED BY <2>1, <2>3, FS_Singleton DEF rows
<1>2. CASE events[p.event].map = "3d"
  <2>1. rows = {Measured(p, l) : l \in Cosmologies}
    BY <1>2, RowsAfter
  <2>2. \A l \in Cosmologies : Measured(p, l).cosmology = l
    BY RowTells
  <2> HIDE DEF rows
  <2>3. labels = Cosmologies
    BY <2>1, <2>2
  <2> DEFINE f == [l \in Cosmologies |-> Measured(p, l)]
  <2>4. f \in Bijection(Cosmologies, rows)
    BY <2>1, <2>2 DEF Bijection, Injection, Surjection, IsInjective
  <2>5. Cardinality(rows) = Cardinality(Cosmologies)
    BY <2>4, FS_Bijection, CandidatesAssumption DEF ExistsBijection
  <2> QED BY <2>3, <2>5 DEF rows
<1> QED BY <1>1, <1>2

(* Once a superevent has been matched, each of its matches in time has one *)
(* row that says why its map gave nothing, or one for each cosmology.      *)
THEOREM CandidatesAccounted == Spec => []EveryPairAccounted
<1>1. ASSUME CandidatesInv PROVE EveryPairAccounted
  <2>1. CASE NotLocalized
    BY <2>1 DEF NotLocalized, EveryPairAccounted
  <2>2. CASE Localizing
    BY <2>2, NoRowsBefore, PairIsAccounted DEF EveryPairAccounted
  <2> QED BY <1>1, <2>1, <2>2 DEF CandidatesInv
<1> QED BY <1>1, CandidatesInvariant, PTL

-----------------------------------------------------------------------------
(* What the cut filters find.                                              *)

(* A cut passes no value that is missing, since it has a bound.            *)
LEMMA PassesIsPositive ==
  ASSUME NEW cut \in Cut, NEW value
  PROVE  passes(cut, value) <=>
           /\ value # None
           /\ cut.min = None \/ cut.min <= value
           /\ cut.max = None \/ value <= cut.max
           /\ cut.one_of = None \/ value \in cut.one_of
<1>1. CASE cut \in Measure /\ (cut.min # None \/ cut.max # None)
  BY <1>1 DEF Measure, passes
<1>2. CASE cut \in [column : {<<"band">>}, min : {None}, max : {None}, one_of : (SUBSET STRING) \ {{}, None}]
  <2>1. cut.min = None /\ cut.max = None /\ cut.one_of \in (SUBSET STRING) \ {{}, None}
    BY <1>2
  <2>2. cut.one_of # None /\ None \notin cut.one_of
    BY <2>1, CandidatesAssumption
  <2>3. passes(cut, value) <=> value \in cut.one_of
    BY <2>1, <2>2 DEF passes
  <2> QED BY <2>1, <2>2, <2>3
<1> QED BY <1>1, <1>2 DEF Cut

LEMMA ApplyCutsIs ==
  ASSUME NEW f \in ToSet(CutFilters), \A k \in DOMAIN f.cuts : f.cuts[k].column \in Columns
  PROVE  apply_cuts(f.cuts) = {i \in DOMAIN placed : \A cut \in ToSet(f.cuts) : Meets(i, cut)}
<1>1. f.cuts \in Seq(Cut)
  BY CutFiltersAre DEF ToSet
<1>2. \A k \in DOMAIN f.cuts : f.cuts[k] \in Cut
  BY <1>1
<1>3. ASSUME NEW i \in DOMAIN placed, NEW k \in DOMAIN f.cuts
      PROVE  passes(f.cuts[k], Value(i, f.cuts[k].column)) <=> Meets(i, f.cuts[k])
  BY <1>2, PassesIsPositive DEF Meets
<1> QED BY <1>3 DEF apply_cuts, ToSet

(* A JSON filter's candidates have been measured and found within every    *)
(* bound of every cut, and whoever it drops misses one.                    *)
THEOREM CandidatesMeetCuts == Spec => []CutsArePositive
<1>1. Init => CutsArePositive
  BY DEF Init, CutsArePositive
<1>2. ASSUME CandidatesInv, CutsArePositive, [Next]_vars
      PROVE  CutsArePositive'
  <2>1. ASSUME UNCHANGED <<given, placed>>,
               NEW f \in ToSet(CutFilters),
               f.name \in DOMAIN found, found'[f.name] = found[f.name]
        PROVE  found'[f.name] = {i \in DOMAIN placed' : \A cut \in ToSet(f.cuts) : Meets(i, cut)'}
    <3>1. \A i, cut : Meets(i, cut)' = Meets(i, cut)
      BY <2>1 DEF Meets, Value, Columns, given
    <3>2. found[f.name] = {i \in DOMAIN placed : \A cut \in ToSet(f.cuts) : Meets(i, cut)}
      BY <1>2, <2>1 DEF CutsArePositive
    <3> QED BY <2>1, <3>1, <3>2, Zenon
  <2>2. ASSUME UNCHANGED <<given, placed>>,
               \A f \in ToSet(CutFilters) : f.name \in DOMAIN found' =>
                 f.name \in DOMAIN found /\ found'[f.name] = found[f.name]
        PROVE  CutsArePositive'
    BY <2>1, <2>2 DEF CutsArePositive
  <2>3. CASE RunCutFilter
    <3>1. PICK n \in DOMAIN CutFilters : CutFilter = CutFilters[n] /\ CutFilter.name \notin DOMAIN found
      BY <1>2, <2>3, FilterInTurn DEF RunCutFilter, CandidatesInv
    <3>2. CutFilter \in ToSet(CutFilters) /\ UNCHANGED <<given, placed>>
      BY <2>3, <3>1 DEF ToSet, RunCutFilter
    <3>3. found'[CutFilter.name] = {i \in DOMAIN placed : \A cut \in ToSet(CutFilter.cuts) : Meets(i, cut)}
      BY <2>3, <3>2, ApplyCutsIs DEF RunCutFilter, Keep
    <3>4. \A i, cut : Meets(i, cut)' = Meets(i, cut)
      BY <3>2 DEF Meets, Value, Columns, given
    <3>5. ASSUME NEW f \in ToSet(CutFilters), f.name \in DOMAIN found'
          PROVE  found'[f.name] = {i \in DOMAIN placed' : \A cut \in ToSet(f.cuts) : Meets(i, cut)'}
      <4>1. CASE f.name = CutFilter.name
        <5>1. f = CutFilter
          BY <3>1, <4>1, CutFiltersAre DEF ToSet
        <5> QED BY <3>2, <3>3, <3>4, <5>1
      <4>2. CASE f.name # CutFilter.name
        BY <2>1, <2>3, <3>2, <3>5, <4>2 DEF RunCutFilter, Keep
      <4> QED BY <4>1, <4>2
    <3> QED BY <3>5 DEF CutsArePositive
  <2>4. CASE AttachLocalizations
    <3>1. found = <<>>
      BY <1>2, <2>4 DEF AttachLocalizations, CandidatesInv, NotLocalized, Localizing
    <3>2. DOMAIN found' = {"localize"}
      BY <2>4, <3>1 DEF AttachLocalizations, Keep
    <3>3. \A f \in ToSet(CutFilters) : f.name # "localize"
      BY CutFiltersAre DEF ToSet
    <3> QED BY <3>2, <3>3 DEF CutsArePositive
  <2>5. CASE Crossmatch \/ CutColumnMissing \/ TemporalCrossmatch
    BY <2>2, <2>5 DEF Crossmatch, CutColumnMissing, TemporalCrossmatch
  <2>6. ASSUME NEW e \in Superevents, SkymapFails(e) \/ SpatialCrossmatch(e)
        PROVE  CutsArePositive'
    BY <2>2, <2>6 DEF SkymapFails, SpatialCrossmatch
  <2>7. CASE AttachDistances
    <3>1. found' = <<>>
      BY <1>2, <2>7 DEF AttachDistances, CandidatesInv, NotLocalized, Localizing
    <3> QED BY <3>1 DEF CutsArePositive
  <2>8. CASE UNCHANGED vars
    BY <2>2, <2>8 DEF vars
  <2> QED BY <1>2, <2>3, <2>4, <2>5, <2>6, <2>7, <2>8 DEF Next
<1> QED BY <1>1, <1>2, CandidatesInvariant, PTL DEF Spec
=============================================================================
