----------------------------- MODULE Candidates -----------------------------
(***************************************************************************)
(* How an alert becomes a candidate: the rows of one run's frame through   *)
(* src/desi_aap/stages/crossmatch.py, distance.py, cut_filter.py and       *)
(* localize.py, with the matching of gracedb_tools.py.  Pipeline says that *)
(* a stage keeps some of its rows; this module says which.                 *)
(*                                                                         *)
(* An alert is its row.  filter_matched numbers the rows anew, which is    *)
(* not followed here: the stages behind it keep the numbers they find, so  *)
(* a stage that drops rows leaves gaps.  What comes from outside is chosen *)
(* where it is first read: the matches in Crossmatch, the scan of GraceDB  *)
(* and what its maps say in TemporalCrossmatch.  None is NaN, NaT, a null  *)
(* or an absent setting.                                                   *)
(***************************************************************************)
EXTENDS Integers, Sequences, FiniteSets, SequencesExt

CONSTANTS
  NumAlerts,    \* alerts in the frame
  AlertInfo,    \* per alert, its time, its apparent magnitude and its band
  Catalogs,     \* the configured catalogs, by name
  HostColumns,  \* per alert, what a catalog's nested column may hold for it
  min_redshift,
  Cosmologies,
  Distance, Modulus, \* per cosmology and redshift
  Superevents, \* the superevents of the scan
  EventRows,   \* per superevent, the rows the scan and its map may give
  window_days,
  CutFilters,  \* the cut filters in the order of their names, with their cuts
  None

Alerts == 1 .. NumAlerts

(* A host of the nested column, and a superevent's row with what is to be  *)
(* learned from its map: the alerts its credible area holds, the alerts    *)
(* its credible volume holds under a cosmology, and the cosmologies whose  *)
(* crossmatch raises.                                                      *)
Host == [z : Int \cup {None}, zwarn : Int \cup {None}, sep : Nat \cup {None}]

EventRow ==
  [gw_time : Int \cup {None}, map : {"missing", "unreadable", "flat", "3d"},
   area : SUBSET Alerts, volume : SUBSET (Alerts \X Cosmologies),
   raises : SUBSET Cosmologies]

(* A cut bounds a measure, at one end at least, or lists the values of a   *)
(* label.                                                                  *)
Measure ==
  [column : {"dist_mpc", "abs_mag"} \X Cosmologies,
   min : Int \cup {None}, max : Int \cup {None}, one_of : {None}]

Cut ==
  {cut \in Measure : cut.min # None \/ cut.max # None} \cup
  [column : {<<"band">>}, min : {None}, max : {None}, one_of : (SUBSET STRING) \ {{}, None}]

ASSUME CandidatesAssumption ==
  /\ NumAlerts \in Nat
  /\ AlertInfo \in [Alerts -> [time : Int \cup {None}, mag : Int \cup {None}, band : STRING \cup {None}]]
  /\ Catalogs \in Seq(STRING) /\ IsInjective(Catalogs)
  /\ \A i \in Alerts : HostColumns[i] \subseteq Seq(Host)
  /\ min_redshift \in Int /\ window_days \in Nat
  /\ IsFiniteSet(Cosmologies)
  /\ \A e \in Superevents : EventRows[e] \subseteq EventRow
  /\ CutFilters \in Seq([name : STRING \ {"localize"}, cuts : Seq(Cut) \ {<<>>}])
  /\ \A k, l \in DOMAIN CutFilters : CutFilters[k].name = CutFilters[l].name => k = l
  /\ None \notin STRING

VARIABLES
  order,    \* the catalogs in the order of the configuration
  require_2d_credible_level,
  magnitudes, \* whether the alert frame has a magnitude column
  columns,  \* per alert and catalog, the hosts in the nested column
  events,   \* per superevent, its row of the scan
  pc,       \* the stage that is next, or "done" or "failed"
  matched,  \* the rows that crossmatch kept
  placed,   \* the rows that distance kept, with the host of each
  pairs,    \* the temporal matches
  toMatch,  \* the superevents whose rows are still to be matched
  spatial,  \* the rows of the spatial match so far
  found     \* per filter that has run, the rows it kept

given == <<order, require_2d_credible_level, magnitudes>>
vars == <<given, columns, events, pc, matched, placed, pairs, toMatch, spatial, found>>

Init ==
  /\ order \in SetToSeqs(ToSet(Catalogs))
  /\ require_2d_credible_level \in BOOLEAN /\ magnitudes \in BOOLEAN
  /\ columns = <<>> /\ events = <<>>
  /\ pc = "crossmatch"
  /\ matched = {} /\ placed = <<>> /\ pairs = {} /\ toMatch = {} /\ spatial = {}
  /\ found = <<>>

(* The functions that give every x a member of its own set.                *)
EachOf(S, T(_)) == {f \in [S -> UNION {T(x) : x \in S}] : \A x \in S : f[x] \in T(x)}

-----------------------------------------------------------------------------
(* crossmatch: the alerts that matched in at least one catalog.            *)

filter_matched(matches) == {i \in Alerts : \E c \in ToSet(Catalogs) : matches[i][c] # <<>>}

(* The runner skips what follows a stage that kept nothing.                *)
Crossmatch ==
  /\ pc = "crossmatch"
  /\ columns' \in EachOf(Alerts, LAMBDA i : [ToSet(Catalogs) -> HostColumns[i]])
  /\ matched' = filter_matched(columns')
  /\ pc' = IF matched' = {} THEN "done" ELSE "distance"
  /\ UNCHANGED <<given, events, placed, pairs, toMatch, spatial, found>>

-----------------------------------------------------------------------------
(* distance: one host for each alert.                                      *)

(* A row of the pool: a host, and where in which nested column it is.      *)
HostRow(i, c, k) == [alert |-> i, catalog |-> c, place |-> k, host |-> columns[i][c][k]]

PooledHosts(catalogs) ==
  UNION {UNION {{HostRow(i, c, k) : k \in DOMAIN columns[i][c]} : c \in ToSet(catalogs)} :
           i \in matched}

Usable(h) ==
  /\ h.zwarn = 0
  /\ h.z # None /\ h.z >= min_redshift
  /\ h.sep # None

PlaceOf(c, catalogs) == CHOOSE k \in DOMAIN catalogs : catalogs[k] = c

NameRank(c) == PlaceOf(c, Catalogs)

(* Mutant: hosts at one separation stay as they were concatenated.         *)
SortsBeforeBySeparation(x, y) == x.host.sep < y.host.sep

SortsBefore(x, y) ==
  \/ x.host.sep < y.host.sep
  \/ x.host.sep = y.host.sep /\ NameRank(x.catalog) < NameRank(y.catalog)

(* The catalogs' columns are concatenated in the order they are given in.  *)
ConcatenatedBefore(x, y, catalogs) ==
  \/ PlaceOf(x.catalog, catalogs) < PlaceOf(y.catalog, catalogs)
  \/ x.catalog = y.catalog /\ x.place < y.place

(* A stable sort: what neither sorts before the other keeps its order.     *)
Precedes(x, y, catalogs) ==
  \/ SortsBefore(x, y)
  \/ ~SortsBefore(y, x) /\ ConcatenatedBefore(x, y, catalogs)

(* The first row of each alert.                                            *)
IsFirst(x, pool, catalogs) == \A y \in pool : y.alert = x.alert /\ y # x => Precedes(x, y, catalogs)

FirstOfEach(pool, catalogs) ==
  [i \in {x.alert : x \in pool} |->
     CHOOSE x \in pool : x.alert = i /\ IsFirst(x, pool, catalogs)]

(* Mutant: the nearest host is picked first and then has to be usable.     *)
nearest_hosts_then_cut(catalogs) ==
  LET nearest == FirstOfEach({x \in PooledHosts(catalogs) : x.host.sep # None}, catalogs)
  IN [i \in {i \in DOMAIN nearest : Usable(nearest[i].host)} |-> nearest[i]]

(* The exception for a catalog that lacks a redshift column is left out.   *)
nearest_hosts(catalogs) ==
  FirstOfEach({x \in PooledHosts(catalogs) : Usable(x.host)}, catalogs)

AttachDistances ==
  /\ pc = "distance"
  /\ placed' = nearest_hosts(order)
  /\ pc' = IF DOMAIN placed' = {} THEN "done" ELSE "localize"
  /\ UNCHANGED <<given, columns, events, matched, pairs, toMatch, spatial, found>>

-----------------------------------------------------------------------------
(* The columns of a placed row that a cut may name.                        *)

Columns ==
  {<<"band">>} \cup ((IF magnitudes THEN {"dist_mpc", "abs_mag"} ELSE {"dist_mpc"}) \X Cosmologies)

(* The absolute magnitude is missing where the apparent one is.            *)
Value(i, column) ==
  LET z == placed[i].host.z
  IN CASE column[1] = "band"     -> AlertInfo[i].band
       [] column[1] = "dist_mpc" -> Distance[column[2]][z]
       [] column[1] = "abs_mag"  -> IF AlertInfo[i].mag = None THEN None
                                    ELSE AlertInfo[i].mag - Modulus[column[2]][z]

(* Mutant: a row is dropped for a value out of bounds, not for want of one.*)
passes_unless_outside(cut, value) ==
  /\ cut.min # None /\ value # None => value >= cut.min
  /\ cut.max # None /\ value # None => value <= cut.max
  /\ cut.one_of # None => value \in cut.one_of

(* Both bounds are inclusive, and a missing value fails them.              *)
passes(cut, value) ==
  /\ cut.min # None => value # None /\ value >= cut.min
  /\ cut.max # None => value # None /\ value <= cut.max
  /\ cut.one_of # None => value \in cut.one_of

apply_cuts(cuts) ==
  {i \in DOMAIN placed : \A k \in DOMAIN cuts : passes(cuts[k], Value(i, cuts[k].column))}

Keep(f, rows) == [g \in DOMAIN found \cup {f} |-> IF g = f THEN rows ELSE found[g]]

(* The filters run in turn, localize before them.                          *)
CutFilter == CutFilters[Cardinality(DOMAIN found)]

RunCutFilter ==
  /\ pc = "cut_filters"
  /\ \A k \in DOMAIN CutFilter.cuts : CutFilter.cuts[k].column \in Columns
  /\ found' = Keep(CutFilter.name, apply_cuts(CutFilter.cuts))
  /\ pc' = IF CutFilter = Last(CutFilters) THEN "done" ELSE pc
  /\ UNCHANGED <<given, columns, events, matched, placed, pairs, toMatch, spatial>>

(* A cut on a column the frame does not have ends the run.                 *)
CutColumnMissing ==
  /\ pc = "cut_filters"
  /\ \E k \in DOMAIN CutFilter.cuts : CutFilter.cuts[k].column \notin Columns
  /\ pc' = "failed"
  /\ UNCHANGED <<given, columns, events, matched, placed, pairs, toMatch, spatial, found>>

-----------------------------------------------------------------------------
(* localize: the alerts in time with a superevent, then those inside its   *)
(* volume.  The alert's row goes along as a key.  An alert's time is None  *)
(* when its time or its position cannot be read.                           *)

gw_match_input == {i \in DOMAIN placed : AlertInfo[i].time # None}

(* Mutant: the key is the place in the table, which has no gaps.           *)
AlertPlace(i) == Cardinality({j \in gw_match_input : j <= i})

AlertKey(i) == i

Pair(i, e) == [row |-> i, key |-> AlertKey(i), event |-> e]

InWindow(scan, i, e) ==
  /\ scan[e].gw_time # None
  /\ AlertInfo[i].time \in scan[e].gw_time - window_days .. scan[e].gw_time + window_days

TemporalCrossmatch ==
  /\ pc = "localize"
  /\ events' \in EachOf(Superevents, LAMBDA e : EventRows[e])
  /\ pairs' = {Pair(p[1], p[2]) :
                 p \in {q \in gw_match_input \X Superevents : InWindow(events', q[1], q[2])}}
  /\ toMatch' = {p.event : p \in pairs'}
  /\ pc' = "spatial"
  /\ UNCHANGED <<given, columns, matched, placed, spatial, found>>

PairsOf(e) == {p \in pairs : p.event = e}

SpatialRow(p, cosmology, status, inside3d, inside2d) ==
  [key |-> p.key, event |-> p.event, cosmology |-> cosmology, status |-> status,
   inside_3d |-> inside3d, inside_2d |-> inside2d]

(* Mutant: a row that was not measured has no flags.                       *)
FailedRowWithoutFlags(p, cosmology, status) == SpatialRow(p, cosmology, status, None, None)

FailedRow(p, cosmology, status) == SpatialRow(p, cosmology, status, FALSE, FALSE)

(* Mutant: the failed rows are left out.                                   *)
SkymapSkipped(e) ==
  /\ pc = "spatial" /\ e \in toMatch /\ events[e].map # "3d"
  /\ toMatch' = toMatch \ {e}
  /\ UNCHANGED <<given, columns, events, pc, matched, placed, pairs, spatial, found>>

(* A map that is not there, cannot be read or has no distances fails all   *)
(* of the superevent's rows, and the loop goes on.  A superevent's rows    *)
(* are its own, so the order of the superevents is left open.              *)
SkymapFails(e) ==
  /\ pc = "spatial" /\ e \in toMatch /\ events[e].map # "3d"
  /\ spatial' = spatial \cup {FailedRow(p, None, events[e].map) : p \in PairsOf(e)}
  /\ toMatch' = toMatch \ {e}
  /\ UNCHANGED <<given, columns, events, pc, matched, placed, pairs, found>>

(* One crossmatch for each cosmology; one that raises fails its own rows.  *)
Measured(p, l) ==
  IF l \in events[p.event].raises THEN FailedRow(p, l, "crossmatch_failed")
  ELSE SpatialRow(p, l, "ok", <<p.row, l>> \in events[p.event].volume,
                              p.row \in events[p.event].area)

(* Every row has a finite distance by now, since nearest_hosts placed it,  *)
(* so the loop leaves none of them out.  The positions are the survey's    *)
(* own, and building their SkyCoord, outside of the try, does not raise.   *)
SpatialCrossmatch(e) ==
  /\ pc = "spatial" /\ e \in toMatch /\ events[e].map = "3d"
  /\ spatial' = spatial \cup {Measured(p, l) : p \in PairsOf(e), l \in Cosmologies}
  /\ toMatch' = toMatch \ {e}
  /\ UNCHANGED <<given, columns, events, pc, matched, placed, pairs, found>>

select_coincidences ==
  {r \in spatial : /\ r.status = "ok" /\ r.inside_3d
                   /\ require_2d_credible_level => r.inside_2d}

(* The matches are joined to the placed rows by the key.                   *)
AttachLocalizations ==
  /\ pc = "spatial" /\ toMatch = {}
  /\ found' = Keep("localize", {i \in DOMAIN placed : \E r \in select_coincidences : r.key = i})
  /\ pc' = IF CutFilters = <<>> THEN "done" ELSE "cut_filters"
  /\ UNCHANGED <<given, columns, events, matched, placed, pairs, toMatch, spatial>>

-----------------------------------------------------------------------------
Next ==
  \/ Crossmatch \/ AttachDistances
  \/ TemporalCrossmatch
  \/ \E e \in Superevents : SkymapFails(e) \/ SpatialCrossmatch(e)
  \/ AttachLocalizations
  \/ RunCutFilter \/ CutColumnMissing

Spec == Init /\ [][Next]_vars

-----------------------------------------------------------------------------
(* Every variable keeps its type; in particular each row of the spatial    *)
(* match has both of its flags (failed_spatial_rows), and no alert is      *)
(* placed at a redshift that is missing or too small (nearest_hosts).      *)
TypeOK ==
  /\ order \in SetToSeqs(ToSet(Catalogs))
  /\ require_2d_credible_level \in BOOLEAN /\ magnitudes \in BOOLEAN
  /\ columns # <<>> => columns \in EachOf(Alerts, LAMBDA i : [ToSet(Catalogs) -> HostColumns[i]])
  /\ events # <<>> => events \in EachOf(Superevents, LAMBDA e : EventRows[e])
  /\ pc \in {"crossmatch", "distance", "localize", "spatial", "cut_filters", "done", "failed"}
  /\ DOMAIN placed \subseteq matched /\ matched \subseteq Alerts
  /\ \A i \in DOMAIN placed : placed[i].alert = i /\ Usable(placed[i].host)
  /\ pairs \subseteq [row : DOMAIN placed, key : DOMAIN placed, event : Superevents]
  /\ toMatch \subseteq Superevents
  /\ spatial \subseteq
       [key : DOMAIN placed, event : Superevents, cosmology : Cosmologies \cup {None},
        status : {"missing", "unreadable", "flat", "crossmatch_failed", "ok"},
        inside_3d : BOOLEAN, inside_2d : BOOLEAN]
  /\ \A f \in DOMAIN found : found[f] \subseteq DOMAIN placed

(* An alert is placed exactly when one of its hosts, in whatever catalog,  *)
(* has a sound redshift, and then at the nearest of those: a nearer host   *)
(* with a poor fit does not cost the alert its place (nearest_hosts).      *)
UsableHosts(i) ==
  {x \in PooledHosts(Catalogs) : x.alert = i /\ Usable(x.host)}

HostIsNearestUsable ==
  pc \notin {"crossmatch", "distance"} =>
    /\ DOMAIN placed = {i \in Alerts : UsableHosts(i) # {}}
    /\ \A i \in DOMAIN placed :
         placed[i] \in UsableHosts(i) /\ \A x \in UsableHosts(i) : placed[i].host.sep <= x.host.sep

(* The configuration's order of the catalogs does not decide the redshift  *)
(* of an alert, not even between two hosts at one separation (the comment  *)
(* on the sort in nearest_hosts).                                          *)
OrderOfCatalogsIsImmaterial ==
  pc = "localize" => \A o \in SetToSeqs(ToSet(Catalogs)) : nearest_hosts(o) = placed

(* What localize finds are the placed alerts that lie, in time and under   *)
(* one and the same cosmology in volume, within one and the same           *)
(* superevent; the numbers of other rows and other superevents that fail   *)
(* have no say in it (the chain from alerts_to_gw_match_input to           *)
(* attach_localizations).                                                  *)
Coincident(i, e, l) ==
  /\ AlertInfo[i].time # None /\ events[e].gw_time # None
  /\ events[e].gw_time - window_days <= AlertInfo[i].time
  /\ AlertInfo[i].time <= events[e].gw_time + window_days
  /\ events[e].map = "3d" /\ l \notin events[e].raises
  /\ <<i, l>> \in events[e].volume
  /\ require_2d_credible_level => i \in events[e].area

CandidatesAreCoincident ==
  "localize" \in DOMAIN found =>
    found["localize"] =
      {i \in DOMAIN placed : \E e \in Superevents, l \in Cosmologies : Coincident(i, e, l)}

(* Once a superevent has been matched, each of its temporal matches is     *)
(* accounted for: by one row that says why its map gave nothing, or by one *)
(* row for each cosmology (run_3d_spatial_crossmatch).                     *)
EveryPairAccounted ==
  \A p \in pairs :
    LET rows == {r \in spatial : r.key = p.key /\ r.event = p.event}
        labels == {r.cosmology : r \in rows}
    IN IF p.event \in toMatch THEN rows = {}
       ELSE Cardinality(rows) = Cardinality(labels) /\ labels \in {{None}, Cosmologies}

(* A JSON filter's candidates have been measured and found within every    *)
(* bound, and whoever it drops misses one; an alert without a magnitude is *)
(* no candidate of a filter on brightness, and a frame without any         *)
(* magnitudes lets no such filter run (CutSpec.mask, attach_distances).    *)
Meets(i, cut) ==
  /\ cut.column \in Columns
  /\ LET value == Value(i, cut.column)
     IN /\ value # None
        /\ cut.min = None \/ cut.min <= value
        /\ cut.max = None \/ value <= cut.max
        /\ cut.one_of = None \/ value \in cut.one_of

CutsArePositive ==
  \A f \in ToSet(CutFilters) : f.name \in DOMAIN found =>
    found[f.name] = {i \in DOMAIN placed : \A cut \in ToSet(f.cuts) : Meets(i, cut)}
=============================================================================
