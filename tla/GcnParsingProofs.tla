--------------------------- MODULE GcnParsingProofs ---------------------------
(***************************************************************************)
(* Proofs about what becomes of a body, for any bodies: that a superevent  *)
(* which LVK has withdrawn shows no map, from what parse_notice makes of   *)
(* an igwn.gwalert body, through the ranking of the store, to latest.json  *)
(* and latest.fits; and that nothing a body locates is lost on the way     *)
(* from its objects to the maps on record.                                 *)
(***************************************************************************)
EXTENDS GcnParsing, GcnListenerProofs, FiniteSetTheorems

(* Only igwn.gwalert is filed under gw.                                    *)
LEMMA RouteIs ==
  \A topic : /\ Route(topic) = <<Route(topic)[1], Route(topic)[2]>>
             /\ Route(topic)[1] = "gw" <=> topic = IGWN_GWALERT
<1> SUFFICES ASSUME NEW topic
             PROVE  /\ Route(topic) = <<Route(topic)[1], Route(topic)[2]>>
                    /\ Route(topic)[1] = "gw" <=> topic = IGWN_GWALERT
  OBVIOUS
<1>1. CASE topic = IGWN_GWALERT
  BY <1>1 DEF Route, IGWN_GWALERT, LVK_NU_TRACK_SEARCH, BOOM
<1>2. CASE topic # IGWN_GWALERT
  <2>1. Route(topic) \in {<<"grb", "einstein_probe_wxt">>, <<"grb", "swift_bat_guano">>,
                         <<"neutrino", "icecube_gold_bronze">>,
                         <<"neutrino", "icecube_lvk_nu_track_search">>,
                         <<"optical", "boom">>, <<"grb", "unknown">>}
    BY <1>2 DEF Route, IGWN_GWALERT, LVK_NU_TRACK_SEARCH, BOOM
  <2> QED BY <1>2, <2>1
<1> QED BY <1>1, <1>2

(* A notice is filed under the route of its topic.                         *)
LEMMA FiledUnder ==
  ASSUME NEW n \in ParsedNotices
  PROVE  EventOf(n)[1] = "gw" <=> Body[n].topic = IGWN_GWALERT
<1> DEFINE parsed == Parser(Body[n].topic, Body[n].payload)
<1>1. NoticeInfo[n] = [parsed EXCEPT !.event = Append(Route(Body[n].topic), @)]
  BY BodyAssumption DEF parse_notice
<1>2. "event" \in DOMAIN NoticeInfo[n]
  BY NoticesAssumption DEF NoticeRecord
<1> HIDE DEF parsed
<1>3. EventOf(n) = Append(Route(Body[n].topic), parsed.event)
  BY <1>1, <1>2 DEF EventOf
<1>4. Route(Body[n].topic) = <<Route(Body[n].topic)[1], Route(Body[n].topic)[2]>>
  BY RouteIs
<1>5. EventOf(n)[1] = Route(Body[n].topic)[1]
  BY <1>3, <1>4
<1> QED BY <1>5, RouteIs

(* IGWN numbers no notices, so that they rank by their alert types.        *)
LEMMA ParsedIs ==
  ASSUME NEW n \in ParsedNotices, Body[n].topic = IGWN_GWALERT
  PROVE  /\ NoticeInfo[n].record_number = MISSING_RECORD_NUMBER
         /\ NoticeInfo[n].alert_type = normalize_alert_type(Get(Body[n].payload, "alert_type"))
<1> DEFINE parsed == Parser(Body[n].topic, Body[n].payload)
<1>1. NoticeInfo[n] = [parsed EXCEPT !.event = Append(Route(Body[n].topic), @)]
  BY BodyAssumption DEF parse_notice
<1>2. parsed = parse_igwn_gwalert(Body[n].payload)
  BY DEF Parser, IGWN_GWALERT, LVK_NU_TRACK_SEARCH, BOOM
<1>3. /\ parsed.record_number = MISSING_RECORD_NUMBER
      /\ parsed.alert_type = normalize_alert_type(Get(Body[n].payload, "alert_type"))
      /\ DOMAIN parsed = {"event", "alert_type", "record_number", "notice_time", "localizations"}
  <2>1. \A name, payload, number, time, localizations :
          LET p == Parsed(name, payload, number, time, localizations)
          IN /\ p.record_number = number
             /\ p.alert_type = normalize_alert_type(Get(payload, "alert_type"))
             /\ DOMAIN p = {"event", "alert_type", "record_number", "notice_time", "localizations"}
    BY DEF Parsed
  <2> QED BY <1>2, <2>1 DEF parse_igwn_gwalert
<1> HIDE DEF parsed
<1> QED BY <1>1, <1>3

(* Of notices without a number, a retraction is outranked by nothing but   *)
(* another retraction.                                                     *)
LEMMA RetractionIsLatest ==
  ASSUME NEW n \in ParsedNotices, NEW m \in ParsedNotices,
         NoticeInfo[n].record_number = NoticeInfo[m].record_number, is_retraction(n),
         ~ KeyLess(SortKey(m), SortKey(n))
  PROVE  is_retraction(m)
<1>1. NoticeInfo[m] \in NoticeRecord /\ NoticeInfo[n] \in NoticeRecord
  BY NoticesAssumption
<1>2. NoticeInfo[m].alert_type \in AlertTypes
  BY <1>1 DEF NoticeRecord
<1>3. alert_type_rank("retraction") = 5
  BY DEF alert_type_rank, ALERT_TYPE_RANK
<1>4. \A t \in AlertTypes : t # "retraction" => alert_type_rank(t) \in -1 .. 4
  BY DEF alert_type_rank, ALERT_TYPE_RANK, AlertTypes, UNKNOWN_ALERT_TYPE_RANK
<1>5. ~ (alert_type_rank(NoticeInfo[m].alert_type) < alert_type_rank(NoticeInfo[n].alert_type))
  BY DEF KeyLess, SortKey
<1> QED BY <1>2, <1>3, <1>4, <1>5 DEF is_retraction

(* A superevent never reads as live once it has been withdrawn: while      *)
(* nothing fails, no map is shown of an event in whose history a body says *)
(* so, in whatever order its notices came.                                 *)
THEOREM RetractionIsFinal == StoreSpec => []RetractionWithdraws
<1>1. ASSUME FileInv, StoreAgrees
      PROVE  RetractionWithdraws
  <2> SUFFICES ASSUME faults = 0, Settled, NEW e \in Events, NEW j \in DOMAIN history[e],
                      Body[history[e][j].notice].topic = IGWN_GWALERT,
                      Get(Body[history[e][j].notice].payload, "alert_type") = "RETRACTION"
               PROVE  latest[e].latest_skymap = None /\ latest_fits[e] = None
    BY DEF RetractionWithdraws
  <2>1. history[e] \in Seq(Entry)
    BY <1>1 DEF FileInv, TypeInv, StoreTypeOK
  <2>2. \A i \in DOMAIN history[e] : /\ history[e][i].notice \in ParsedNotices
                                    /\ EventOf(history[e][i].notice) = e
    <3>1. \A i \in DOMAIN history[e] : history[e][i] \in Entry
      BY <2>1
    <3> QED BY <3>1, <1>1 DEF FileInv, EntriesOK, Entry
  <2>3. history[e] # <<>>
    OBVIOUS
  <2>4. latest[e] \in PointersOf(history[e]) /\ latest_fits[e] = latest[e].latest_skymap
    BY <1>1, <2>3 DEF StoreAgrees
  <2>5. PICK i \in DOMAIN history[e] : latest[e].notice = history[e][i].notice
    BY <2>4 DEF PointersOf
  <2> DEFINE n == history[e][j].notice
             m == history[e][i].notice
  <2>6. n \in ParsedNotices /\ m \in ParsedNotices
    BY <2>2
  <2>7. Body[m].topic = IGWN_GWALERT
    BY <2>2, <2>6, FiledUnder
  <2>8. NoticeInfo[n].record_number = NoticeInfo[m].record_number /\ is_retraction(n)
    <3>1. normalize_alert_type("RETRACTION") = "retraction"
      BY DEF normalize_alert_type, LowerCase, ALERT_TYPE_RANK
    <3> QED BY <2>6, <2>7, <3>1, ParsedIs DEF is_retraction
  <2>9. ~ KeyLess(SortKey(m), SortKey(n))
    BY <2>1, <2>4, <2>5, PointerIsBest
  <2>10. is_retraction(latest[e].notice)
    BY <2>5, <2>6, <2>8, <2>9, RetractionIsLatest
  <2>11. latest[e].latest_skymap = None
    BY <2>4, <2>10 DEF PointersOf, IsLatestSkymap
  <2> QED BY <2>4, <2>11
<1> QED BY <1>1, FileInvariant, StoreAgreesWithItself, PTL

-----------------------------------------------------------------------------
(* What is left out of an array, and what is not.                          *)

Places(s) == {k \in DOMAIN s : s[k] # None}

(* Where the entry at place k of s comes to stand in Present(s).           *)
Rank(s, k) == Cardinality({i \in Places(s) : i <= k})

(* Later entries come to stand later.                                      *)
LEMMA RankGrows ==
  ASSUME NEW s, DOMAIN s \subseteq Nat, IsFiniteSet(DOMAIN s),
         NEW j \in Places(s), NEW k \in Places(s), j < k
  PROVE  Rank(s, j) < Rank(s, k)
<1> DEFINE upto(m) == {i \in Places(s) : i <= m}
<1>1. Places(s) \subseteq DOMAIN s
  BY DEF Places
<1>2. IsFiniteSet(upto(k))
  BY <1>1, FS_Subset
<1>3. upto(j) \subseteq upto(k) /\ upto(j) # upto(k)
  <2>1. k \in upto(k) /\ k \notin upto(j)
    BY <1>1
  <2>2. \A i \in Places(s) : i <= j => i <= k
    BY <1>1
  <2> QED BY <2>1, <2>2
<1>4. Cardinality(upto(j)) <= Cardinality(upto(k)) /\ Cardinality(upto(j)) # Cardinality(upto(k))
  BY <1>2, <1>3, FS_Subset
<1>5. Cardinality(upto(j)) \in Nat /\ Cardinality(upto(k)) \in Nat
  BY <1>2, <1>3, FS_Subset, FS_CardinalityType
<1> QED BY <1>4, <1>5 DEF Rank

(* Every entry that is not None comes to stand in a place of its own, and  *)
(* nothing else comes to stand anywhere.                                   *)
LEMMA PresentKeeps ==
  ASSUME NEW s, DOMAIN s \subseteq Nat, IsFiniteSet(DOMAIN s)
  PROVE  /\ \A k \in Places(s) : \E j \in DOMAIN Present(s) : Present(s)[j] = s[k]
         /\ \A j \in DOMAIN Present(s) : \E k \in Places(s) : Present(s)[j] = s[k]
<1> DEFINE N == Cardinality(Places(s))
           rank == [k \in Places(s) |-> Rank(s, k)]
<1>1. Places(s) \subseteq Nat /\ IsFiniteSet(Places(s)) /\ N \in Nat
  BY FS_Subset, FS_CardinalityType DEF Places
<1>2. Present(s) = [j \in 1 .. N |-> s[CHOOSE k \in Places(s) : Rank(s, k) = j]]
  BY DEF Present, Places, Rank
<1>3. \A k \in Places(s) : Rank(s, k) \in 1 .. N
  <2> SUFFICES ASSUME NEW k \in Places(s) PROVE Rank(s, k) \in 1 .. N
    OBVIOUS
  <2> DEFINE upto == {i \in Places(s) : i <= k}
  <2>1. upto \subseteq Places(s) /\ k \in upto
    BY <1>1
  <2>2. IsFiniteSet(upto) /\ Cardinality(upto) <= N /\ Cardinality(upto) \in Nat
    BY <1>1, <2>1, FS_Subset, FS_CardinalityType
  <2>3. Cardinality(upto) # 0
    BY <2>1, <2>2, FS_EmptySet
  <2> QED BY <1>1, <2>2, <2>3 DEF Rank
<1>4. \A j, k \in Places(s) : Rank(s, j) = Rank(s, k) => j = k
  <2> SUFFICES ASSUME NEW j \in Places(s), NEW k \in Places(s), Rank(s, j) = Rank(s, k), j # k
               PROVE  FALSE
    OBVIOUS
  <2>1. Rank(s, j) \in Nat
    BY <1>1, <1>3
  <2>2. j < k \/ k < j
    BY <1>1
  <2>3. Rank(s, j) < Rank(s, k) \/ Rank(s, k) < Rank(s, j)
    BY <2>2, RankGrows
  <2> QED BY <2>1, <2>3
<1>5. \A j \in 1 .. N : \E k \in Places(s) : Rank(s, k) = j
  <2>1. rank \in [Places(s) -> 1 .. N] /\ \A j, k \in Places(s) : rank[j] = rank[k] => j = k
    BY <1>3, <1>4
  <2> HIDE DEF rank, N
  <2>2. rank \in Injection(Places(s), 1 .. N)
    BY <2>1 DEF Injection, IsInjective
  <2>3. IsFiniteSet(1 .. N) /\ Cardinality(1 .. N) = N
    BY <1>1, FS_Interval
  <2>4. rank \in Surjection(Places(s), 1 .. N)
    BY <1>1, <2>2, <2>3, FS_Injection DEF N
  <2> QED BY <2>4 DEF Surjection, rank
<1>6. \A k \in Places(s) : (CHOOSE i \in Places(s) : Rank(s, i) = Rank(s, k)) = k
  BY <1>4
<1>7. \A k \in Places(s) : Present(s)[Rank(s, k)] = s[k]
  <2> SUFFICES ASSUME NEW k \in Places(s) PROVE Present(s)[Rank(s, k)] = s[k]
    OBVIOUS
  <2>1. Present(s)[Rank(s, k)] = s[CHOOSE i \in Places(s) : Rank(s, i) = Rank(s, k)]
    BY <1>2, <1>3
  <2> QED BY <1>6, <2>1
<1>8. DOMAIN Present(s) = 1 .. N
  BY <1>2
<1> QED BY <1>3, <1>5, <1>7, <1>8

-----------------------------------------------------------------------------
(* The localizations of a body.                                            *)

(* A localization that may not be lost: a real map is made of one that     *)
(* says so, and some map, or an exception, of it in any case.              *)
NotLost(obj, loc) ==
  /\ IsMapped(obj) => MapSources(loc) = {"real"}
  /\ None \notin MapSources(loc)

(* The field of an object is what it says of it.                           *)
LEMMA FieldsSay ==
  ASSUME NEW obj, NEW key
  PROVE  Get(localization_fields(obj), key) = Says(obj, key)
BY DEF Get, Or, localization_fields, Says

(* The localization of an object, if it has one, carries the object's      *)
(* number and its label.                                                   *)
LEMMA LocalizationIs ==
  ASSUME NEW obj, NEW label, NEW i, parse_localization(obj, label, i) # None
  PROVE  /\ parse_localization(obj, label, i).object = i
         /\ parse_localization(obj, label, i).label = label
<1> DEFINE fields == localization_fields(obj)
           file == decode_healpix_file(Get(fields, "healpix_file"))
           url == Get(fields, "healpix_url")
<1>1. parse_localization(obj, label, i) =
        [object |-> i, label |-> label, remote |-> Remote(file, url), region |-> Region(fields)]
  BY DEF parse_localization
<1> QED BY <1>1

(* An object that carries a map or quotes a region has a localization.     *)
LEMMA ObjectLocates ==
  ASSUME NEW obj, NEW label \in Labels, NEW i \in Nat \ {0}, IsMapped(obj) \/ IsQuoted(obj)
  PROVE  /\ parse_localization(obj, label, i) # None
         /\ NotLost(obj, parse_localization(obj, label, i))
<1> DEFINE fields == localization_fields(obj)
           file == decode_healpix_file(Get(fields, "healpix_file"))
           url == Get(fields, "healpix_url")
           loc == [object |-> i, label |-> label,
                   remote |-> Remote(file, url), region |-> Region(fields)]
<1>1. None # "fits" /\ None \notin {"real", "synthesized", "raise"} /\ None \notin Localization
  BY NoneAssumption, BodyAssumption
<1>2. IsMapped(obj) => file = "fits"
  BY FieldsSay DEF IsMapped, decode_healpix_file
<1>3. IsQuoted(obj) => Get(fields, "ra") # None /\ has_error_region(fields)
  BY FieldsSay DEF IsQuoted, has_error_region, has_point
<1>4. parse_localization(obj, label, i) = loc
  <2> DEFINE ra == Get(fields, "ra")
             dec == Get(fields, "dec")
  <2>1. file # None \/ ra # None
    BY <1>1, <1>2, <1>3
  <2> HIDE DEF file, ra, dec, url
  <2>2. ~ (<<ra, dec, file, url>> = <<None, None, None, None>>)
    BY <2>1
  <2> QED BY <2>2 DEF parse_localization, fields, file, ra, dec, url, loc
<1>5. IsMapped(obj) => loc.remote = "inline"
  <2> HIDE DEF file, url
  <2>1. file = "fits" => Remote(file, url) = "inline"
    BY <1>1 DEF Remote
  <2> QED BY <1>2, <2>1
<1> HIDE DEF fields
<1>6. loc.remote \in {"inline", "url", "none"} /\ loc.region \in {"quoted", "refused", "none"}
  BY DEF Remote, Region
<1>7. IsQuoted(obj) => loc.region # "none"
  BY <1>3 DEF Region
<1>8. loc \in Localization
  BY <1>6 DEF Localization
<1>9. NotLost(obj, loc)
  <2> HIDE DEF loc
  <2>1. IsMapped(obj) => MapSources(loc) = {"real"}
    BY <1>5 DEF MapSources
  <2>2. loc.region # "none" => None \notin Fallback(loc)
    BY <1>1, <1>6 DEF Fallback
  <2>3. loc.remote = "inline" \/ loc.region # "none"
    BY <1>5, <1>7
  <2>4. None \notin MapSources(loc)
    BY <1>1, <1>6, <2>2, <2>3 DEF MapSources
  <2> QED BY <2>1, <2>4 DEF NotLost
<1> QED BY <1>1, <1>4, <1>8, <1>9

(* What must not be lost of an array of objects.                           *)
Located(objs) == {k \in DOMAIN objs : IsMapped(objs[k]) \/ IsQuoted(objs[k])}

(* Each of those objects has a localization, and each localization is of   *)
(* an object and bears its label.                                          *)
AllKept(objs, labels, locs) ==
  /\ \A k \in Located(objs) :
       \E l \in DOMAIN locs : locs[l].object = k /\ NotLost(objs[k], locs[l])
  /\ \A l \in DOMAIN locs :
       locs[l].object \in DOMAIN objs /\ locs[l].label = labels[locs[l].object]

(* If s has what is to be kept of the objects, in their places, then       *)
(* Present(s) keeps it.                                                    *)
LEMMA PresentKeepsAll ==
  ASSUME NEW objs, NEW labels, NEW s, DOMAIN s = DOMAIN objs,
         DOMAIN s \subseteq Nat, IsFiniteSet(DOMAIN s),
         \A k \in Located(objs) : s[k] # None /\ NotLost(objs[k], s[k]),
         \A k \in Places(s) : s[k].object = k /\ s[k].label = labels[k]
  PROVE  AllKept(objs, labels, Present(s))
<1>1. Located(objs) \subseteq Places(s) /\ Places(s) \subseteq DOMAIN objs
  BY DEF Located, Places
<1>2. ASSUME NEW k \in Located(objs)
      PROVE  \E l \in DOMAIN Present(s) : /\ Present(s)[l].object = k
                                          /\ NotLost(objs[k], Present(s)[l])
  <2>1. PICK l \in DOMAIN Present(s) : Present(s)[l] = s[k]
    BY <1>1, PresentKeeps
  <2> QED BY <1>1, <2>1
<1>3. ASSUME NEW l \in DOMAIN Present(s)
      PROVE  /\ Present(s)[l].object \in DOMAIN objs
             /\ Present(s)[l].label = labels[Present(s)[l].object]
  <2>1. PICK k \in Places(s) : Present(s)[l] = s[k]
    BY PresentKeeps
  <2> QED BY <1>1, <2>1
<1> QED BY <1>2, <1>3 DEF AllKept

(* The null and the useless entries of an array cost the others nothing.   *)
LEMMA EachKept ==
  ASSUME NEW objs, NEW labels, Len(objs) \in Nat, DOMAIN objs = 1 .. Len(objs),
         \A k \in DOMAIN objs : labels[k] \in Labels
  PROVE  AllKept(objs, labels, ParseEach(objs, labels))
<1> DEFINE s == [i \in DOMAIN objs |->
                   IF objs[i] = None THEN None ELSE parse_localization(objs[i], labels[i], i)]
<1>1. DOMAIN s = DOMAIN objs /\ DOMAIN s \subseteq Nat /\ IsFiniteSet(DOMAIN s)
  BY FS_Interval
<1>2. \A k \in Located(objs) : s[k] # None /\ NotLost(objs[k], s[k])
  <2> SUFFICES ASSUME NEW k \in Located(objs) PROVE s[k] # None /\ NotLost(objs[k], s[k])
    OBVIOUS
  <2>1. k \in DOMAIN objs /\ (IsMapped(objs[k]) \/ IsQuoted(objs[k]))
    BY DEF Located
  <2>2. objs[k] # None /\ k \in Nat \ {0} /\ labels[k] \in Labels
    BY <2>1 DEF IsMapped, IsQuoted
  <2>3. s[k] = parse_localization(objs[k], labels[k], k)
    BY <2>1, <2>2
  <2> QED BY <2>1, <2>2, <2>3, ObjectLocates
<1>3. \A k \in Places(s) : s[k].object = k /\ s[k].label = labels[k]
  <2> SUFFICES ASSUME NEW k \in Places(s) PROVE s[k].object = k /\ s[k].label = labels[k]
    OBVIOUS
  <2>1. k \in DOMAIN objs /\ s[k] # None
    BY DEF Places
  <2>2. s[k] = parse_localization(objs[k], labels[k], k)
    BY <2>1
  <2> HIDE DEF s
  <2> QED BY <2>1, <2>2, LocalizationIs
<1>4. ParseEach(objs, labels) = Present(s)
  BY DEF ParseEach
<1> HIDE DEF s
<1> QED BY <1>1, <1>2, <1>3, <1>4, PresentKeepsAll

(* An igwn.gwalert body carries two maps at most, and quotes no region.    *)
LEMMA GwKept ==
  ASSUME NEW n \in ParsedNotices, Body[n].topic = IGWN_GWALERT
  PROVE  AllKept(Objects(Body[n]), LabelsOf(Body[n]),
                 parse_igwn_gwalert(Body[n].payload).localizations)
<1> DEFINE payload == Body[n].payload
           event == Or(Get(payload, "event"), [null |-> None])
           external == Or(Get(payload, "external_coinc"), [null |-> None])
           values == <<Get(event, "skymap"), Get(external, "combined_skymap")>>
           labels == <<None, COMBINED_SKYMAP_LABEL>>
           locate(i) == [object |-> i, label |-> labels[i], remote |-> "inline", region |-> "none"]
           s == [i \in 1 .. 2 |-> IF decode_healpix_file(values[i]) = None THEN None ELSE locate(i)]
           objs == <<[healpix_file |-> values[1]], [healpix_file |-> values[2]]>>
<1>1. parse_igwn_gwalert(payload).localizations = Present(s)
  BY DEF parse_igwn_gwalert, Parsed
<1>2. Objects(Body[n]) = objs /\ LabelsOf(Body[n]) = labels
  BY DEF Objects, LabelsOf, IGWN_GWALERT, LVK_NU_TRACK_SEARCH, BOOM
<1> HIDE DEF event, external, values
<1>3. DOMAIN objs = 1 .. 2 /\ DOMAIN s = 1 .. 2 /\ 1 .. 2 \subseteq Nat /\ IsFiniteSet(1 .. 2)
  <2>1. IsFiniteSet(1 .. 2)
    <3> HIDE DEF payload, s, objs
    <3>1. 1 \in Int /\ 2 \in Int
      OBVIOUS
    <3> QED BY ONLY <3>1, FS_Interval
  <2>2. DOMAIN objs = 1 .. 2
    BY DEF objs
  <2>3. DOMAIN s = 1 .. 2
    BY DEF s
  <2> QED BY <2>1, <2>2, <2>3
<1>4. \A i \in 1 .. 2 : locate(i) # None /\ MapSources(locate(i)) = {"real"}
  <2> SUFFICES ASSUME NEW i \in 1 .. 2
               PROVE  locate(i) # None /\ MapSources(locate(i)) = {"real"}
    OBVIOUS
  <2>1. labels[i] \in Labels
    BY <1>2, <1>3, BodyAssumption
  <2> HIDE DEF labels
  <2>2. locate(i) \in Localization
    BY <2>1 DEF Localization
  <2>3. locate(i).remote = "inline"
    OBVIOUS
  <2> QED BY <2>2, <2>3, NoneAssumption DEF MapSources
<1>5. \A k \in Located(objs) : s[k] # None /\ NotLost(objs[k], s[k])
  <2> SUFFICES ASSUME NEW k \in Located(objs) PROVE s[k] # None /\ NotLost(objs[k], s[k])
    OBVIOUS
  <2>1. k \in 1 .. 2 /\ (IsMapped(objs[k]) \/ IsQuoted(objs[k]))
    BY <1>3 DEF Located
  <2>2. objs[k] = [healpix_file |-> values[k]]
    BY <2>1
  <2>3. Says(objs[k], "ra") = None /\ Says(objs[k], "healpix_file") = values[k]
    BY <2>2 DEF Says, Or, Get
  <2>4. decode_healpix_file(values[k]) # None
    BY <2>1, <2>3, BodyAssumption DEF IsMapped, IsQuoted, decode_healpix_file
  <2>5. s[k] = locate(k)
    BY <2>1, <2>4
  <2> HIDE DEF s, objs, locate
  <2> QED BY <1>4, <2>1, <2>5, NoneAssumption DEF NotLost
<1>6. \A k \in Places(s) : s[k].object = k /\ s[k].label = labels[k]
  <2> SUFFICES ASSUME NEW k \in Places(s) PROVE s[k].object = k /\ s[k].label = labels[k]
    OBVIOUS
  <2>1. k \in 1 .. 2 /\ s[k] # None
    BY <1>3 DEF Places
  <2>2. s[k] = locate(k)
    BY <2>1
  <2> HIDE DEF s, labels
  <2> QED BY <2>2
<1> HIDE DEF s, objs, labels, payload
<1> QED BY <1>1, <1>2, <1>3, <1>5, <1>6, PresentKeepsAll DEF payload

(* Whatever the topic, every object of a body that carries a map or quotes *)
(* a region has a localization in the notice, under the object's label.    *)
LEMMA NoticeKept ==
  ASSUME NEW n \in ParsedNotices
  PROVE  AllKept(Objects(Body[n]), LabelsOf(Body[n]), Localizations(n))
<1> DEFINE payload == Body[n].payload
           objs == Objects(Body[n])
           labels == LabelsOf(Body[n])
           parsed == Parser(Body[n].topic, payload)
<1>1. Localizations(n) = parsed.localizations
  <2>1. NoticeInfo[n] = [parsed EXCEPT !.event = Append(Route(Body[n].topic), @)]
    BY BodyAssumption DEF parse_notice
  <2> HIDE DEF parsed
  <2>2. [parsed EXCEPT !.event = Append(Route(Body[n].topic), @)].localizations = parsed.localizations
    OBVIOUS
  <2> QED BY <2>1, <2>2 DEF Localizations
<1>2. AllKept(objs, labels, ParseEach(objs, labels))
  <2>1. /\ Len(objs) \in Nat /\ DOMAIN objs = 1 .. Len(objs)
        /\ \A k \in DOMAIN objs : labels[k] \in Labels
    BY BodyAssumption
  <2> HIDE DEF objs, labels
  <2> QED BY <2>1, EachKept
<1> HIDE DEF payload
<1>3. CASE Body[n].topic = IGWN_GWALERT
  <2>1. parsed = parse_igwn_gwalert(payload)
    BY <1>3 DEF Parser, IGWN_GWALERT, LVK_NU_TRACK_SEARCH, BOOM
  <2> QED BY <1>1, <1>3, <2>1, GwKept DEF payload
<1>4. CASE Body[n].topic = LVK_NU_TRACK_SEARCH
  <2>1. parsed = parse_icecube_lvk_nu_track_search(payload)
    BY <1>4 DEF Parser, IGWN_GWALERT, LVK_NU_TRACK_SEARCH, BOOM
  <2>2. objs = Or(Get(payload, "coincident_events"), <<>>)
    BY <1>4 DEF Objects, IGWN_GWALERT, LVK_NU_TRACK_SEARCH, BOOM, payload
  <2>3. labels = LabelsIn(NamesIn(objs, IdsOf), "event")
    BY <1>4 DEF LabelsOf, IGWN_GWALERT, LVK_NU_TRACK_SEARCH, BOOM
  <2>4. parsed.localizations = ParseEach(objs, labels)
    BY <2>1, <2>2, <2>3 DEF parse_icecube_lvk_nu_track_search, Parsed, NamesIn
  <2> QED BY <1>1, <1>2, <2>4
<1>5. CASE Body[n].topic = BOOM
  <2>1. parsed = parse_boom_notice(payload)
    BY <1>5 DEF Parser, IGWN_GWALERT, LVK_NU_TRACK_SEARCH, BOOM
  <2>2. objs = Or(Get(Or(Get(payload, "data"), [null |-> None]), "targets"), <<>>)
    BY <1>5 DEF Objects, IGWN_GWALERT, LVK_NU_TRACK_SEARCH, BOOM, payload
  <2>3. labels = LabelsIn(NamesIn(objs, NamesOf), "target")
    BY <1>5 DEF LabelsOf, IGWN_GWALERT, LVK_NU_TRACK_SEARCH, BOOM
  <2>4. parsed.localizations = ParseEach(objs, labels)
    BY <2>1, <2>2, <2>3 DEF parse_boom_notice, Parsed, NamesIn
  <2> QED BY <1>1, <1>2, <2>4
<1>6. CASE Body[n].topic \notin {IGWN_GWALERT, LVK_NU_TRACK_SEARCH, BOOM}
  <2>1. parsed = parse_core_notice(payload)
    BY <1>6 DEF Parser
  <2>2. objs = <<payload>> /\ labels = <<None>>
    BY <1>6 DEF Objects, LabelsOf, payload
  <2>3. parsed.localizations = ParseEach(objs, labels)
    BY <2>1, <2>2 DEF parse_core_notice, Parsed
  <2> QED BY <1>1, <1>2, <2>3
<1> QED BY <1>3, <1>4, <1>5, <1>6

-----------------------------------------------------------------------------
(* From the body to the record.                                            *)

(* What the store's invariant says of an entry makes up for the body.      *)
LEMMA EntryLosesNothing ==
  ASSUME NEW entry \in Entry, Mapped(entry), skymap_files \subseteq Skymap
  PROVE  RegionsKept(entry)
<1> DEFINE n == entry.notice
           maps == entry.skymaps
           objs == Objects(Body[n])
           labels == LabelsOf(Body[n])
           locs == Localizations(n)
<1> SUFFICES ASSUME NEW k \in Located(objs)
             PROVE  \E m \in DOMAIN maps :
                      /\ maps[m].object = k
                      /\ (IsMapped(objs[k]) => maps[m].path.source = "real")
                      /\ \E j \in DOMAIN objs :
                           labels[j] = labels[k] /\ [maps[m] EXCEPT !.object = j] \in skymap_files
  BY DEF RegionsKept, Located
<1>1. n \in ParsedNotices /\ maps \in Seq(Skymap)
  BY DEF Entry
<1>2. locs \in Seq(Localization) /\ AllKept(objs, labels, locs)
  BY <1>1, ParsedFields, NoticeKept
<1>3. /\ MappedUpTo(n, maps, Len(locs))
      /\ \A i \in DOMAIN maps : OfSome(n, maps[i]) /\ InPlace(maps, maps[i])
  BY DEF Mapped
<1>4. PICK l \in DOMAIN locs : locs[l].object = k /\ NotLost(objs[k], locs[l])
  BY <1>2 DEF AllKept
<1>5. PICK m \in DOMAIN maps : MadeOf(maps[m], locs[l])
  BY <1>2, <1>3, <1>4 DEF MappedUpTo, NotLost
<1>6. maps[m].object = k /\ (IsMapped(objs[k]) => maps[m].path.source = "real")
  BY <1>4, <1>5 DEF MadeOf, NotLost
<1>7. PICK i \in DOMAIN maps : maps[i].path = maps[m].path /\ maps[i] \in skymap_files
  BY <1>3 DEF InPlace
<1>8. PICK r \in DOMAIN locs : MadeOf(maps[i], locs[r])
  BY <1>3 DEF OfSome
<1> DEFINE j == locs[r].object
<1>9. j \in DOMAIN objs /\ labels[j] = locs[r].label /\ labels[k] = locs[l].label
  BY <1>2, <1>4 DEF AllKept
<1>10. labels[j] = labels[k] /\ maps[i].object = j
  BY <1>5, <1>7, <1>8, <1>9 DEF MadeOf
<1>11. [maps[m] EXCEPT !.object = j] = maps[i]
  <2>1. maps[m] \in Skymap /\ maps[i] \in Skymap
    BY <1>1
  <2> HIDE DEF maps, j
  <2> QED BY <1>7, <1>10, <2>1 DEF Skymap
<1> QED BY <1>6, <1>7, <1>9, <1>10, <1>11

LEMMA MapsSuffice ==
  ASSUME MapsInv
  PROVE  NoRegionLost
<1> SUFFICES ASSUME NEW e \in Events, NEW i \in DOMAIN history[e]
             PROVE  RegionsKept(history[e][i])
  BY DEF NoRegionLost
<1>1. history[e] \in Seq(Entry) /\ skymap_files \subseteq Skymap
  BY DEF MapsInv, FileInv, TypeInv, StoreTypeOK
<1>2. history[e][i] \in Entry /\ Mapped(history[e][i])
  BY <1>1 DEF MapsInv, RecordsMapped
<1> QED BY <1>1, <1>2, EntryLosesNothing

(* Nothing that a mission located is lost on the way to the disk: whatever *)
(* fails, a notice on record lists for each object of its body that        *)
(* carried a map, or quoted a region, a map of its own, and under its path *)
(* is that object's region, or that of an object of the same label.        *)
THEOREM StoreLosesNoRegion == StoreSpec => []NoRegionLost
BY MapsSuffice, MapsInvariant, PTL

(* Nor is it when the listener fills the store.                            *)
THEOREM ListenerLosesNoRegion == Spec => []NoRegionLost
<1>1. Init => MapsInv
  BY FileInit DEF Init, StoreInit, MapsInv, HandMapped, RecordsMapped
<1>2. ASSUME ControlInv, MapsInv, [Next]_vars
      PROVE  MapsInv'
  <2>1. FileInv'
    BY <1>2, ListenerFiles
  <2>2. CASE StoreNext
    BY <1>2, <2>2, MapsStep
  <2>3. CASE Counted \/ PutsDown \/ UNCHANGED vars
    BY <1>2, <2>1, <2>3, MapsQuiet DEF Counted, PutsDown, vars, storeVars, disk, lines, files
  <2> QED BY <1>2, <2>2, <2>3, StoreMoves
<1>3. Spec => []MapsInv
  BY <1>1, <1>2, ControlInvariant, PTL DEF Spec
<1> QED BY <1>3, MapsSuffice, PTL
=============================================================================
