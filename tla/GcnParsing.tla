------------------------------ MODULE GcnParsing ------------------------------
(***************************************************************************)
(* parse_notice of src/desi_aap/gcn_notices.py: from the body of a message *)
(* to the notice that the store files, for the two schema families the     *)
(* subscribed topics use.                                                  *)
(*                                                                         *)
(* A JSON object is a record that has just the fields the body has; null,  *)
(* and an entry that is not an object, is None.  What a field's value says *)
(* is kept as far as a parser looks at it: a healpix_file is "fits" or     *)
(* "garbled", a position a number, an error radius a number of degrees,    *)
(* a containment probability a percentage, a time a number.  Identifiers   *)
(* that safe_file_part turns into the same part of a file name are one     *)
(* identifier here.                                                        *)
(***************************************************************************)
EXTENDS GcnStore, SequencesExt

CONSTANT Body  \* per notice, the topic it arrived on and its payload

(* dict.get                                                                *)
Get(obj, key) == IF key \in DOMAIN obj THEN obj[key] ELSE None

(* value or default: the first that is there.                              *)
Or(value, default) == IF value = None THEN default ELSE value

(* The entries that are there, in their order: the j-th is the one at the  *)
(* place up to which there are j.                                          *)
Present(s) ==
  LET places == {k \in DOMAIN s : s[k] # None}
  IN [j \in 1 .. Cardinality(places) |->
        s[CHOOSE k \in places : Cardinality({i \in places : i <= k}) = j]]

IGWN_GWALERT == "igwn.gwalert"
LVK_NU_TRACK_SEARCH == "gcn.notices.icecube.lvk_nu_track_search"
BOOM == "gcn.notices.boom.alert"

(* Topic -> store category and source directory; a topic that is           *)
(* subscribed and not listed still has a place.                            *)
Route(topic) ==
  CASE topic = IGWN_GWALERT -> <<"gw", "lvk">>
    [] topic = "gcn.notices.einstein_probe.wxt.alert" -> <<"grb", "einstein_probe_wxt">>
    [] topic = "gcn.notices.swift.bat.guano" -> <<"grb", "swift_bat_guano">>
    [] topic = "gcn.notices.icecube.gold_bronze_track_alerts" -> <<"neutrino", "icecube_gold_bronze">>
    [] topic = LVK_NU_TRACK_SEARCH -> <<"neutrino", "icecube_lvk_nu_track_search">>
    [] topic = BOOM -> <<"optical", "boom">>
    [] OTHER -> <<"grb", "unknown">>

DEFAULT_CONTAINMENT_PROBABILITY == 90
UNKNOWN_EVENT_ID == "unidentified"

(* An identifier field is a string or an array of strings; here it is the  *)
(* sequence of them, of which the empty ones are dropped.                  *)
as_id_tuple(value) == SelectSeq(Or(value, <<>>), LAMBDA s : s \notin {None, ""})

FirstName(names) == IF names = <<>> THEN UNKNOWN_EVENT_ID ELSE names[1]

COMBINED_SKYMAP_LABEL == "combined"

(* The label of the i-th entry of an array: its first name, or its number, *)
(* in two digits or more, behind a word.                                   *)
LabelOf(names, word, i) ==
  IF names # <<>> THEN names[1]
  ELSE word \o (IF i <= 10 THEN "0" ELSE "") \o ToString(i - 1)

(* Mutant: the alert type is taken as the mission spells it.               *)
AlertTypeAsSpelled(value) == IF value \in DOMAIN ALERT_TYPE_RANK THEN value ELSE "other"

(* IGWN spells alert types in upper case, gcn.notices.* in lower case; a   *)
(* type that has no rank, or none at all, is "other".  What strip and      *)
(* lower make the same word of, such as " Update", has one spelling here.  *)
LowerCase ==
  [EARLYWARNING |-> "earlywarning", PRELIMINARY |-> "preliminary", INITIAL |-> "initial",
   UPDATE |-> "update", RETRACTION |-> "retraction"]

normalize_alert_type(value) ==
  LET word == IF value \in DOMAIN LowerCase THEN LowerCase[value] ELSE value
  IN IF word \in DOMAIN ALERT_TYPE_RANK THEN word ELSE "other"

-----------------------------------------------------------------------------
(* Localizations.                                                          *)

(* The bytes of a map, or None when the field is absent or does not decode.*)
decode_healpix_file(value) == IF value = "fits" THEN value ELSE None

(* The fields of a localization stand on the object or under its           *)
(* "localization"; where both have one, the nested one counts.             *)
localization_fields(obj) ==
  LET nested == Or(Get(obj, "localization"), obj)
  IN [key \in DOMAIN nested \cup DOMAIN obj |->
        IF key \in DOMAIN nested THEN nested[key] ELSE obj[key]]

has_point(fields) == Get(fields, "ra") # None /\ Get(fields, "dec") # None

has_error_region(fields) ==
  /\ has_point(fields)
  /\ Or(Get(fields, "ra_dec_error"), 0) > 0

(* What synthesize_moc_table makes of the quoted region: a containment     *)
(* probability that is not strictly between 0 and 1 has no sigma.          *)
Region(fields) ==
  LET containment == Or(Get(fields, "containment_probability"), DEFAULT_CONTAINMENT_PROBABILITY)
  IN IF ~has_error_region(fields) THEN "none"
     ELSE IF containment \in 1 .. 99 THEN "quoted" ELSE "refused"

Remote(file, url) ==
  IF file # None THEN "inline" ELSE IF url # None THEN "url" ELSE "none"

(* i is the object's number.                                               *)
parse_localization(obj, label, i) ==
  LET fields == localization_fields(obj)
      file == decode_healpix_file(Get(fields, "healpix_file"))
      url == Get(fields, "healpix_url")
  IN IF <<Get(fields, "ra"), Get(fields, "dec"), file, url>> = <<None, None, None, None>>
     THEN None
     ELSE [object |-> i, label |-> label, remote |-> Remote(file, url), region |-> Region(fields)]

(* The localizations of an array's entries, of which those that are not    *)
(* objects, or locate nothing, are passed over.                            *)
ParseEach(objs, labels) ==
  Present([i \in DOMAIN objs |->
             IF objs[i] = None THEN None ELSE parse_localization(objs[i], labels[i], i)])

parse_record_number(payload) == Or(Get(payload, "record_number"), MISSING_RECORD_NUMBER)

(* What a history line is ranked by: the notice's time, else the trigger's.*)
TimeOf(notice_time, trigger_time) == Or(notice_time, Or(trigger_time, MISSING_TIMESTAMP))

-----------------------------------------------------------------------------
(* The parsers.  Each yields the event's name and the rest of the record.  *)

Parsed(name, payload, number, time, localizations) ==
  [event |-> name, alert_type |-> normalize_alert_type(Get(payload, "alert_type")),
   record_number |-> number, notice_time |-> time, localizations |-> localizations]

(* IGWN sends maps inline and nothing else, and no sequence number.        *)
parse_igwn_gwalert(payload) ==
  LET event == Or(Get(payload, "event"), [null |-> None])
      external == Or(Get(payload, "external_coinc"), [null |-> None])
      values == <<Get(event, "skymap"), Get(external, "combined_skymap")>>
  IN Parsed(Or(Get(payload, "superevent_id"), UNKNOWN_EVENT_ID), payload,
            MISSING_RECORD_NUMBER,
            TimeOf(Get(payload, "time_created"), Get(event, "time")),
            Present([i \in 1 .. 2 |->
                       IF decode_healpix_file(values[i]) = None THEN None
                       ELSE [object |-> i, label |-> <<None, COMBINED_SKYMAP_LABEL>>[i],
                             remote |-> "inline", region |-> "none"]]))

IdsOf(obj) == as_id_tuple(Get(obj, "id"))

NamesOf(obj) == as_id_tuple(Get(obj, "event_name")) \o IdsOf(obj)

(* Einstein Probe, Swift and IceCube's track alerts: one localization,     *)
(* whose fields stand on the notice.                                       *)
parse_core_notice(payload) ==
  Parsed(FirstName(NamesOf(payload)), payload, parse_record_number(payload),
         TimeOf(Get(payload, "alert_datetime"), Get(payload, "trigger_time")),
         ParseEach(<<payload>>, <<None>>))

(* What names the entries of an array.                                     *)
NamesIn(objs, NamesOfOne(_)) ==
  [i \in DOMAIN objs |-> IF objs[i] = None THEN <<>> ELSE NamesOfOne(objs[i])]

LabelsIn(names, word) == [i \in DOMAIN names |-> LabelOf(names[i], word, i)]

(* IceCube's search around a superevent goes by the superevent's name, and *)
(* its neutrinos by their own.                                             *)
parse_icecube_lvk_nu_track_search(payload) ==
  LET events == Or(Get(payload, "coincident_events"), <<>>)
  IN Parsed(FirstName(as_id_tuple(Get(payload, "ref_ID"))), payload, parse_record_number(payload),
            TimeOf(Get(payload, "alert_datetime"), Get(payload, "trigger_time")),
            ParseEach(events, LabelsIn(NamesIn(events, IdsOf), "event")))

(* BOOM's notice goes by its first target that has a name, and is timed by *)
(* its first point of photometry that has a time.                          *)
parse_boom_notice(payload) ==
  LET data == Or(Get(payload, "data"), [null |-> None])
      targets == Or(Get(data, "targets"), <<>>)
      observed == SelectSeq(Or(Get(data, "photometry"), <<>>),
                            LAMBDA p : p # None /\ Get(p, "observation_start") # None)
      names == NamesIn(targets, NamesOf)
  IN Parsed(FirstName(FlattenSeq(names)), payload,
            parse_record_number(payload),
            TimeOf(Get(payload, "alert_datetime"),
                   IF observed = <<>> THEN None ELSE observed[1].observation_start),
            ParseEach(targets, LabelsIn(names, "target")))

Parser(topic, payload) ==
  CASE topic = IGWN_GWALERT -> parse_igwn_gwalert(payload)
    [] topic = LVK_NU_TRACK_SEARCH -> parse_icecube_lvk_nu_track_search(payload)
    [] topic = BOOM -> parse_boom_notice(payload)
    [] OTHER -> parse_core_notice(payload)

(* The event is named by its directory: category, source and name.         *)
parse_notice(body) ==
  LET parsed == Parser(body.topic, body.payload)
  IN [parsed EXCEPT !.event = Append(Route(body.topic), @)]

(* The objects of a body that may locate something.                        *)
Objects(body) ==
  LET part(key) == Or(Get(body.payload, key), [null |-> None])
  IN CASE body.topic = IGWN_GWALERT ->
            <<[healpix_file |-> Get(part("event"), "skymap")],
              [healpix_file |-> Get(part("external_coinc"), "combined_skymap")]>>
       [] body.topic = LVK_NU_TRACK_SEARCH -> Or(Get(body.payload, "coincident_events"), <<>>)
       [] body.topic = BOOM -> Or(Get(part("data"), "targets"), <<>>)
       [] OTHER -> <<body.payload>>

(* What their labels are.                                                  *)
LabelsOf(body) ==
  CASE body.topic = IGWN_GWALERT -> <<None, COMBINED_SKYMAP_LABEL>>
    [] body.topic = LVK_NU_TRACK_SEARCH -> LabelsIn(NamesIn(Objects(body), IdsOf), "event")
    [] body.topic = BOOM -> LabelsIn(NamesIn(Objects(body), NamesOf), "target")
    [] OTHER -> <<None>>

(* The notices are those that the bodies parse to, a body that is not an   *)
(* object does not parse, an array has an end, and labels are labels.      *)
ASSUME BodyAssumption ==
  /\ None # "fits"
  /\ DOMAIN Body = Notices
  /\ Malformed = {n \in Notices : Body[n].payload = None}
  /\ NoticeInfo = [n \in ParsedNotices |-> parse_notice(Body[n])]
  /\ \A n \in ParsedNotices :
       LET objs == Objects(Body[n])
       IN /\ Len(objs) \in Nat /\ DOMAIN objs = 1 .. Len(objs)
          /\ \A k \in DOMAIN objs : LabelsOf(Body[n])[k] \in Labels

-----------------------------------------------------------------------------
(* Properties.                                                             *)

(* A superevent that LVK has withdrawn never reads as live: once a body    *)
(* that says so is filed, no map of its event is shown, whatever older or  *)
(* newer notices of it are filed and in whatever order they came.          *)
RetractionWithdraws ==
  faults = 0 /\ Settled =>
    \A e \in Events :
      (\E i \in DOMAIN history[e] :
          LET body == Body[history[e][i].notice]
          IN body.topic = IGWN_GWALERT /\ Get(body.payload, "alert_type") = "RETRACTION")
        => latest[e].latest_skymap = None /\ latest_fits[e] = None

(* What an object says of a field, or what is nested in it does.           *)
Says(obj, key) ==
  LET nested == Or(Get(obj, "localization"), obj)
  IN IF key \in DOMAIN nested THEN nested[key] ELSE Get(obj, key)

(* It carries a map that can be read.                                      *)
IsMapped(obj) == obj # None /\ Says(obj, "healpix_file") = "fits"

(* It quotes a region around a position.                                   *)
IsQuoted(obj) ==
  /\ obj # None /\ Says(obj, "ra") # None /\ Says(obj, "dec") # None
  /\ Or(Says(obj, "ra_dec_error"), 0) > 0

(* For each object of its body that carried a map whole or quoted an error *)
(* region an entry lists a map of its own, a real one if it carried one,   *)
(* and under the path listed is that object's region on disk, or another's *)
(* of the same label.                                                      *)
RegionsKept(entry) ==
  LET maps == entry.skymaps
      objs == Objects(Body[entry.notice])
      labels == LabelsOf(Body[entry.notice])
  IN \A k \in DOMAIN objs : IsMapped(objs[k]) \/ IsQuoted(objs[k]) =>
       \E m \in DOMAIN maps :
         /\ maps[m].object = k /\ (IsMapped(objs[k]) => maps[m].path.source = "real")
         /\ \E j \in DOMAIN objs :
              labels[j] = labels[k] /\ [maps[m] EXCEPT !.object = j] \in skymap_files

(* Nothing a mission located is lost between the body and the disk, though *)
(* other objects of the body were unusable, an inline map was garbled or a *)
(* linked one could not be fetched.  A localization's label keeps it apart *)
(* in file names (gcn_notices.py:192) as far as labels differ: what is     *)
(* found under a path is the region of an object with that label.          *)
NoRegionLost == \A e \in Events : \A i \in DOMAIN history[e] : RegionsKept(history[e][i])
===============================================================================
