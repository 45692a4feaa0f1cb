------------------------------ MODULE MCGcnStore ------------------------------
(***************************************************************************)
(* GcnStore on the bodies of four topics: a superevent's preliminary      *)
(* notice with a map and a combined one, its update whose map does not     *)
(* decode, and its retraction; IceCube's search around that superevent,    *)
(* with a neutrino whose map does not decode but whose region is nested, a *)
(* null entry, a neutrino of the same name with a linked map and a         *)
(* position alone; a transient of BOOM whose second target quotes a region *)
(* that no map can be made of; and a burst of Swift's that is refused as   *)
(* well, and has no name.                                                  *)
(***************************************************************************)
EXTENDS GcnParsing

CONSTANTS prelim, update, retraction, track, transient, burst, S1

On(topic, payload) == [topic |-> topic, payload |-> payload]

Position == [ra |-> 0, dec |-> 0]

Circle == Position @@ [ra_dec_error |-> 1]

Bodies ==
  [n \in Notices |->
     CASE n = prelim ->
            On(IGWN_GWALERT,
               [superevent_id |-> S1, alert_type |-> "PRELIMINARY", time_created |-> 1,
                event |-> [time |-> 1, skymap |-> "fits"],
                external_coinc |-> [combined_skymap |-> "fits"]])
       [] n = update ->
            On(IGWN_GWALERT,
               [superevent_id |-> S1, alert_type |-> "UPDATE", time_created |-> 2,
                event |-> [time |-> 1, skymap |-> "garbled"], external_coinc |-> None])
       [] n = retraction ->
            On(IGWN_GWALERT,
               [superevent_id |-> S1, alert_type |-> "RETRACTION", time_created |-> 2,
                event |-> None, external_coinc |-> None])
       [] n = track ->
            On(LVK_NU_TRACK_SEARCH,
               [ref_ID |-> <<S1>>, alert_type |-> "initial", record_number |-> 0,
                alert_datetime |-> 2, trigger_time |-> 1,
                coincident_events |->
                  <<[id |-> <<"run1">>,
                     localization |-> Circle @@ [healpix_file |-> "garbled"]],
                    None,
                    [id |-> <<"run1">>, healpix_url |-> "url"] @@ Circle,
                    Position>>])
       [] n = transient ->
            On(BOOM,
               [data |-> [targets |->
                            <<[event_name |-> <<"">>, id |-> <<"ZTF1">>] @@ Circle,
                              [id |-> <<"ZTF2">>, containment_probability |-> 100] @@ Circle>>,
                          photometry |-> <<[observation_start |-> None],
                                           [observation_start |-> 1]>>]])
       [] n = burst ->
            On("gcn.notices.swift.bat.guano",
               [alert_type |-> "initial", trigger_time |-> 1, containment_probability |-> 100]
                 @@ Circle)]

Records == [n \in ParsedNotices |-> parse_notice(Bodies[n])]

Directories == {Records[n].event : n \in ParsedNotices}

LocalizationLabels == UNION {Range(LabelsOf(Bodies[n])) : n \in ParsedNotices}

(* TLC keeps the value of a definition, but not of one that a constant     *)
(* stands for: these only name the values above.                           *)
MCBody == Bodies
MCNoticeInfo == Records
MCEvents == Directories
MCLabels == LocalizationLabels
===============================================================================
