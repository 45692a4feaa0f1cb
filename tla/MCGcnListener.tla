--------------------------- MODULE MCGcnListener ---------------------------
(***************************************************************************)
(* GcnListener on two topics of one partition each: LVK's carries a        *)
(* superevent's preliminary notice and its retraction, BOOM's a notice of  *)
(* three targets, of which one is null and one has a position alone, one   *)
(* with a region of which no map can be made behind another's, and a body  *)
(* that is not an object.                                                  *)
(***************************************************************************)
EXTENDS GcnListener, GcnParsing

CONSTANTS prelim, retraction, transient, flare, garbage, S1

On(topic, payload) == [topic |-> topic, payload |-> payload]

Circle == [ra |-> 0, dec |-> 0, ra_dec_error |-> 1]

Bodies ==
  [n \in Notices |->
     CASE n = prelim ->
            On(IGWN_GWALERT,
               [superevent_id |-> S1, alert_type |-> "PRELIMINARY", time_created |-> 1,
                event |-> [skymap |-> "fits"]])
       [] n = retraction ->
            On(IGWN_GWALERT,
               [superevent_id |-> S1, alert_type |-> "RETRACTION", time_created |-> 2,
                event |-> None])
       [] n = transient ->
            On(BOOM,
               [data |-> [targets |->
                            <<[id |-> <<"ZTF1">>, ra |-> 0, dec |-> 0],
                              None,
                              [id |-> <<"ZTF2">>] @@ Circle>>,
                          photometry |-> <<[observation_start |-> None],
                                           [observation_start |-> 1]>>]])
       [] n = flare ->
            On(BOOM,
               [data |-> [targets |->
                            <<[id |-> <<"ZTF3">>] @@ Circle,
                              [id |-> <<"ZTF4">>, containment_probability |-> 100] @@ Circle>>]])
       [] n = garbage -> On(BOOM, None)]

Unreadable == {n \in Notices : Bodies[n].payload = None}
Records == [n \in ParsedNotices |-> parse_notice(Bodies[n])]
Directories == {Records[n].event : n \in ParsedNotices}
LocalizationLabels == UNION {Range(LabelsOf(Bodies[n])) : n \in ParsedNotices}
Topics == {IGWN_GWALERT, BOOM}
Feeds == [p \in Topics |-> {n \in Notices : Bodies[n].topic = p}]

(* TLC keeps the value of a definition, but not of one that a constant     *)
(* stands for: these only name the values above.                           *)
MCBody == Bodies
MCMalformed == Unreadable
MCNoticeInfo == Records
MCEvents == Directories
MCLabels == LocalizationLabels
MCPartitions == Topics
MCFeed == Feeds
=============================================================================
