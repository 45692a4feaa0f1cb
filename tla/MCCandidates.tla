---------------------------- MODULE MCCandidates ----------------------------
(***************************************************************************)
(* Candidates on two alerts, two DESI catalogs, two cosmologies and two    *)
(* superevents.  The first alert may have hosts that tie, that are too     *)
(* near, flagged or unmeasured; the second, when it alone is placed, sits  *)
(* behind a gap in the rows.  Separations, redshifts, distances and        *)
(* magnitudes are small numbers in the order of the real ones.             *)
(***************************************************************************)
EXTENDS Candidates

CONSTANTS early, late, SHOES, Planck18

MCCatalogs == <<"desi_dr1", "desi_dr2">>

MCAlertInfo ==
  <<[time |-> 3, mag |-> 19, band |-> "g"], [time |-> 5, mag |-> None, band |-> "r"]>>

HostAt(z, zwarn, sep) == [z |-> z, zwarn |-> zwarn, sep |-> sep]

(* Nothing; the nearest host; another at its separation; a flagged or      *)
(* too near one in front of a farther; one with no fit and one with no     *)
(* separation.                                                             *)
MCHostColumns ==
  <<{<<>>, <<HostAt(2, 0, 1)>>, <<HostAt(1, 0, 1)>>,
     <<HostAt(2, 4, 0), HostAt(3, 0, 2)>>, <<HostAt(0, 0, 0), HostAt(2, 0, 3)>>,
     <<HostAt(None, None, 0), HostAt(1, 0, None)>>},
    {<<>>, <<HostAt(1, 0, 2)>>, <<HostAt(1, 4, 0)>>}>>

MCDistance == [l \in Cosmologies |-> IF l = SHOES THEN <<4, 8, 12>> ELSE <<5, 9, 13>>]

MCModulus == [l \in Cosmologies |-> IF l = SHOES THEN <<36, 38, 40>> ELSE <<37, 39, 41>>]

EventAt(gw_time, map, area, volume, raises) ==
  [gw_time |-> gw_time, map |-> map, area |-> area, volume |-> volume, raises |-> raises]

(* The early superevent is in time with both alerts, or its listing could  *)
(* not be read; the late one is in time with the second alert only.        *)
MCEventRows ==
  [e \in Superevents |->
     IF e = early
     THEN {EventAt(None, "missing", {}, {}, {}), EventAt(4, "flat", {1, 2}, {}, {}),
           EventAt(4, "3d", {1}, {<<1, SHOES>>, <<2, Planck18>>}, {}),
           EventAt(4, "3d", {2}, {<<1, SHOES>>, <<1, Planck18>>}, {Planck18})}
     ELSE {EventAt(6, "missing", {}, {}, {}), EventAt(6, "unreadable", {}, {}, {}),
           EventAt(6, "3d", {1, 2}, {<<1, SHOES>>, <<2, SHOES>>}, {}),
           EventAt(6, "3d", {2}, {<<2, SHOES>>}, {SHOES, Planck18})}]

MCCut(column, min, max, one_of) ==
  [column |-> column, min |-> min, max |-> max, one_of |-> one_of]

MCCutFilters ==
  <<[name |-> "blue", cuts |-> <<MCCut(<<"band">>, None, None, {"g"}),
                                MCCut(<<"dist_mpc", SHOES>>, None, 8, None)>>],
    [name |-> "luminous", cuts |-> <<MCCut(<<"abs_mag", SHOES>>, None, -19, None)>>],
    [name |-> "nearby", cuts |-> <<MCCut(<<"dist_mpc", Planck18>>, 5, 9, None)>>]>>
=============================================================================
