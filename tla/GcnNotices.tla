----------------------------- MODULE GcnNotices -----------------------------
(***************************************************************************)
(* The vocabulary of src/desi_aap/gcn_notices.py: what a parsed notice is, *)
(* as far as the store and the listener tell one from another.             *)
(*                                                                         *)
(* A notice stands for one message body of one topic, so two deliveries of *)
(* the same body are the same notice and two bodies are two notices: the   *)
(* payload digest of the code is the identity of a notice here.            *)
(***************************************************************************)
EXTENDS Integers, Sequences

CONSTANTS Notices,   \* the message bodies that may be published
          Malformed, \* those on which parse_notice raises
          Events,    \* the event directories the others route to
          Labels,    \* the labels of localizations, as file names carry them
          NoticeInfo \* the NoticeRecord each of those parses to

MISSING_RECORD_NUMBER == -1
UNKNOWN_ALERT_TYPE_RANK == -1
MISSING_TIMESTAMP == 0

ALERT_TYPE_RANK ==
  [earlywarning |-> 0, preliminary |-> 1, initial |-> 2,
   subsequent |-> 3, update |-> 4, retraction |-> 5]

AlertTypes == DOMAIN ALERT_TYPE_RANK \cup {"other"}

alert_type_rank(type) ==
  IF type \in DOMAIN ALERT_TYPE_RANK THEN ALERT_TYPE_RANK[type]
                                     ELSE UNKNOWN_ALERT_TYPE_RANK

(* A localization carries a map inline, links one by URL, or neither;      *)
(* "region" says whether an error region is quoted from which a map can be *)
(* made, or one whose containment probability no map can be made from;     *)
(* "object" stands for the position, the radii and the bytes themselves:   *)
(* it is the number of the object of the body that they come from.         *)
Localization ==
  [object : Nat \ {0}, label : Labels,
   remote : {"inline", "url", "none"}, region : {"quoted", "refused", "none"}]

NoticeRecord ==
  [event         : Events,
   alert_type    : AlertTypes,
   record_number : Nat \cup {MISSING_RECORD_NUMBER},
   notice_time   : Nat,
   localizations : Seq(Localization)]

is_retraction(n) == NoticeInfo[n].alert_type = "retraction"

ParsedNotices == Notices \ Malformed

ASSUME NoticesAssumption ==
  /\ Malformed \subseteq Notices
  /\ NoticeInfo \in [ParsedNotices -> NoticeRecord]

-----------------------------------------------------------------------------
(* entry_sort_key: mission record number, then alert type, then time.      *)

SortKey(n) == <<NoticeInfo[n].record_number,
                alert_type_rank(NoticeInfo[n].alert_type),
                NoticeInfo[n].notice_time>>

KeyLess(a, b) ==
  \/ a[1] < b[1]
  \/ a[1] = b[1] /\ a[2] < b[2]
  \/ a[1] = b[1] /\ a[2] = b[2] /\ a[3] < b[3]
=============================================================================
