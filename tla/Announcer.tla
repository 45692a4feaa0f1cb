------------------------------- MODULE Announcer -------------------------------
(***************************************************************************)
(* What a run of the pipeline promises to those who read its channel,      *)
(* without stages, frames or files: each of its filters finds something or *)
(* does not, a find is announced at most once, with just the rows that     *)
(* were found, none is announced before all filters have had their turn,   *)
(* and a run that may announce ends well only when it has announced every  *)
(* find.                                                                   *)
(***************************************************************************)
EXTENDS Sequences

CONSTANTS Runs, FilterNames, Alerts

VARIABLES
  verdict, \* per run, "idle", "open", "good" or "bad"
  willing, \* per run, whether it may announce anything
  finds,   \* per run, the rows found, by filter, of those that found any
  said,    \* the announcements, in order
  refused  \* per run, the filters whose announcement met with a failure

announcerVars == <<verdict, willing, finds, said, refused>>

Init ==
  /\ verdict = [r \in Runs |-> "idle"] /\ willing = [r \in Runs |-> FALSE]
  /\ finds = [r \in Runs |-> <<>>] /\ refused = [r \in Runs |-> {}]
  /\ said = <<>>

Announcement(r, f) == [run |-> r, filter |-> f, rows |-> finds[r][f]]

Said(r) == {f \in FilterNames :
              \E i \in DOMAIN said : said[i].run = r /\ said[i].filter = f}

Tried(r) == Said(r) \cup refused[r]

Adds(r, f, rows) ==
  /\ rows # {}
  /\ finds' = [finds EXCEPT ![r] = [g \in DOMAIN @ \cup {f} |-> IF g = f THEN rows ELSE @[g]]]

(* A run may be handed what another one found for one filter.              *)
Begin(r) ==
  /\ verdict[r] = "idle" /\ verdict' = [verdict EXCEPT ![r] = "open"]
  /\ \E may \in BOOLEAN : willing' = [willing EXCEPT ![r] = may]
  /\ UNCHANGED finds \/ \E f \in FilterNames, rows \in SUBSET Alerts : Adds(r, f, rows)
  /\ UNCHANGED <<said, refused>>

Find(r, f, rows) ==
  /\ verdict[r] = "open" /\ Tried(r) = {} /\ f \notin DOMAIN finds[r]
  /\ Adds(r, f, rows)
  /\ UNCHANGED <<verdict, willing, said, refused>>

MayAnnounce(r, f) ==
  verdict[r] = "open" /\ willing[r] /\ f \in DOMAIN finds[r] /\ f \notin Tried(r)

Announce(r, f) ==
  /\ MayAnnounce(r, f)
  /\ said' = Append(said, Announcement(r, f))
  /\ UNCHANGED <<verdict, willing, finds, refused>>

(* A failure may follow the announcement; it is not made again.            *)
Refuse(r, f) ==
  /\ MayAnnounce(r, f)
  /\ said' \in {said, Append(said, Announcement(r, f))}
  /\ refused' = [refused EXCEPT ![r] = @ \cup {f}]
  /\ UNCHANGED <<verdict, willing, finds>>

Close(r) ==
  /\ verdict[r] = "open" /\ verdict' = [verdict EXCEPT ![r] = "good"]
  /\ refused[r] = {}
  /\ willing[r] => DOMAIN finds[r] \subseteq Said(r)
  /\ UNCHANGED <<willing, finds, said, refused>>

Fail(r) ==
  /\ verdict[r] = "open" /\ verdict' = [verdict EXCEPT ![r] = "bad"]
  /\ UNCHANGED <<willing, finds, said, refused>>

Next ==
  \E r \in Runs :
    \/ Begin(r) \/ Close(r) \/ Fail(r)
    \/ \E f \in FilterNames :
         \/ Announce(r, f) \/ Refuse(r, f)
         \/ \E rows \in SUBSET Alerts : Find(r, f, rows)

Spec == Init /\ [][Next]_announcerVars
=============================================================================
