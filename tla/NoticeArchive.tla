---------------------------- MODULE NoticeArchive ----------------------------
(***************************************************************************)
(* What the notice store and its listener promise, without lines, batches  *)
(* or offsets: a body that is kept is filed once under its event, or is    *)
(* set aside, what is shown of an event is the best of what was filed, and *)
(* the broker is told of nothing that was not kept or set aside first, nor *)
(* of what was kept but not filed, unless a record may be torn.            *)
(***************************************************************************)
EXTENDS GcnNotices

CONSTANTS None, \* shown of an event of which nothing is
          Tears \* whether a record may be torn as a notice is filed

VARIABLES
  kept,        \* the bodies kept, filed or not
  filed,       \* per event, its notices in the order they were filed
  aside,       \* the bodies set aside for inspection
  shown,       \* per event, the notice shown as current
  acknowledged \* the bodies that will not be delivered again

archiveVars == <<kept, filed, aside, shown, acknowledged>>

FiledOf(e) == {filed[e][i] : i \in DOMAIN filed[e]}

OnRecord == aside \cup UNION {FiledOf(e) : e \in Events}

Init ==
  /\ kept = {} /\ filed = [e \in Events |-> <<>>] /\ aside = {}
  /\ shown = [e \in Events |-> None] /\ acknowledged = {}

Keep(n) ==
  /\ kept' = kept \cup {n}
  /\ UNCHANGED <<filed, aside, shown, acknowledged>>

(* A notice is filed once, and its body is there to be read.               *)
File(n) ==
  /\ n \in kept /\ n \notin FiledOf(NoticeInfo[n].event)
  /\ filed' = [filed EXCEPT ![NoticeInfo[n].event] = Append(@, n)]
  /\ UNCHANGED <<kept, aside, shown, acknowledged>>

SetAside(n) ==
  /\ aside' = aside \cup {n}
  /\ UNCHANGED <<kept, filed, shown, acknowledged>>

(* None of the event's notices outranks the one that is shown.             *)
Show(e) ==
  /\ \E n \in FiledOf(e) :
       /\ \A m \in FiledOf(e) : ~ KeyLess(SortKey(n), SortKey(m))
       /\ shown' = [shown EXCEPT ![e] = n]
  /\ UNCHANGED <<kept, filed, aside, acknowledged>>

(* Acknowledgements may be lost or taken back, never given in advance.     *)
Acknowledge ==
  /\ acknowledged' \subseteq IF Tears THEN kept \cup aside ELSE OnRecord
  /\ UNCHANGED <<kept, filed, aside, shown>>

Next ==
  \/ \E n \in ParsedNotices : Keep(n) \/ File(n)
  \/ \E n \in Notices : SetAside(n)
  \/ \E e \in Events : Show(e)
  \/ Acknowledge

Spec == Init /\ [][Next]_archiveVars
=============================================================================
