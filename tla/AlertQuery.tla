----------------------------- MODULE AlertQuery -----------------------------
(***************************************************************************)
(* The scheduled runs of src/desi_aap/stages/query.py and the BOOM client  *)
(* of src/desi_aap/boom.py: cron starts a run at each tick of a schedule,  *)
(* the run loads its configuration, settles the window of time it covers,  *)
(* asks BOOM for a token and then for the alerts of the window, newest     *)
(* first and up to a limit.  No run knows of the others: what a failed run *)
(* did not ask for, only the window of a later one can bring back.         *)
(*                                                                         *)
(* Time is a clock of whole units, Julian dates being points of it.  BOOM  *)
(* takes an alert in when it pleases after the exposure; its answer holds  *)
(* both ends of the window.                                                *)
(***************************************************************************)
EXTENDS Integers, FiniteSets, Sequences

CONSTANTS Alerts,      \* the alerts that pass the server-side filter
          NumRuns,     \* bound: runs of the schedule
          Ticks,       \* per run, the moment cron starts it
          MaxDrift,    \* how long after its tick a run may settle its window
          MaxTime,     \* bound: where the clock stops
          ConfigFiles, \* the configurations: sequences of files, each a
                       \* function from the settings it gives to their values
          None         \* no value

Runs == 1 .. NumRuns
Settings == {"start", "end", "lookback", "limit"}

ASSUME QueryAssumption ==
  /\ NumRuns \in Nat /\ MaxDrift \in Nat /\ MaxTime \in Nat
  /\ Ticks \in [Runs -> Nat]
  /\ \A f \in ConfigFiles :
       /\ Len(f) \in Nat /\ DOMAIN f = 1 .. Len(f)
       /\ \A i \in DOMAIN f : \A s \in Settings \cap DOMAIN f[i] : f[i][s] \in Nat
  /\ IsFiniteSet(Alerts)
  /\ None \notin Int

VARIABLES
  now,    \* the clock
  jd,     \* per alert, the time of its exposure, None while it has not happened
  held,   \* the alerts BOOM has taken in
  files,  \* the configuration the schedule names
  run     \* per run, how far it is, its window, its answer and what it found

world == <<now, jd, held, files>>
vars == <<world, run>>

(* Tables are merged setting by setting: the last file to give one decides.*)
Setting(s) ==
  LET gives(i) == s \in DOMAIN files[i]
      last     == {i \in DOMAIN files : gives(i) /\ \A j \in DOMAIN files : gives(j) => j <= i}
  IN  IF last = {} THEN None ELSE files[CHOOSE i \in last : TRUE][s]

(* WindowConfig and BoomConfig accept the merged settings.                 *)
ValidConfig ==
  /\ Setting("lookback") # None \/ (Setting("start") # None /\ Setting("end") # None)
  /\ Setting("limit") # 0

-----------------------------------------------------------------------------
(* The window and the request.                                             *)

(* Mutant: the days of the lookback are dropped (timedelta.seconds), a day *)
(* being two units.                                                        *)
WindowOfSeconds(t) ==
  LET end == IF Setting("end") # None THEN Setting("end") ELSE t
  IN  [start |-> IF Setting("start") # None THEN Setting("start")
                 ELSE end - (Setting("lookback") % 2),
       end |-> end]

(* Mutant: a lookback wins over the bounds.                                *)
WindowOfLookback(t) ==
  IF Setting("lookback") # None THEN [start |-> t - Setting("lookback"), end |-> t]
  ELSE [start |-> Setting("start"), end |-> Setting("end")]

(* Explicit bounds win; a missing end is now, a missing start the lookback *)
(* before the end.                                                         *)
resolve_window(t) ==
  LET end == IF Setting("end") # None THEN Setting("end") ELSE t
  IN  [start |-> IF Setting("start") # None THEN Setting("start")
                 ELSE end - Setting("lookback"),
       end |-> end]

(* Mutant: the oldest alerts come first.                                   *)
OldestFirst(a, b) == jd[a] <= jd[b]

(* sort_by and sort_order of the request.                                  *)
SortsBefore(a, b) == jd[a] >= jd[b]

(* The answers BOOM may give to a request for a window: all its alerts, or *)
(* the first ones when there are more than the limit, ties in any order.   *)
Answers(w) ==
  LET hits  == {a \in held : w.start <= jd[a] /\ jd[a] <= w.end}
      limit == Setting("limit")
  IN  IF limit = None \/ Cardinality(hits) <= limit THEN {hits}
      ELSE {S \in SUBSET hits : /\ Cardinality(S) = limit
                                /\ \A a \in S, b \in hits \ S : SortsBefore(a, b)}

Shapes == {"data.results", "results", "data", "other"}

(* Mutant: an answer of an unknown shape is taken for a record itself.     *)
ExtractNull(shape, records) == IF shape = "other" THEN {None} ELSE records

(* Mutant: only the documented place is looked at.                         *)
ExtractNested(shape, records) == IF shape = "data.results" THEN records ELSE {}

(* An answer of a shape the client does not know reads as no alerts.       *)
extract_results(shape, records) == IF shape = "other" THEN {} ELSE records

-----------------------------------------------------------------------------
(* Runs.                                                                   *)

Statuses == {"due", "missed", "started", "resolved", "authorized", "done", "failed"}
Due == [status |-> "due", start |-> 0, end |-> 0, had |-> {}, known |-> TRUE, found |-> {}]

Init ==
  /\ now = 0 /\ jd = [a \in Alerts |-> None] /\ held = {}
  /\ files \in ConfigFiles
  /\ run = [r \in Runs |-> Due]

Becomes(r, status) ==
  /\ run' = [run EXCEPT ![r].status = status]
  /\ UNCHANGED world

(* Cron starts a run at its tick, or misses it because the host is down.   *)
Start(r) == run[r].status = "due" /\ now = Ticks[r] /\ Becomes(r, "started")
Miss(r) == run[r].status = "due" /\ now = Ticks[r] /\ Becomes(r, "missed")

(* load_config, and the query stage settling its window: both may raise.   *)
Resolve(r) ==
  LET w == resolve_window(now) IN
  /\ run[r].status = "started"
  /\ ValidConfig /\ w.start <= w.end
  /\ run' = [run EXCEPT ![r] = [@ EXCEPT !.status = "resolved", !.start = w.start, !.end = w.end]]
  /\ UNCHANGED world

BadConfig(r) ==
  /\ run[r].status = "started"
  /\ ValidConfig => resolve_window(now).start > resolve_window(now).end
  /\ Becomes(r, "failed")

(* A token is asked for; no credentials, a refusal or a timeout raises.    *)
GetToken(r) == run[r].status = "resolved" /\ Becomes(r, "authorized")
RequestFails(r) == run[r].status \in {"resolved", "authorized"} /\ Becomes(r, "failed")

(* The filter pipeline is posted; the answer becomes the run's alerts.     *)
QueryAlerts(r) ==
  /\ run[r].status = "authorized"
  /\ \E answer \in Answers(run[r]), shape \in Shapes :
       run' = [run EXCEPT ![r] = [@ EXCEPT !.status = "done", !.had = held,
                                           !.known = shape # "other",
                                           !.found = extract_results(shape, answer)]]
  /\ UNCHANGED world

-----------------------------------------------------------------------------
(* The sky, BOOM and the clock.                                            *)

Expose(a) ==
  /\ jd[a] = None
  /\ jd' = [jd EXCEPT ![a] = now]
  /\ UNCHANGED <<now, held, files, run>>

Ingest(a) ==
  /\ jd[a] # None /\ a \notin held
  /\ held' = held \cup {a}
  /\ UNCHANGED <<now, jd, files, run>>

(* The clock passes no tick whose run cron has not dealt with, and no run  *)
(* takes longer than MaxDrift to settle its window.                        *)
Tick ==
  /\ now < MaxTime
  /\ \A r \in Runs : /\ run[r].status = "due" => now < Ticks[r]
                     /\ run[r].status = "started" => now < Ticks[r] + MaxDrift
  /\ now' = now + 1
  /\ UNCHANGED <<jd, held, files, run>>

Next ==
  \/ \E r \in Runs : \/ Start(r) \/ Miss(r)
                     \/ Resolve(r) \/ BadConfig(r)
                     \/ GetToken(r) \/ RequestFails(r) \/ QueryAlerts(r)
  \/ \E a \in Alerts : Expose(a) \/ Ingest(a)
  \/ Tick

Spec == Init /\ [][Next]_vars

-----------------------------------------------------------------------------
(* Properties.                                                             *)

Window == [status : Statuses, start : Int, end : Int,
           had : SUBSET Alerts, known : BOOLEAN, found : SUBSET Alerts]

(* Every variable has the type its declaration describes.                  *)
TypeOK ==
  /\ now \in Nat
  /\ jd \in [Alerts -> Nat \cup {None}]
  /\ held \in SUBSET Alerts
  /\ files \in ConfigFiles
  /\ run \in [Runs -> Window]

Done(r) == run[r].status = "done"
Unlimited == Setting("limit") = None
Trailing == Setting("start") = None /\ Setting("end") = None
InWindow(r, a) == run[r].start <= jd[a] /\ jd[a] <= run[r].end
Full(r) == Cardinality(run[r].found) = Setting("limit")

(* The limit leaves no room for a after the alerts that are newer.         *)
CutOff(r, a) ==
  /\ ~Unlimited /\ Full(r)
  /\ \A b \in run[r].found : jd[b] >= jd[a]

(* Nothing falls between two runs, even when the ones between them failed  *)
(* or were missed, if the lookback is as long as the time from the first   *)
(* tick to the last moment the second may ask: an alert exposed after the  *)
(* first asked and before the second did is in the answer of the second,   *)
(* unless BOOM took it in later, cut it off at the limit, or answered in a *)
(* shape the client does not know.                                         *)
NothingBetween ==
  \A q, r \in Runs : \A a \in Alerts :
    ( /\ q < r /\ Done(q) /\ Done(r) /\ Trailing
      /\ Ticks[r] + MaxDrift - Ticks[q] <= Setting("lookback")
      /\ jd[a] # None /\ run[q].end <= jd[a] /\ jd[a] <= run[r].end )
    => \/ a \in run[r].found
       \/ a \notin run[r].had \/ ~run[r].known \/ CutOff(r, a)

(* What the limit cuts off is lost for good: a later window that reaches   *)
(* as far holds as many newer alerts, so that no run that asks with the    *)
(* same configuration ever brings the alert back.                          *)
CutOffForGood ==
  \A q, r \in Runs : \A a \in Alerts :
    ( /\ Done(q) /\ Done(r) /\ ~Unlimited /\ Full(q)
      /\ run[q].had \subseteq run[r].had /\ run[q].end <= run[r].end
      /\ a \notin run[q].found /\ jd[a] # None
      /\ \A b \in run[q].found : jd[b] > jd[a] )
    => a \notin run[r].found

(* A run that reports fewer alerts than the limit has missed none of its   *)
(* window that BOOM held, if it could read the answer: only a full answer  *)
(* is a reason to look at a window again.                                  *)
CompleteBelowLimit ==
  \A r \in Runs : Done(r) /\ run[r].known /\ (Unlimited \/ ~Full(r)) =>
    \A a \in run[r].had : InWindow(r, a) => a \in run[r].found

(* Asking again with both bounds given repairs what a run lost: whatever   *)
(* the time it is asked at, the window is the same, and the answer, where  *)
(* no limit cuts it, holds at least what an earlier one held.              *)
RepeatedFindsAll ==
  \A q, r \in Runs :
    ( /\ Done(q) /\ Done(r) /\ run[r].known /\ Unlimited
      /\ Setting("start") # None /\ Setting("end") # None
      /\ run[q].had \subseteq run[r].had )
    => run[q].found \subseteq run[r].found
=============================================================================
