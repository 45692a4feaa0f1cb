--------------------------- MODULE AlertQueryProofs ---------------------------
(***************************************************************************)
(* Proofs about AlertQuery, for any schedule, any number of alerts and any *)
(* configuration.                                                          *)
(***************************************************************************)
EXTENDS AlertQuery, FiniteSetTheorems, TLAPS

(* The setting the layered files give is a number or is not given.         *)
LEMMA SettingType ==
  ASSUME files \in ConfigFiles, NEW s \in Settings
  PROVE  Setting(s) \in Nat \cup {None}
<1> DEFINE gives(i) == s \in DOMAIN files[i]
           last == {i \in DOMAIN files : gives(i) /\ \A j \in DOMAIN files : gives(j) => j <= i}
<1>1. CASE last = {}
  BY <1>1 DEF Setting
<1>2. CASE last # {}
  <2>1. (CHOOSE i \in last : TRUE) \in last
    BY <1>2
  <2>2. files[CHOOSE i \in last : TRUE][s] \in Nat
    BY <2>1, QueryAssumption
  <2> QED BY <1>2, <2>2 DEF Setting
<1> QED BY <1>1, <1>2

(* The alerts of its window that BOOM held when a run asked.               *)
Hits(r) == {a \in run[r].had : InWindow(r, a)}

(* How a settled window lies with respect to the tick of its run.          *)
Settled(r) ==
  /\ ValidConfig
  /\ Trailing => /\ run[r].start = run[r].end - Setting("lookback")
                 /\ Ticks[r] <= run[r].end /\ run[r].end <= Ticks[r] + MaxDrift
  /\ Setting("start") # None => run[r].start = Setting("start")
  /\ Setting("end") # None => run[r].end = Setting("end")

(* What a run has found of what BOOM held.                                 *)
Answered(r) ==
  /\ run[r].had \subseteq held
  /\ ~run[r].known => run[r].found = {}
  /\ run[r].known =>
       /\ run[r].found \subseteq Hits(r)
       /\ \/ run[r].found = Hits(r)
             /\ (Unlimited \/ Cardinality(Hits(r)) <= Setting("limit"))
          \/ /\ ~Unlimited /\ Full(r)
             /\ \A a \in run[r].found, b \in Hits(r) \ run[r].found : jd[a] >= jd[b]

(* The moments a run can be at, by how far it is.                          *)
OnTime(r) ==
  /\ run[r].status = "due" => now <= Ticks[r]
  /\ run[r].status = "started" => Ticks[r] <= now /\ now <= Ticks[r] + MaxDrift

RunInv ==
  /\ \A a \in held : jd[a] # None
  /\ \A r \in Runs :
       /\ OnTime(r)
       /\ run[r].status \in {"resolved", "authorized", "done"} => Settled(r)
       /\ run[r].status = "done" => Answered(r)

IInv == TypeOK /\ RunInv

-----------------------------------------------------------------------------
(* The window a run settles is one of numbers.                             *)
LEMMA WindowType ==
  ASSUME TypeOK, ValidConfig
  PROVE  /\ resolve_window(now).start \in Int /\ resolve_window(now).end \in Int
         /\ Setting("start") = None => /\ Setting("lookback") \in Nat
                                       /\ resolve_window(now).start =
                                            resolve_window(now).end - Setting("lookback")
         /\ Setting("start") # None => resolve_window(now).start = Setting("start")
         /\ Setting("end") = None => resolve_window(now).end = now
         /\ Setting("end") # None => resolve_window(now).end = Setting("end")
<1>1. \A s \in Settings : Setting(s) \in Nat \cup {None}
  BY SettingType DEF TypeOK
<1>2. /\ Setting("start") \in Nat \cup {None} /\ Setting("end") \in Nat \cup {None}
      /\ Setting("lookback") \in Nat \cup {None}
  BY <1>1 DEF Settings
<1>3. Setting("start") = None => Setting("lookback") \in Nat
  BY <1>2 DEF ValidConfig
<1> QED BY <1>2, <1>3 DEF resolve_window, TypeOK

(* The schedule starts with every run due and no alert exposed.            *)
LEMMA InitInv == Init => IInv
BY QueryAssumption DEF Init, IInv, TypeOK, RunInv, OnTime, Due, Window, Statuses, Runs

(* A step of a run that only changes how far it is keeps the types.        *)
LEMMA BecomesType ==
  ASSUME TypeOK, NEW r \in Runs, NEW status \in Statuses, Becomes(r, status)
  PROVE  TypeOK'
BY DEF Becomes, TypeOK, Window, world

(* Every step preserves the types.                                         *)
LEMMA TypeStep ==
  ASSUME TypeOK, [Next]_vars
  PROVE  TypeOK'
<1>1. ASSUME NEW r \in Runs, Start(r) \/ Miss(r) \/ BadConfig(r) \/ GetToken(r) \/ RequestFails(r)
      PROVE  TypeOK'
  BY <1>1, BecomesType DEF Start, Miss, BadConfig, GetToken, RequestFails, Statuses
<1>2. ASSUME NEW r \in Runs, Resolve(r)
      PROVE  TypeOK'
  <2> DEFINE w == resolve_window(now)
  <2>1. w.start \in Int /\ w.end \in Int
    BY <1>2, WindowType DEF Resolve
  <2>2. run' = [run EXCEPT ![r] = [run[r] EXCEPT !.status = "resolved",
                                                  !.start = w.start, !.end = w.end]]
    BY <1>2 DEF Resolve
  <2>3. UNCHANGED world
    BY <1>2 DEF Resolve
  <2> DEFINE after == [run[r] EXCEPT !.status = "resolved", !.start = w.start, !.end = w.end]
  <2> HIDE DEF w
  <2>4. after \in Window
    BY <2>1 DEF TypeOK, Window, Statuses
  <2> HIDE DEF after
  <2>5. run' = [run EXCEPT ![r] = after]
    BY <2>2 DEF after
  <2> QED BY <2>3, <2>4, <2>5 DEF TypeOK, world
<1>3. ASSUME NEW r \in Runs, QueryAlerts(r)
      PROVE  TypeOK'
  <2>1. PICK answer \in Answers(run[r]), shape \in Shapes :
          run' = [run EXCEPT ![r] = [run[r] EXCEPT !.status = "done", !.had = held,
                                                   !.known = shape # "other",
                                                   !.found = extract_results(shape, answer)]]
    BY <1>3 DEF QueryAlerts
  <2>2. answer \in SUBSET Alerts
    BY <2>1 DEF Answers, TypeOK
  <2>3. extract_results(shape, answer) \in SUBSET Alerts
    BY <2>2 DEF extract_results
  <2> DEFINE after == [run[r] EXCEPT !.status = "done", !.had = held,
                                     !.known = shape # "other",
                                     !.found = extract_results(shape, answer)]
  <2>4. after \in Window
    BY <2>3 DEF TypeOK, Window, Statuses
  <2> HIDE DEF after
  <2>5. run' = [run EXCEPT ![r] = after]
    BY <2>1 DEF after
  <2> QED BY <1>3, <2>4, <2>5 DEF QueryAlerts, TypeOK, world
<1>4. ASSUME NEW a \in Alerts, Expose(a) \/ Ingest(a)
      PROVE  TypeOK'
  BY <1>4 DEF Expose, Ingest, TypeOK
<1>5. CASE Tick
  BY <1>5 DEF Tick, TypeOK
<1>6. CASE UNCHANGED vars
  BY <1>6 DEF vars, world, TypeOK
<1> QED BY <1>1, <1>2, <1>3, <1>4, <1>5, <1>6 DEF Next

-----------------------------------------------------------------------------
(* The configuration is the same at every step.                            *)
LEMMA SameConfig ==
  ASSUME files' = files
  PROVE  /\ \A s : Setting(s)' = Setting(s)
         /\ ValidConfig' = ValidConfig /\ Trailing' = Trailing /\ Unlimited' = Unlimited
<1>1. \A s : Setting(s)' = Setting(s)
  BY DEF Setting
<1> QED BY <1>1 DEF ValidConfig, Trailing, Unlimited

(* Where only how far a run is changes, and not to an answer, what is said *)
(* of its window and its answer stays.                                     *)
LEMMA BecomesInv ==
  ASSUME IInv, NEW r \in Runs, NEW status \in Statuses \ {"done", "due"}, Becomes(r, status),
         status = "started" => run[r].status = "due" /\ now = Ticks[r],
         status \in {"resolved", "authorized"} =>
           run[r].status \in {"resolved", "authorized"}
  PROVE  RunInv'
<1> SUFFICES ASSUME NEW q \in Runs
             PROVE  /\ OnTime(q)'
                    /\ run'[q].status \in {"resolved", "authorized", "done"} => Settled(q)'
                    /\ run'[q].status = "done" => Answered(q)'
  BY DEF RunInv, IInv, Becomes, world
<1>1. run' = [run EXCEPT ![r].status = status] /\ UNCHANGED world
  BY DEF Becomes
<1>2. q # r => run'[q] = run[q]
  BY <1>1 DEF IInv, TypeOK
<1>3. run'[r] = [run[r] EXCEPT !.status = status]
  BY <1>1 DEF IInv, TypeOK
<1>4. /\ run'[q].start = run[q].start /\ run'[q].end = run[q].end
      /\ run'[q].had = run[q].had /\ run'[q].known = run[q].known /\ run'[q].found = run[q].found
  BY <1>2, <1>3 DEF IInv, TypeOK, Window
<1>5. run'[r].status = status
  BY <1>3 DEF IInv, TypeOK, Window
<1>6. OnTime(q)'
  <2>1. CASE q = r
    BY <1>1, <1>5, <2>1, QueryAssumption DEF OnTime, IInv, TypeOK, world
  <2>2. CASE q # r
    BY <1>1, <1>2, <2>2 DEF OnTime, IInv, RunInv, world
  <2> QED BY <2>1, <2>2
<1>7. run'[q].status \in {"resolved", "authorized", "done"} =>
        run[q].status \in {"resolved", "authorized", "done"}
  BY <1>2, <1>5
<1>8. Settled(q)' = Settled(q)
  BY <1>1, <1>4, SameConfig DEF Settled, world
<1>9. run'[q].status = "done" => run[q].status = "done"
  BY <1>2, <1>5
<1>10. Answered(q)' = Answered(q)
  BY <1>1, <1>4, SameConfig DEF Answered, Hits, InWindow, Full, world
<1> QED BY <1>6, <1>7, <1>8, <1>9, <1>10 DEF IInv, RunInv

(* What is said of a run whose record and whose alerts a step leaves alone.*)
LEMMA OtherRuns ==
  ASSUME IInv, NEW q \in Runs, run'[q] = run[q], files' = files, held \subseteq held',
         \A a \in held : jd'[a] = jd[a]
  PROVE  /\ run'[q].status \in {"resolved", "authorized", "done"} => Settled(q)'
         /\ run'[q].status = "done" => Answered(q)'
<1>1. Settled(q)' = Settled(q)
  BY SameConfig DEF Settled
<1>2. ASSUME Answered(q)
      PROVE  Answered(q)'
  <2>1. run[q].had \subseteq held /\ run'[q].had \subseteq held'
    BY <1>2 DEF Answered
  <2>2. Hits(q)' = Hits(q)
    BY <2>1 DEF Hits, InWindow
  <2>3. run[q].known => run[q].found \subseteq held
    BY <1>2, <2>1 DEF Answered, Hits
  <2>4. run[q].known /\ ~Unlimited /\ Full(q) =>
          ( (\A a \in run[q].found, b \in Hits(q) \ run[q].found : jd[a] >= jd[b])
            => (\A a \in run[q].found, b \in Hits(q) \ run[q].found : jd'[a] >= jd'[b]) )
    BY <2>1, <2>3 DEF Hits
  <2>5. Unlimited' = Unlimited /\ Setting("limit")' = Setting("limit") /\ Full(q)' = Full(q)
    BY SameConfig DEF Full
  <2> QED BY <1>2, <2>1, <2>2, <2>4, <2>5 DEF Answered
<1> QED BY <1>1, <1>2 DEF IInv, RunInv

(* A window is settled at the moment the run asks.                         *)
LEMMA ResolveInv ==
  ASSUME IInv, NEW r \in Runs, Resolve(r)
  PROVE  RunInv'
<1> DEFINE w == resolve_window(now)
           after == [run[r] EXCEPT !.status = "resolved", !.start = w.start, !.end = w.end]
<1>1. ValidConfig /\ run[r].status = "started" /\ UNCHANGED world
  BY DEF Resolve
<1>2. run' = [run EXCEPT ![r] = after]
  BY DEF Resolve
<1>3. /\ Setting("start") = None => w.start = w.end - Setting("lookback")
      /\ Setting("start") # None => w.start = Setting("start")
      /\ Setting("end") = None => w.end = now
      /\ Setting("end") # None => w.end = Setting("end")
  BY <1>1, WindowType DEF IInv
<1> HIDE DEF w
<1>4. after.status = "resolved" /\ after.start = w.start /\ after.end = w.end
  BY DEF IInv, TypeOK, Window
<1> HIDE DEF after
<1>5. run'[r] = after /\ \A q \in Runs \ {r} : run'[q] = run[q]
  BY <1>2 DEF IInv, TypeOK
<1>6. Ticks[r] <= now /\ now <= Ticks[r] + MaxDrift
  BY <1>1 DEF IInv, RunInv, OnTime
<1>7. Settled(r)'
  BY <1>1, <1>3, <1>4, <1>5, <1>6, SameConfig DEF Settled, Trailing, world
<1>8. ASSUME NEW q \in Runs
      PROVE  OnTime(q)'
  <2>1. CASE q = r
    BY <1>4, <1>5, <2>1 DEF OnTime
  <2>2. CASE q # r
    BY <1>1, <1>5, <2>2 DEF OnTime, IInv, RunInv, world
  <2> QED BY <2>1, <2>2
<1>9. \A q \in Runs \ {r} :
        /\ run'[q].status \in {"resolved", "authorized", "done"} => Settled(q)'
        /\ run'[q].status = "done" => Answered(q)'
  BY <1>1, <1>5, OtherRuns DEF world
<1> QED BY <1>1, <1>4, <1>5, <1>7, <1>8, <1>9 DEF RunInv, IInv, world

(* An answer holds what BOOM has of the window, the newest if not all.     *)
LEMMA QueryInv ==
  ASSUME IInv, NEW r \in Runs, QueryAlerts(r)
  PROVE  RunInv'
<1>1. PICK answer \in Answers(run[r]), shape \in Shapes :
        run' = [run EXCEPT ![r] = [run[r] EXCEPT !.status = "done", !.had = held,
                                                 !.known = shape # "other",
                                                 !.found = extract_results(shape, answer)]]
  BY DEF QueryAlerts
<1> DEFINE after == [run[r] EXCEPT !.status = "done", !.had = held,
                                   !.known = shape # "other",
                                   !.found = extract_results(shape, answer)]
<1>2. run[r].status = "authorized" /\ UNCHANGED world
  BY DEF QueryAlerts
<1>3. /\ after.status = "done" /\ after.start = run[r].start /\ after.end = run[r].end
      /\ after.had = held /\ after.known = (shape # "other")
      /\ after.found = extract_results(shape, answer)
  BY DEF IInv, TypeOK, Window
<1>4. run' = [run EXCEPT ![r] = after]
  BY <1>1
<1> HIDE DEF after
<1>5. run'[r] = after /\ \A q \in Runs \ {r} : run'[q] = run[q]
  BY <1>4 DEF IInv, TypeOK
<1>6. Settled(r)'
  BY <1>2, <1>3, <1>5, SameConfig DEF Settled, IInv, RunInv, world
<1>7. Answered(r)'
  <2> DEFINE hits == {a \in held : run[r].start <= jd[a] /\ jd[a] <= run[r].end}
  <2>1. Hits(r)' = hits
    BY <1>2, <1>3, <1>5 DEF Hits, InWindow, world
  <2>2. \/ answer = hits /\ (Unlimited \/ Cardinality(hits) <= Setting("limit"))
        \/ /\ ~Unlimited /\ answer \in SUBSET hits /\ Cardinality(answer) = Setting("limit")
           /\ \A a \in answer, b \in hits \ answer : jd[a] >= jd[b]
    BY <1>1 DEF Answers, Unlimited, SortsBefore
  <2>3. /\ run'[r].had = held /\ held' = held
        /\ ~run'[r].known => run'[r].found = {}
        /\ run'[r].known => run'[r].found = answer
    BY <1>2, <1>3, <1>5 DEF extract_results, world
  <2>4. jd' = jd /\ Unlimited' = Unlimited /\ Setting("limit")' = Setting("limit")
    BY <1>2, SameConfig DEF world
  <2> HIDE DEF hits
  <2> QED BY <2>1, <2>2, <2>3, <2>4 DEF Answered, Full
<1>8. ASSUME NEW q \in Runs
      PROVE  OnTime(q)'
  <2>1. CASE q = r
    BY <1>3, <1>5, <2>1 DEF OnTime
  <2>2. CASE q # r
    BY <1>2, <1>5, <2>2 DEF OnTime, IInv, RunInv, world
  <2> QED BY <2>1, <2>2
<1>9. \A q \in Runs \ {r} :
        /\ run'[q].status \in {"resolved", "authorized", "done"} => Settled(q)'
        /\ run'[q].status = "done" => Answered(q)'
  BY <1>2, <1>5, OtherRuns DEF world
<1> QED BY <1>2, <1>5, <1>6, <1>7, <1>8, <1>9 DEF RunInv, IInv, world

(* Every step preserves what is said of the runs.                          *)
LEMMA RunStep ==
  ASSUME IInv, [Next]_vars
  PROVE  RunInv'
<1>1. ASSUME NEW r \in Runs, Start(r)
      PROVE  RunInv'
  BY <1>1, BecomesInv DEF Start, Statuses
<1>2. ASSUME NEW r \in Runs, Miss(r) \/ BadConfig(r) \/ RequestFails(r)
      PROVE  RunInv'
  BY <1>2, BecomesInv DEF Miss, BadConfig, RequestFails, Statuses
<1>3. ASSUME NEW r \in Runs, GetToken(r)
      PROVE  RunInv'
  BY <1>3, BecomesInv DEF GetToken, Statuses
<1>4. ASSUME NEW r \in Runs, Resolve(r) \/ QueryAlerts(r)
      PROVE  RunInv'
  BY <1>4, ResolveInv, QueryInv
<1>5. ASSUME NEW a \in Alerts, Expose(a) \/ Ingest(a)
      PROVE  RunInv'
  <2>1. /\ files' = files /\ run' = run /\ now' = now /\ held \subseteq held'
        /\ \A b \in held : jd'[b] = jd[b]
        /\ \A b \in held' : jd'[b] # None
    BY <1>5, QueryAssumption DEF Expose, Ingest, IInv, RunInv, TypeOK
  <2>2. \A q \in Runs : OnTime(q)'
    BY <2>1 DEF OnTime, IInv, RunInv
  <2>3. \A q \in Runs : /\ run'[q].status \in {"resolved", "authorized", "done"} => Settled(q)'
                        /\ run'[q].status = "done" => Answered(q)'
    BY <2>1, OtherRuns
  <2> QED BY <2>1, <2>2, <2>3 DEF RunInv
<1>6. CASE Tick
  <2>1. UNCHANGED <<jd, held, files, run>>
    BY <1>6 DEF Tick
  <2>2. \A q \in Runs : OnTime(q)'
    BY <1>6, QueryAssumption DEF Tick, OnTime, IInv, RunInv, TypeOK
  <2>3. \A q \in Runs : /\ run'[q].status \in {"resolved", "authorized", "done"} => Settled(q)'
                        /\ run'[q].status = "done" => Answered(q)'
    BY <2>1, OtherRuns
  <2> QED BY <2>1, <2>2, <2>3 DEF RunInv, IInv
<1>7. CASE UNCHANGED vars
  <2>1. UNCHANGED <<jd, held, files, run, now>>
    BY <1>7 DEF vars, world
  <2>2. \A q \in Runs : OnTime(q)'
    BY <2>1 DEF OnTime, IInv, RunInv
  <2>3. \A q \in Runs : /\ run'[q].status \in {"resolved", "authorized", "done"} => Settled(q)'
                        /\ run'[q].status = "done" => Answered(q)'
    BY <2>1, OtherRuns
  <2> QED BY <2>1, <2>2, <2>3 DEF RunInv, IInv
<1> QED BY <1>1, <1>2, <1>3, <1>4, <1>5, <1>6, <1>7 DEF Next

(* The invariant holds at every moment of every schedule.                  *)
LEMMA Invariance == Spec => []IInv
<1>1. IInv /\ [Next]_vars => IInv'
  BY TypeStep, RunStep DEF IInv
<1> QED BY InitInv, <1>1, PTL DEF Spec

-----------------------------------------------------------------------------
(* Every variable has the type its declaration describes.                  *)
THEOREM QueryTypeCorrect == Spec => []TypeOK
BY Invariance, PTL DEF IInv

-----------------------------------------------------------------------------
(* The limit is a positive number, where there is one, and a set of alerts *)
(* has a size.                                                             *)
LEMMA LimitType ==
  ASSUME TypeOK, ValidConfig, ~Unlimited
  PROVE  Setting("limit") \in Nat \ {0}
BY SettingType DEF TypeOK, ValidConfig, Unlimited, Settings

(* No answer is larger than the limit.                                     *)
LEMMA FoundFits ==
  ASSUME IInv, NEW r \in Runs, Done(r), ~Unlimited
  PROVE  /\ IsFiniteSet(run[r].found) /\ Cardinality(run[r].found) \in Nat
         /\ Cardinality(run[r].found) <= Setting("limit")
<1>1. Settled(r) /\ Answered(r)
  BY DEF IInv, RunInv, Done
<1>2. Setting("limit") \in Nat \ {0}
  BY <1>1, LimitType DEF IInv, Settled
<1>3. IsFiniteSet(run[r].found)
  BY QueryAssumption, FS_Subset DEF IInv, TypeOK, Window
<1>4. Cardinality(run[r].found) \in Nat
  BY <1>3, FS_CardinalityType
<1>5. CASE run[r].known
  BY <1>1, <1>2, <1>3, <1>4, <1>5 DEF Answered, Full
<1>6. CASE ~run[r].known
  BY <1>1, <1>2, <1>6, FS_EmptySet DEF Answered
<1> QED BY <1>3, <1>4, <1>5, <1>6

(* The window of a run reaches back to where the one before it ended, if   *)
(* the lookback is as long as the time between them may be.                *)
LEMMA BetweenInv == IInv => NothingBetween
<1> SUFFICES ASSUME IInv, NEW q \in Runs, NEW r \in Runs, NEW a \in Alerts,
                    Done(q), Done(r), Trailing,
                    Ticks[r] + MaxDrift - Ticks[q] <= Setting("lookback"),
                    jd[a] # None, run[q].end <= jd[a], jd[a] <= run[r].end,
                    a \notin run[r].found, a \in run[r].had, run[r].known
             PROVE  CutOff(r, a)
  BY DEF NothingBetween
<1>1. Settled(q) /\ Settled(r) /\ Answered(r)
  BY DEF IInv, RunInv, Done
<1>2. Setting("lookback") \in Nat
  BY <1>1, WindowType DEF IInv, Settled, Trailing
<1>3. run[r].start <= run[q].end
  BY <1>1, <1>2, QueryAssumption DEF Settled, IInv, TypeOK, Window
<1>4. a \in Hits(r)
  BY <1>3, QueryAssumption DEF Hits, InWindow, IInv, TypeOK, Window
<1> QED BY <1>1, <1>4 DEF Answered, CutOff

(* Nothing falls between two runs of a schedule whose lookback allows for  *)
(* the drift, however many runs between them failed or were missed.        *)
THEOREM QueryLeavesNoGap == Spec => []NothingBetween
BY Invariance, BetweenInv, PTL

(* The alerts of a full answer are in every later window that reaches as   *)
(* far back as the one they pushed out, and push it out of that too.       *)
LEMMA CutOffInv == IInv => CutOffForGood
<1> SUFFICES ASSUME IInv, NEW q \in Runs, NEW r \in Runs, NEW a \in Alerts,
                    Done(q), Done(r), ~Unlimited, Full(q),
                    run[q].had \subseteq run[r].had, run[q].end <= run[r].end,
                    a \notin run[q].found, jd[a] # None,
                    \A b \in run[q].found : jd[b] > jd[a],
                    a \in run[r].found
             PROVE  FALSE
  BY DEF CutOffForGood
<1>1. Settled(q) /\ Answered(q) /\ Answered(r)
  BY DEF IInv, RunInv, Done
<1>2. Setting("limit") \in Nat \ {0}
  BY <1>1, LimitType DEF IInv, Settled
<1>3. run[q].known
  BY <1>1, <1>2, FS_EmptySet DEF Answered, Full
<1>4. run[r].known /\ a \in Hits(r)
  BY <1>1 DEF Answered
<1>5. ASSUME NEW b \in run[q].found
      PROVE  b \in Hits(r)
  <2>1. b \in Hits(q)
    BY <1>1, <1>3 DEF Answered
  <2>2. b \in held /\ jd[b] \in Nat /\ jd[a] \in Nat
    BY <1>1, <2>1 DEF Answered, Hits, IInv, RunInv, TypeOK
  <2>3. run[r].start <= jd[b] /\ jd[b] <= run[r].end
    BY <1>4, <2>1, <2>2 DEF Hits, InWindow, IInv, TypeOK, Window
  <2> QED BY <2>1, <2>3 DEF Hits, InWindow
<1>6. run[q].found \subseteq run[r].found
  <2> SUFFICES ASSUME NEW b \in run[q].found, b \notin run[r].found
               PROVE  FALSE
    OBVIOUS
  <2>1. b \in Hits(r) \ run[r].found /\ jd[b] > jd[a]
    BY <1>5
  <2>2. jd[a] >= jd[b]
    BY <1>1, <1>4, <2>1 DEF Answered
  <2>3. jd[a] \in Nat /\ jd[b] \in Nat
    BY <1>1, <2>1 DEF Answered, Hits, IInv, RunInv, TypeOK
  <2> QED BY <2>1, <2>2, <2>3
<1>7. /\ IsFiniteSet(run[q].found) /\ IsFiniteSet(run[r].found)
      /\ Cardinality(run[r].found) \in Nat /\ Cardinality(run[r].found) <= Setting("limit")
  BY FoundFits
<1>8. Cardinality(run[q].found \cup {a}) = Setting("limit") + 1
  BY <1>7, FS_AddElement DEF Full
<1>9. Cardinality(run[q].found \cup {a}) <= Cardinality(run[r].found)
  BY <1>6, <1>7, FS_Subset
<1> QED BY <1>2, <1>7, <1>8, <1>9

(* What the limit cuts off is lost for good.                               *)
THEOREM QueryCutOffStays == Spec => []CutOffForGood
BY Invariance, CutOffInv, PTL

(* An answer short of the limit is the whole window.                       *)
LEMMA CompleteInv == IInv => CompleteBelowLimit
BY DEF IInv, RunInv, Done, Answered, Hits, CompleteBelowLimit

(* A run that reports fewer alerts than the limit has missed nothing that  *)
(* BOOM held, if it could read the answer.                                 *)
THEOREM QueryComplete == Spec => []CompleteBelowLimit
BY Invariance, CompleteInv, PTL

(* Explicit bounds make the same window at any time.                       *)
LEMMA RepeatedInv == IInv => RepeatedFindsAll
<1> SUFFICES ASSUME IInv, NEW q \in Runs, NEW r \in Runs, Done(q), Done(r),
                    run[r].known, Unlimited,
                    Setting("start") # None, Setting("end") # None,
                    run[q].had \subseteq run[r].had
             PROVE  run[q].found \subseteq run[r].found
  BY DEF RepeatedFindsAll
<1>1. Settled(q) /\ Settled(r) /\ Answered(q) /\ Answered(r)
  BY DEF IInv, RunInv, Done
<1>2. run[q].start = run[r].start /\ run[q].end = run[r].end
  BY <1>1 DEF Settled
<1>3. Hits(q) \subseteq Hits(r)
  BY <1>2 DEF Hits, InWindow
<1>4. run[r].found = Hits(r)
  BY <1>1 DEF Answered
<1>5. run[q].found \subseteq Hits(q)
  BY <1>1 DEF Answered
<1> QED BY <1>3, <1>4, <1>5

(* Asking again with both bounds given finds at least what an earlier run  *)
(* with the same bounds found.                                             *)
THEOREM QueryRepeats == Spec => []RepeatedFindsAll
BY Invariance, RepeatedInv, PTL
=============================================================================
