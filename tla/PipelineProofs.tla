--------------------------- MODULE PipelineProofs ---------------------------
(***************************************************************************)
(* Theorems about Pipeline.  A run works through stages_for: what is on    *)
(* record lies behind the place it is at, what its stage requires is       *)
(* there, and from these facts the properties of the record, and of the    *)
(* messages made from it, follow.                                          *)
(***************************************************************************)
EXTENDS Pipeline, SequenceTheorems, TLAPS

-----------------------------------------------------------------------------
(* The inductive invariants.                                               *)

LastPlace == Len(stages_for)

Types == TypeOK /\ DOMAIN results = Runs

(* Nothing is on record for a run that has not started.                    *)
Begins(r) == pc[r] = "idle" => at[r] = 1 /\ DOMAIN results[r] = {}

Placed(r) ==
  /\ pc[r] \in {"stage", "post"} => at[r] <= LastPlace
  /\ pc[r] = "post" => stage(r) = "slack_publish" /\ FilterNames \subseteq DOMAIN results[r]

(* What is on record lies behind the place a run is at.                    *)
Ahead(r) == \A i \in at[r] .. LastPlace : stages_for[i] \notin DOMAIN results[r]

(* slack_publish is the one stage that may miss a result.                  *)
Supplied(r) ==
  pc[r] = "stage" /\ stage(r) # "slack_publish" => requires(stage(r)) \subseteq DOMAIN results[r]

ProgressInv == Types /\ \A r \in Runs : Begins(r) /\ Placed(r) /\ Ahead(r) /\ Supplied(r)

(* What a filter found it cut from the alerts the run placed, or it is the *)
(* stand-in for the first filter.                                          *)
FoundIn(r, f) ==
  \/ /\ "distance" \in DOMAIN results[r] /\ f \notin Disabled[r]
     /\ results[r][f].frame \subseteq results[r]["distance"].frame
  \/ "distance" \notin DOMAIN results[r] /\ f = Filters[1]

Found(r) ==
  \A f \in FilterNames \cap DOMAIN results[r] : HasCandidates(r, f) => FoundIn(r, f)

(* While a run posts, a filter that found something is still to be posted, *)
(* or is on the channel, or was rejected.                                  *)
Collected(r) ==
  pc[r] = "post" =>
    /\ \A f \in toPost[r] : HasCandidates(r, f)
    /\ MayPost(r) => \A f \in FilterNames : HasCandidates(r, f) =>
         f \in toPost[r] \/ Message(r, f) \in Posted \/ f \in rejected[r]

Reported(r) ==
  pc[r] = "done" /\ MayPost(r) =>
    \A f \in FilterNames \cap DOMAIN results[r] :
      HasCandidates(r, f) => Message(r, f) \in Posted

RecordInv == SkippedForCause /\ \A r \in Runs : Found(r)

PostInv == AnnouncedWasFound /\ \A r \in Runs : Collected(r) /\ Reported(r)

-----------------------------------------------------------------------------
(* The order of the stages and what they require.                          *)

(* The filters stand between distance and slack_publish, in their order.   *)
LEMMA Order ==
  /\ Len(Filters) \in Nat \ {0} /\ LastPlace = Len(Filters) + 4
  /\ DOMAIN stages_for = 1 .. LastPlace
  /\ stages_for[1] = "query" /\ stages_for[2] = "crossmatch" /\ stages_for[3] = "distance"
  /\ \A i \in 1 .. Len(Filters) : stages_for[i + 3] = Filters[i]
  /\ stages_for[LastPlace] = "slack_publish"
<1>. DEFINE S == STRING \cup {"query", "crossmatch", "distance", "slack_publish"}
            front == DATA_STAGES \o Filters
            end == <<"slack_publish">>
<1>1. Filters \in Seq(S) /\ Len(Filters) \in Nat \ {0}
  BY PipelineAssumption, SeqDef
<1>2. /\ DATA_STAGES \in Seq(S) /\ Len(DATA_STAGES) = 3 /\ DATA_STAGES[1] = "query"
      /\ DATA_STAGES[2] = "crossmatch" /\ DATA_STAGES[3] = "distance"
  BY DEF DATA_STAGES
<1>3. end \in Seq(S) /\ Len(end) = 1 /\ end[1] = "slack_publish"
  OBVIOUS
<1>. HIDE DEF S, end
<1>4. /\ front \in Seq(S) /\ Len(front) = Len(Filters) + 3
      /\ \A i \in 1 .. 3 : front[i] = DATA_STAGES[i]
      /\ \A i \in 1 .. Len(Filters) : front[i + 3] = Filters[i]
  <2>. HIDE DEF front
  <2>1. front = DATA_STAGES \o Filters
    BY DEF front
  <2>2. /\ front \in Seq(S) /\ Len(front) = Len(DATA_STAGES) + Len(Filters)
        /\ \A i \in 1 .. Len(DATA_STAGES) + Len(Filters) : front[i] =
              IF i <= Len(DATA_STAGES) THEN DATA_STAGES[i] ELSE Filters[i - Len(DATA_STAGES)]
    BY <1>1, <1>2, <2>1, ConcatProperties, Zenon
  <2>3. \A i \in 1 .. 3 : front[i] = DATA_STAGES[i]
    BY <1>1, <1>2, <2>2
  <2>4. ASSUME NEW i \in 1 .. Len(Filters) PROVE front[i + 3] = Filters[i]
    <3>1. i + 3 \in 1 .. 3 + Len(Filters) /\ ~ i + 3 <= 3 /\ i + 3 - 3 = i
      BY <1>1
    <3>. QED
      BY <1>2, <2>2, <3>1
  <2>. QED
    BY <1>1, <1>2, <2>2, <2>3, <2>4
<1>. HIDE DEF front
<1>5. /\ LastPlace = Len(Filters) + 4 /\ DOMAIN stages_for = 1 .. LastPlace
      /\ \A i \in 1 .. Len(Filters) + 3 : stages_for[i] = front[i]
      /\ stages_for[LastPlace] = "slack_publish"
  <2>1. stages_for = front \o end
    BY DEF stages_for, front, end
  <2>2. /\ stages_for \in Seq(S) /\ Len(stages_for) = Len(front) + Len(end)
        /\ \A i \in 1 .. Len(front) + Len(end) : stages_for[i] =
              IF i <= Len(front) THEN front[i] ELSE end[i - Len(front)]
    BY <1>3, <1>4, <2>1, ConcatProperties, Zenon
  <2>3. LastPlace = Len(Filters) + 4 /\ DOMAIN stages_for = 1 .. LastPlace
    BY <1>1, <1>3, <1>4, <2>2 DEF LastPlace
  <2>4. \A i \in 1 .. Len(Filters) + 3 : stages_for[i] = front[i]
    BY <1>1, <1>3, <1>4, <2>2
  <2>5. LastPlace \in 1 .. Len(front) + 1 /\ ~ LastPlace <= Len(front) /\ LastPlace - Len(front) = 1
    BY <1>1, <1>4, <2>3
  <2>6. stages_for[LastPlace] = "slack_publish"
    BY <1>3, <2>2, <2>5
  <2>. QED
    BY <2>3, <2>4, <2>6
<1>6. stages_for[1] = "query" /\ stages_for[2] = "crossmatch" /\ stages_for[3] = "distance"
  BY <1>1, <1>2, <1>4, <1>5
<1>7. \A i \in 1 .. Len(Filters) : stages_for[i + 3] = Filters[i]
  BY <1>1, <1>4, <1>5
<1>. QED
  BY <1>1, <1>5, <1>6, <1>7

LEMMA Distinct ==
  \A i, j \in 1 .. LastPlace : stages_for[i] = stages_for[j] => i = j
BY Order, PipelineAssumption DEF IsInjective

LEMMA Names ==
  /\ FilterNames = {Filters[i] : i \in 1 .. Len(Filters)}
  /\ Stages = {stages_for[i] : i \in 1 .. LastPlace}
  /\ Filters[1] \in FilterNames /\ FilterNames \subseteq Stages
  /\ {"query", "crossmatch", "distance", "slack_publish"} \cap FilterNames = {}
<1>1. FilterNames = {Filters[i] : i \in 1 .. Len(Filters)}
  BY PipelineAssumption DEF FilterNames, ToSet
<1>2. ToSet(DATA_STAGES) = {"query", "crossmatch", "distance"}
  BY DEF ToSet, DATA_STAGES
<1>3. Filters[1] \in FilterNames /\ FilterNames \subseteq Stages
  BY <1>1, Order DEF Stages
<1>4. {"query", "crossmatch", "distance", "slack_publish"} \cap FilterNames = {}
  <2>1. \A i \in 1 .. Len(Filters) :
          i + 3 \in 1 .. LastPlace /\ i + 3 \notin {1, 2, 3, LastPlace}
    BY Order
  <2>2. \A i \in 1 .. Len(Filters), k \in {1, 2, 3, LastPlace} : stages_for[k] # Filters[i]
    BY <2>1, Order, Distinct
  <2>. QED
    BY <1>1, <2>2, Order
<1>5. ASSUME NEW s \in Stages PROVE \E i \in 1 .. LastPlace : s = stages_for[i]
  <2>1. CASE s \in FilterNames
    <3>1. PICK i \in 1 .. Len(Filters) : s = Filters[i]
      BY <1>1, <2>1
    <3>2. i + 3 \in 1 .. LastPlace /\ s = stages_for[i + 3]
      BY <3>1, Order
    <3>. QED
      BY <3>2
  <2>2. CASE s \notin FilterNames
    <3>1. s \in {"query", "crossmatch", "distance", "slack_publish"}
      BY <1>2, <2>2 DEF Stages
    <3>2. {1, 2, 3, LastPlace} \subseteq 1 .. LastPlace
      BY Order
    <3>. QED
      BY <3>1, <3>2, Order
  <2>. QED
    BY <2>1, <2>2
<1>6. ASSUME NEW i \in 1 .. LastPlace PROVE stages_for[i] \in Stages
  <2>1. CASE i \in {1, 2, 3, LastPlace}
    BY <1>2, <2>1, Order DEF Stages
  <2>2. CASE i \notin {1, 2, 3, LastPlace}
    <3>1. i - 3 \in 1 .. Len(Filters) /\ (i - 3) + 3 = i
      BY <2>2, Order
    <3>. QED
      BY <3>1, <1>1, <1>3, Order
  <2>. QED
    BY <2>1, <2>2
<1>7. Stages = {stages_for[i] : i \in 1 .. LastPlace}
  BY <1>5, <1>6
<1>. QED
  BY <1>1, <1>3, <1>4, <1>7

LEMMA Requires ==
  /\ requires("query") = {} /\ requires("crossmatch") = {"query"}
  /\ requires("distance") = {"crossmatch"} /\ requires("slack_publish") = FilterNames
  /\ \A f \in FilterNames : requires(f) = {"distance"}
<1>1. \A f \in FilterNames : f \notin {"query", "crossmatch", "distance", "slack_publish"}
  BY Names
<1>. QED
  BY <1>1 DEF requires

(* What a stage is called by the place it has.                             *)
LEMMA Kinds ==
  ASSUME NEW i \in 1 .. LastPlace
  PROVE  \/ i \in {1, 2, 3} /\ stages_for[i] \notin FilterNames \cup {"slack_publish"}
         \/ i \in 4 .. LastPlace - 1 /\ stages_for[i] \in FilterNames
         \/ i = LastPlace /\ stages_for[i] = "slack_publish"
<1>1. CASE i \in {1, 2, 3}
  BY <1>1, Order, Names
<1>2. CASE i = LastPlace
  BY <1>2, Order
<1>3. CASE i \in 4 .. LastPlace - 1
  <2>1. i - 3 \in 1 .. Len(Filters) /\ (i - 3) + 3 = i
    BY <1>3, Order
  <2>. QED
    BY <1>3, <2>1, Order, Names
<1>. QED
  BY <1>1, <1>2, <1>3, Order

(* A stage requires stages that run before it.                             *)
LEMMA RequiresEarlier ==
  ASSUME NEW i \in 1 .. LastPlace, NEW j \in 1 .. LastPlace,
         stages_for[j] \in requires(stages_for[i])
  PROVE  j < i
<1>0. {1, 2, 3} \subseteq 1 .. LastPlace
  BY Order
<1>1. CASE i \in {1, 2, 3}
  <2>1. i > 1 /\ stages_for[j] = stages_for[i - 1] /\ i - 1 \in 1 .. LastPlace
    BY <1>1, Order, Requires
  <2>. QED
    BY <2>1, Distinct
<1>2. CASE i \in 4 .. LastPlace - 1 /\ stages_for[i] \in FilterNames
  <2>1. stages_for[j] = stages_for[3]
    BY <1>2, Order, Requires
  <2>. QED
    BY <1>0, <1>2, <2>1, Distinct
<1>3. CASE i = LastPlace /\ stages_for[i] = "slack_publish"
  <2>1. stages_for[j] \in FilterNames
    BY <1>3, Requires
  <2>. QED
    BY <1>3, <2>1, Names, Order
<1>. QED
  BY <1>1, <1>2, <1>3, Kinds

(* Only slack_publish requires filters.                                    *)
LEMMA FiltersRequired ==
  ASSUME NEW from \in Starts \ {None}
  PROVE  \/ requires(from) \cap FilterNames = {}
         \/ from = "slack_publish" /\ requires(from) = FilterNames
<1>1. PICK i \in 1 .. LastPlace : from = stages_for[i]
  BY PipelineAssumption, Names
<1>2. from \in {"query", "crossmatch", "distance", "slack_publish"} \cup FilterNames
  BY <1>1, Kinds, Order
<1>. QED
  BY <1>2, Requires, Names

LEMMA RequiresStages ==
  ASSUME NEW s \in Stages
  PROVE  requires(s) \subseteq Stages
<1>1. PICK i \in 1 .. LastPlace : s = stages_for[i]
  BY Names
<1>2. {"query", "crossmatch", "distance"} \subseteq Stages
  BY DEF Stages, DATA_STAGES, ToSet
<1>3. s \in {"query", "crossmatch", "distance", "slack_publish"} \cup FilterNames
  BY <1>1, Kinds, Order
<1>. QED
  BY <1>2, <1>3, Names, Requires

-----------------------------------------------------------------------------
(* What a step does to the record of one run: nothing, or it starts it, or *)
(* it adds the result of the stage the run is at.                          *)

Waits(r) ==
  /\ results'[r] = results[r] /\ at'[r] = at[r] /\ options'[r] = options[r]
  /\ \/ pc'[r] = pc[r]
     \/ pc[r] # "idle" /\ pc'[r] = "failed"
     \/ /\ pc[r] = "stage" /\ pc'[r] = "post" /\ stage(r) = "slack_publish"
        /\ FilterNames \subseteq DOMAIN results[r]

Place(s) == CHOOSE i \in DOMAIN stages_for : stages_for[i] = s

Begun(r) ==
  /\ pc[r] = "idle" /\ pc'[r] = "stage"
  /\ \/ at'[r] = at[r] /\ results'[r] = results[r]
     \/ \E from \in Starts \ {None}, rows \in SUBSET Alerts :
          at'[r] = Place(from) /\ results'[r] = StandIns(from, rows)

(* Why a stage is given the result it is given.                            *)
Explained(r, result) ==
  \/ ~enabled(r) /\ result = Skipped("disabled")
  \/ enabled(r) /\ ~has_input(r) /\ result = Skipped("no input")
  \/ /\ enabled(r)
     /\ \E rows \in SUBSET Alerts :
          /\ result = Produced(rows)
          /\ stage(r) \in FilterNames =>
               "distance" \in DOMAIN results[r] /\ rows \subseteq results[r]["distance"].frame

Took(r, result) ==
  /\ pc[r] \in {"stage", "post"} /\ Explained(r, result)
  /\ results'[r] = Extend(results[r], stage(r), result)
  /\ at'[r] = at[r] + 1 /\ options'[r] = options[r]
  /\ pc'[r] = IF stage(r) = "slack_publish" THEN "done" ELSE "stage"

LEMMA PlaceIs ==
  ASSUME NEW from \in Starts \ {None}
  PROVE  from \in Stages /\ Place(from) \in 1 .. LastPlace /\ stages_for[Place(from)] = from
<1>1. from \in Stages
  BY PipelineAssumption
<1>2. \E i \in DOMAIN stages_for : stages_for[i] = from
  BY <1>1, Names, Order
<1>. QED
  BY <1>1, <1>2, Order DEF Place

LEMMA ResultIs ==
  /\ \A why : Skipped(why).skipped = why /\ Skipped(why).frame = {}
  /\ \A rows : Produced(rows).skipped = "no" /\ Produced(rows).frame = rows
BY DEF Skipped, Produced

LEMMA StandInsAre ==
  ASSUME NEW from \in Starts \ {None}, NEW rows \in SUBSET Alerts
  PROVE  /\ DOMAIN StandIns(from, rows) = requires(from) /\ requires(from) \subseteq Stages
         /\ \A s \in requires(from) : StandIns(from, rows)[s] \in
               {Produced(rows), Skipped("no stand-in")}
         /\ from = "slack_publish" => \A s \in requires(from) :
               s # Filters[1] => StandIns(from, rows)[s] = Skipped("no stand-in")
<1>1. from \in Stages
  BY PipelineAssumption
<1>. QED
  BY <1>1, RequiresStages DEF StandIns

(* The stage a run is at has a name and no result yet.                     *)
LEMMA StageIs ==
  ASSUME ProgressInv, NEW r \in Runs, pc[r] \in {"stage", "post"}
  PROVE  /\ at[r] \in 1 .. LastPlace /\ stage(r) = stages_for[at[r]]
         /\ stage(r) \in Stages /\ stage(r) \notin DOMAIN results[r]
<1>1. at[r] \in 1 .. LastPlace
  BY Order DEF ProgressInv, Types, TypeOK, Placed, LastPlace
<1>. QED
  BY <1>1, Names DEF ProgressInv, Ahead, stage

LEMMA InputIs ==
  ASSUME ProgressInv, NEW r \in Runs, pc[r] = "stage",
         stage(r) \in {"crossmatch", "distance"} \cup FilterNames
  PROVE  /\ Input(r) \subseteq Alerts
         /\ stage(r) \in FilterNames =>
              "distance" \in DOMAIN results[r] /\ Input(r) = results[r]["distance"].frame
<1>1. PICK q : requires(stage(r)) = {q} /\ (stage(r) \in FilterNames => q = "distance")
  BY Requires, Names
<1>2. q \in DOMAIN results[r]
  BY <1>1, Names DEF ProgressInv, Supplied
<1>3. results[r][q].frame \subseteq Alerts
  BY <1>2 DEF ProgressInv, Types, TypeOK, StageResult
<1>4. Input(r) = results[r][q].frame
  BY <1>1 DEF Input
<1>. QED
  BY <1>1, <1>2, <1>3, <1>4

LEMMA RowsAre ==
  ASSUME ProgressInv, NEW r \in Runs, NEW rows \in SUBSET Alerts, RunStage(r, rows)
  PROVE  /\ pc[r] = "stage" /\ enabled(r) /\ stage(r) # "slack_publish"
         /\ Ran(r, rows)
         /\ stage(r) \in FilterNames =>
              "distance" \in DOMAIN results[r] /\ rows \subseteq results[r]["distance"].frame
<1>1. CASE RunQuery(r, rows)
  BY <1>1, Names DEF RunQuery, Ready
<1>2. CASE RunCrossmatch(r, rows)
  BY <1>2, Names DEF RunCrossmatch, Ready
<1>3. CASE RunDistance(r, rows)
  BY <1>3, Names DEF RunDistance, Ready
<1>4. CASE RunLocalize(r, rows)
  <2>1. stage(r) = "localize"
    BY <1>4 DEF RunLocalize, Ready, CodeFilters
  <2>. QED
    BY <1>4, <2>1, InputIs DEF RunLocalize, Ready
<1>5. CASE RunCutFilter(r, rows)
  BY <1>5, Names, InputIs DEF RunCutFilter, Ready
<1>. QED
  BY <1>1, <1>2, <1>3, <1>4, <1>5 DEF RunStage

LEMMA StepOfRun ==
  ASSUME ProgressInv, [Next]_vars, NEW q \in Runs
  PROVE  Waits(q) \/ Begun(q) \/ \E result \in StageResult : Took(q, result)
<1>. USE DEF ProgressInv, Types, TypeOK
<1>1. CASE UNCHANGED <<pc, at, options, results>>
  BY <1>1 DEF Waits
<1>2. ASSUME NEW r \in Runs, NEW from \in Starts, NEW rows \in SUBSET Alerts,
             Start(r, from, rows)
      PROVE  Waits(q) \/ Begun(q)
  <2>1. CASE q # r
    BY <1>2, <2>1 DEF Start, Goto, Waits
  <2>2. CASE q = r /\ from = None
    BY <1>2, <2>2 DEF Start, Goto, Begun
  <2>3. CASE q = r /\ from # None
    <3>1. at'[q] = Place(from) /\ results'[q] = StandIns(from, rows)
      BY <1>2, <2>3 DEF Start, Place
    <3>2. pc[q] = "idle" /\ pc'[q] = "stage"
      BY <1>2, <2>3 DEF Start, Goto
    <3>. QED
      BY <2>3, <3>1, <3>2 DEF Begun
  <2>. QED
    BY <2>1, <2>2, <2>3
<1>3. ASSUME NEW r \in Runs, NEW result \in StageResult, Record(r, result),
             pc[r] \in {"stage", "post"}, Explained(r, result), UNCHANGED options,
             pc' = [pc EXCEPT ![r] = IF stage(r) = "slack_publish" THEN "done" ELSE "stage"]
      PROVE  Waits(q) \/ Took(q, result)
  BY <1>3 DEF Record, Waits, Took
<1>4. ASSUME NEW r \in Runs, Skip(r)
      PROVE  Waits(q) \/ \E result \in StageResult : Took(q, result)
  <2>1. Skipped("disabled") \in StageResult /\ Skipped("no input") \in StageResult
    BY DEF Skipped, StageResult
  <2>2. pc' = [pc EXCEPT ![r] = IF stage(r) = "slack_publish" THEN "done" ELSE "stage"]
    BY <1>4 DEF Skip, Goto
  <2>3. PICK result \in StageResult : Record(r, result) /\ Explained(r, result)
    BY <1>4, <2>1 DEF Skip, Explained
  <2>. QED
    BY <1>3, <1>4, <2>2, <2>3 DEF Skip
<1>5. ASSUME NEW r \in Runs, NEW rows \in SUBSET Alerts, RunStage(r, rows)
      PROVE  Waits(q) \/ \E result \in StageResult : Took(q, result)
  <2>1. /\ pc[r] = "stage" /\ enabled(r) /\ stage(r) # "slack_publish" /\ Ran(r, rows)
        /\ stage(r) \in FilterNames =>
             "distance" \in DOMAIN results[r] /\ rows \subseteq results[r]["distance"].frame
    BY <1>5, RowsAre
  <2>2. Produced(rows) \in StageResult /\ Explained(r, Produced(rows))
    BY <2>1 DEF Produced, StageResult, Explained
  <2>3. pc' = [pc EXCEPT ![r] = IF stage(r) = "slack_publish" THEN "done" ELSE "stage"]
    BY <2>1 DEF Ran
  <2>. QED
    BY <1>3, <2>1, <2>2, <2>3 DEF Ran
<1>6. ASSUME NEW r \in Runs, MissingResult(r) \/ Raise(r)
      PROVE  Waits(q)
  BY <1>6 DEF MissingResult, Raise, Goto, Waits
<1>7. ASSUME NEW r \in Runs, Collect(r)
      PROVE  Waits(q)
  BY <1>7 DEF Collect, Goto, Waits
<1>8. ASSUME NEW r \in Runs, Announced(r)
      PROVE  Waits(q) \/ \E result \in StageResult : Took(q, result)
  <2>1. CASE rejected[r] = {} /\ Record(r, Produced({})) /\ Goto(r, "done")
    <3>1. pc[r] = "post" /\ stage(r) = "slack_publish"
      BY <1>8 DEF Announced, Placed
    <3>2. Produced({}) \in StageResult /\ Explained(r, Produced({}))
      BY <3>1, Names, PipelineAssumption DEF Produced, StageResult, Explained, enabled
    <3>. QED
      BY <1>3, <1>8, <2>1, <3>1, <3>2 DEF Announced, Goto
  <2>2. CASE UNCHANGED <<results, at>> /\ Goto(r, "failed")
    BY <1>8, <2>2 DEF Announced, Goto, Waits
  <2>. QED
    BY <1>8, <2>1, <2>2 DEF Announced
<1>. QED
  BY <1>1, <1>2, <1>4, <1>5, <1>6, <1>7, <1>8
     DEF Next, Step, Tick, Post, PostFails, vars, runVars

-----------------------------------------------------------------------------
(* A run makes its way through the stages.                                 *)

LEMMA ProgressOfRun ==
  ASSUME ProgressInv, NEW r \in Runs,
         Waits(r) \/ Begun(r) \/ \E result \in StageResult : Took(r, result)
  PROVE  (Begins(r) /\ Placed(r) /\ Ahead(r) /\ Supplied(r))'
<1>. USE DEF ProgressInv, stage
<1>0. at[r] \in 1 .. LastPlace + 1
  BY DEF Types, TypeOK, LastPlace
<1>1. CASE Waits(r)
  BY <1>1 DEF Waits, Begins, Placed, Ahead, Supplied
<1>2. CASE Begun(r)
  <2>1. pc[r] = "idle" /\ pc'[r] = "stage"
    BY <1>2 DEF Begun
  <2>2. CASE at'[r] = at[r] /\ results'[r] = results[r]
    <3>1. at'[r] = 1 /\ DOMAIN results'[r] = {} /\ stages_for[1] = "query" /\ 1 <= LastPlace
      BY <2>1, <2>2, Order DEF Begins
    <3>. QED
      BY <2>1, <3>1, Requires DEF Begins, Placed, Ahead, Supplied
  <2>3. ASSUME NEW from \in Starts \ {None}, NEW rows \in SUBSET Alerts,
               at'[r] = Place(from), results'[r] = StandIns(from, rows)
        PROVE  (Begins(r) /\ Placed(r) /\ Ahead(r) /\ Supplied(r))'
    <3>1. /\ at'[r] \in 1 .. LastPlace /\ stages_for[at'[r]] = from
          /\ DOMAIN results'[r] = requires(from)
      BY <2>3, PlaceIs, StandInsAre
    <3>2. Ahead(r)'
      <4>1. ASSUME NEW j \in at'[r] .. LastPlace, stages_for[j] \in requires(from)
            PROVE  FALSE
        <5>1. j \in 1 .. LastPlace /\ ~ j < at'[r]
          BY <3>1, Order
        <5>. QED
          BY <3>1, <4>1, <5>1, RequiresEarlier
      <4>. QED
        BY <3>1, <4>1 DEF Ahead
    <3>. QED
      BY <2>1, <3>1, <3>2 DEF Begins, Placed, Supplied
  <2>. QED
    BY <1>2, <2>2, <2>3 DEF Begun
<1>3. ASSUME NEW result \in StageResult, Took(r, result)
      PROVE  (Begins(r) /\ Placed(r) /\ Ahead(r) /\ Supplied(r))'
  <2>. DEFINE i == at[r]
  <2>1. /\ i \in 1 .. LastPlace /\ stage(r) = stages_for[i]
        /\ DOMAIN results'[r] = DOMAIN results[r] \cup {stages_for[i]} /\ at'[r] = i + 1
    <3>1. i \in 1 .. LastPlace /\ stage(r) = stages_for[i]
      BY <1>3, StageIs DEF Took
    <3>2. results'[r] = Extend(results[r], stages_for[i], result) /\ at'[r] = i + 1
      BY <1>3, <3>1 DEF Took
    <3>. QED
      BY <3>1, <3>2 DEF Extend
  <2>2. Ahead(r)'
    <3>1. ASSUME NEW j \in i + 1 .. LastPlace
          PROVE  stages_for[j] \notin DOMAIN results'[r]
      <4>1. j \in 1 .. LastPlace /\ j \in i .. LastPlace /\ j # i
        BY <2>1, Order
      <4>. QED
        BY <2>1, <4>1, Distinct DEF Ahead
    <3>. QED
      BY <2>1, <3>1 DEF Ahead
  <2>3. CASE i = LastPlace
    <3>1. pc'[r] = "done"
      BY <1>3, <2>1, <2>3, Order DEF Took
    <3>. QED
      BY <2>2, <3>1 DEF Begins, Placed, Supplied
  <2>4. CASE i # LastPlace
    <3>1. i + 1 \in 1 .. LastPlace /\ 1 \in 1 .. LastPlace /\ 3 \in 1 .. LastPlace
      BY <2>1, <2>4, Order
    <3>2. stage(r) # "slack_publish"
      BY <2>1, <2>4, Kinds, Names
    <3>3. pc[r] = "stage" /\ pc'[r] = "stage"
      BY <1>3, <3>2 DEF Took, Placed
    <3>4. requires(stages_for[i]) \subseteq DOMAIN results[r]
      BY <2>1, <3>2, <3>3 DEF Supplied
    <3>5. Supplied(r)'
      <4>1. CASE i + 1 \in {2, 3}
        <5>1. requires(stages_for[i + 1]) = {stages_for[i]}
          BY <2>1, <4>1, Order, Requires
        <5>. QED
          BY <2>1, <5>1 DEF Supplied
      <4>2. CASE i = 3
        <5>1. requires(stages_for[i + 1]) = {"distance"} \/ stages_for[i + 1] = "slack_publish"
          BY <3>1, <4>2, Kinds, Requires
        <5>2. "distance" = stages_for[i]
          BY <4>2, Order
        <5>. QED
          BY <2>1, <5>1, <5>2 DEF Supplied
      <4>3. CASE i \in 4 .. LastPlace
        <5>1. requires(stages_for[i]) = {"distance"}
          BY <2>1, <2>4, <4>3, Kinds, Requires
        <5>2. requires(stages_for[i + 1]) = {"distance"} \/ stages_for[i + 1] = "slack_publish"
          BY <3>1, <4>3, Kinds, Requires
        <5>. QED
          BY <2>1, <3>4, <5>1, <5>2 DEF Supplied
      <4>. QED
        BY <2>1, <4>1, <4>2, <4>3, Order
    <3>. QED
      BY <2>1, <2>2, <3>1, <3>3, <3>5 DEF Begins, Placed
  <2>. QED
    BY <2>3, <2>4
<1>. QED
  BY <1>1, <1>2, <1>3

LEMMA RecordTypes ==
  ASSUME ProgressInv, NEW r \in Runs, pc[r] \in {"stage", "post"},
         NEW result \in StageResult, Record(r, result)
  PROVE  /\ at' \in [Runs -> 1 .. Len(stages_for) + 1] /\ DOMAIN results' = Runs
         /\ \A q \in Runs : /\ DOMAIN results'[q] \subseteq Stages
                            /\ \A s \in DOMAIN results'[q] : results'[q][s] \in StageResult
<1>. USE DEF ProgressInv, Types, TypeOK
<1>1. at[r] \in 1 .. LastPlace /\ stage(r) \in Stages
  BY StageIs
<1>2. at' = [at EXCEPT ![r] = at[r] + 1] /\ at[r] + 1 \in 1 .. Len(stages_for) + 1
  BY <1>1, Order DEF Record, LastPlace
<1>3. results' = [results EXCEPT ![r] = Extend(results[r], stage(r), result)]
  BY DEF Record
<1>4. ASSUME NEW q \in Runs
      PROVE  /\ DOMAIN results'[q] \subseteq Stages
             /\ \A s \in DOMAIN results'[q] : results'[q][s] \in StageResult
  <2>1. CASE q = r
    <3>1. results'[q] = Extend(results[q], stage(q), result)
      BY <1>3, <2>1
    <3>2. /\ DOMAIN results'[q] = DOMAIN results[q] \cup {stage(q)}
          /\ results'[q][stage(q)] = result
          /\ \A s \in DOMAIN results[q] \ {stage(q)} : results'[q][s] = results[q][s]
      BY <3>1 DEF Extend
    <3>. QED
      BY <1>1, <2>1, <3>2
  <2>2. CASE q # r
    BY <1>3, <2>2
  <2>. QED
    BY <2>1, <2>2
<1>. QED
  BY <1>2, <1>3, <1>4

LEMMA TypesOfStart ==
  ASSUME ProgressInv, NEW r \in Runs, NEW from \in Starts, NEW rows \in SUBSET Alerts,
         Start(r, from, rows)
  PROVE  Types'
<1>. USE DEF ProgressInv, Types, TypeOK
<1>1. PICK dry \in DryRuns, slack \in Channels :
        options' = [options EXCEPT ![r] = [dry |-> dry, slack |-> slack]]
  BY DEF Start
<1>2. options' \in [Runs -> [dry : BOOLEAN, slack : BOOLEAN]]
  <2>1. [dry |-> dry, slack |-> slack] \in [dry : BOOLEAN, slack : BOOLEAN]
    BY PipelineAssumption
  <2>. QED
    BY <1>1, <2>1
<1>3. stamp' \in [Runs -> Nat] /\ pc' \in [Runs -> {"idle", "stage", "post", "done", "failed"}]
  BY DEF Start, Goto
<1>4. /\ at' \in [Runs -> 1 .. Len(stages_for) + 1] /\ DOMAIN results' = Runs
      /\ \A q \in Runs : /\ DOMAIN results'[q] \subseteq Stages
                         /\ \A s \in DOMAIN results'[q] : results'[q][s] \in StageResult
  <2>1. CASE UNCHANGED <<at, results>>
    BY <2>1
  <2>2. CASE /\ from # None /\ at' = [at EXCEPT ![r] = Place(from)]
             /\ results' = [results EXCEPT ![r] = StandIns(from, rows)]
    <3>0. from \in Starts \ {None}
      BY <2>2
    <3>1. Place(from) \in 1 .. Len(stages_for) + 1
      <4>1. Place(from) \in 1 .. LastPlace /\ LastPlace \in Nat
        BY <3>0, PlaceIs, Order
      <4>. QED
        BY <4>1 DEF LastPlace
    <3>2. \A s \in DOMAIN StandIns(from, rows) :
            s \in Stages /\ StandIns(from, rows)[s] \in {Produced(rows), Skipped("no stand-in")}
      BY <3>0, StandInsAre
    <3>3. Produced(rows) \in StageResult /\ Skipped("no stand-in") \in StageResult
      BY DEF Produced, Skipped, StageResult
    <3>. QED
      BY <2>2, <3>1, <3>2, <3>3
  <2>. QED
    BY <2>1, <2>2 DEF Start, Place
<1>. QED
  BY <1>2, <1>3, <1>4 DEF Start

LEMMA TypesOfStage ==
  ASSUME ProgressInv, NEW r \in Runs, NEW rows \in SUBSET Alerts, RunStage(r, rows)
  PROVE  Types'
<1>. USE DEF ProgressInv, Types, TypeOK
<1>1. pc[r] = "stage" /\ Ran(r, rows)
  BY RowsAre
<1>2. Produced(rows) \in StageResult
  BY DEF Produced, StageResult
<1>3. /\ at' \in [Runs -> 1 .. Len(stages_for) + 1] /\ DOMAIN results' = Runs
      /\ \A q \in Runs : /\ DOMAIN results'[q] \subseteq Stages
                         /\ \A s \in DOMAIN results'[q] : results'[q][s] \in StageResult
  BY <1>1, <1>2, RecordTypes DEF Ran
<1>4. /\ DOMAIN output' \subseteq Stages \X Nat
      /\ \A k \in DOMAIN output' : output'[k] \in [run : Runs, frame : SUBSET Alerts]
  <2>1. CASE output' = output
    BY <2>1
  <2>2. CASE output' = Extend(output, <<stage(r), stamp[r]>>, [run |-> r, frame |-> rows])
    <3>1. <<stage(r), stamp[r]>> \in Stages \X Nat
      BY <1>1, StageIs
    <3>2. [run |-> r, frame |-> rows] \in [run : Runs, frame : SUBSET Alerts]
      OBVIOUS
    <3>. QED
      BY <2>2, <3>1, <3>2 DEF Extend
  <2>. QED
    BY <1>1, <2>1, <2>2 DEF Ran, WriteFrame
<1>. QED
  BY <1>1, <1>3, <1>4 DEF Ran

LEMMA MessageType ==
  ASSUME ProgressInv, NEW r \in Runs, pc[r] = "post", NEW f \in toPost[r]
  PROVE  f \in FilterNames /\ Message(r, f) \in [run : Runs, filter : FilterNames, rows : SUBSET Alerts]
<1>1. f \in FilterNames /\ f \in DOMAIN results[r]
  BY DEF ProgressInv, Types, TypeOK, Placed
<1>2. results[r][f].frame \in SUBSET Alerts
  BY <1>1 DEF ProgressInv, Types, TypeOK, StageResult
<1>. QED
  BY <1>1, <1>2 DEF Message

LEMMA MessageAppends ==
  ASSUME ProgressInv, NEW r \in Runs, pc[r] = "post", NEW f \in toPost[r]
  PROVE  /\ Append(channel, Message(r, f)) \in Seq([run : Runs, filter : FilterNames, rows : SUBSET Alerts])
         /\ channel' = Append(channel, Message(r, f)) => Posted' = Posted \cup {Message(r, f)}
<1>. DEFINE M == [run : Runs, filter : FilterNames, rows : SUBSET Alerts]
            m == Message(r, f)
<1>1. channel \in Seq(M) /\ m \in M
  BY MessageType DEF ProgressInv, Types, TypeOK
<1>. HIDE DEF M, m
<1>2. /\ Append(channel, m) \in Seq(M)
      /\ DOMAIN Append(channel, m) = DOMAIN channel \cup {Len(channel) + 1}
      /\ Append(channel, m)[Len(channel) + 1] = m
      /\ \A i \in DOMAIN channel : Append(channel, m)[i] = channel[i]
  BY <1>1
<1>3. channel' = Append(channel, m) => Posted' = Posted \cup {m}
  BY <1>2 DEF Posted, ToSet
<1>. QED
  BY <1>2, <1>3 DEF M, m

LEMMA TypesOfPost ==
  ASSUME ProgressInv, NEW r \in Runs, Collect(r) \/ Post(r) \/ PostFails(r)
  PROVE  Types'
<1>. USE DEF ProgressInv, Types, TypeOK
<1>1. CASE Collect(r)
  <2>1. toPost' \in [Runs -> SUBSET FilterNames]
    BY <1>1 DEF Collect
  <2>. QED
    BY <1>1, <2>1 DEF Collect, Goto
<1>2. CASE Post(r)
  <2>1. PICK f \in toPost[r] :
          /\ channel' = IF options[r].dry THEN channel ELSE Append(channel, Message(r, f))
          /\ toPost' = [toPost EXCEPT ![r] = @ \ {f}]
    BY <1>2 DEF Post
  <2>2. channel' \in Seq([run : Runs, filter : FilterNames, rows : SUBSET Alerts])
    BY <1>2, <2>1, MessageAppends DEF Post
  <2>3. toPost' \in [Runs -> SUBSET FilterNames]
    BY <2>1
  <2>. QED
    BY <1>2, <2>2, <2>3 DEF Post
<1>3. CASE PostFails(r)
  <2>1. PICK f \in toPost[r] :
          /\ channel' \in {channel, Append(channel, Message(r, f))}
          /\ rejected' = [rejected EXCEPT ![r] = @ \cup {f}]
          /\ toPost' = [toPost EXCEPT ![r] = @ \ {f}]
    BY <1>3 DEF PostFails
  <2>2. channel' \in Seq([run : Runs, filter : FilterNames, rows : SUBSET Alerts])
    <3>1. pc[r] = "post"
      BY <1>3 DEF PostFails
    <3>2. Append(channel, Message(r, f)) \in Seq([run : Runs, filter : FilterNames, rows : SUBSET Alerts])
      BY <3>1, MessageAppends
    <3>. QED
      BY <2>1, <3>2
  <2>3. toPost' \in [Runs -> SUBSET FilterNames] /\ rejected' \in [Runs -> SUBSET FilterNames]
    BY <2>1
  <2>. QED
    BY <1>3, <2>2, <2>3 DEF PostFails, Fault
<1>. QED
  BY <1>1, <1>2, <1>3

LEMMA TypesStep ==
  ASSUME ProgressInv, [Next]_vars
  PROVE  Types'
<1>. USE DEF ProgressInv, Types, TypeOK
<1>1. CASE Tick
  BY <1>1, PipelineAssumption DEF Tick, runVars
<1>2. ASSUME NEW r \in Runs, Skip(r) PROVE Types'
  <2>1. Skipped("disabled") \in StageResult /\ Skipped("no input") \in StageResult
    BY DEF Skipped, StageResult
  <2>2. /\ at' \in [Runs -> 1 .. Len(stages_for) + 1] /\ DOMAIN results' = Runs
        /\ \A q \in Runs : /\ DOMAIN results'[q] \subseteq Stages
                           /\ \A s \in DOMAIN results'[q] : results'[q][s] \in StageResult
    BY <1>2, <2>1, RecordTypes DEF Skip
  <2>. QED
    BY <1>2, <2>2 DEF Skip, Goto
<1>3. ASSUME NEW r \in Runs, MissingResult(r) \/ Raise(r) PROVE Types'
  <2>1. pc' \in [Runs -> {"idle", "stage", "post", "done", "failed"}] /\ faults' \in Nat
    <3>1. pc' \in [Runs -> {"idle", "stage", "post", "done", "failed"}]
      BY <1>3 DEF MissingResult, Raise, Goto
    <3>2. faults' \in Nat
      BY <1>3 DEF MissingResult, Raise, Fault
    <3>. QED
      BY <3>1, <3>2
  <2>. QED
    BY <1>3, <2>1 DEF MissingResult, Raise
<1>4. ASSUME NEW r \in Runs, Announced(r) PROVE Types'
  <2>1. Produced({}) \in StageResult
    BY DEF Produced, StageResult
  <2>2. /\ at' \in [Runs -> 1 .. Len(stages_for) + 1] /\ DOMAIN results' = Runs
        /\ \A q \in Runs : /\ DOMAIN results'[q] \subseteq Stages
                           /\ \A s \in DOMAIN results'[q] : results'[q][s] \in StageResult
    <3>1. CASE Record(r, Produced({}))
      BY <1>4, <2>1, <3>1, RecordTypes DEF Announced
    <3>2. CASE UNCHANGED <<results, at>>
      BY <3>2
    <3>. QED
      BY <1>4, <3>1, <3>2 DEF Announced
  <2>. QED
    BY <1>4, <2>2 DEF Announced, Goto
<1>5. CASE UNCHANGED vars
  BY <1>5 DEF vars, runVars
<1>. QED
  BY <1>1, <1>2, <1>3, <1>4, <1>5, TypesOfStart, TypesOfStage, TypesOfPost DEF Next, Step

LEMMA ProgressInit == Init => ProgressInv
<1>. SUFFICES ASSUME Init PROVE ProgressInv
  OBVIOUS
<1>. USE DEF Init
<1>1. Types
  <2>1. 1 \in 1 .. Len(stages_for) + 1
    BY Order DEF LastPlace
  <2>2. DOMAIN output = {} /\ \A r \in Runs : DOMAIN results[r] = {}
    OBVIOUS
  <2>3. options \in [Runs -> [dry : BOOLEAN, slack : BOOLEAN]]
    OBVIOUS
  <2>. QED
    BY <2>1, <2>2, <2>3 DEF Types, TypeOK
<1>2. ASSUME NEW r \in Runs PROVE Begins(r) /\ Placed(r) /\ Ahead(r) /\ Supplied(r)
  BY DEF Begins, Placed, Ahead, Supplied
<1>. QED
  BY <1>1, <1>2 DEF ProgressInv

LEMMA ProgressInvariant == Spec => []ProgressInv
<1>1. ProgressInv /\ [Next]_vars => ProgressInv'
  <2>. SUFFICES ASSUME ProgressInv, [Next]_vars PROVE ProgressInv'
    OBVIOUS
  <2>1. \A r \in Runs : (Begins(r) /\ Placed(r) /\ Ahead(r) /\ Supplied(r))'
    BY StepOfRun, ProgressOfRun
  <2>. QED
    BY <2>1, TypesStep DEF ProgressInv
<1>. QED
  BY ProgressInit, <1>1, PTL DEF Spec

(* Every variable keeps the type its declaration describes.                *)
THEOREM PipelineTypeCorrect == Spec => []TypeOK
<1>1. ProgressInv => TypeOK
  BY DEF ProgressInv, Types
<1>. QED
  BY <1>1, ProgressInvariant, PTL

-----------------------------------------------------------------------------
(* The record of a run only grows.                                         *)

LEMMA RecordStays ==
  ASSUME ProgressInv, [Next]_vars, NEW r \in Runs, pc[r] # "idle",
         NEW s \in DOMAIN results[r]
  PROVE  s \in DOMAIN results'[r] /\ results'[r][s] = results[r][s]
<1>1. CASE Waits(r)
  BY <1>1 DEF Waits
<1>2. ASSUME NEW result \in StageResult, Took(r, result)
      PROVE  s \in DOMAIN results'[r] /\ results'[r][s] = results[r][s]
  <2>1. s # stage(r)
    BY <1>2, StageIs DEF Took
  <2>. QED
    BY <1>2, <2>1 DEF Took, Extend
<1>. QED
  BY <1>1, <1>2, StepOfRun DEF Begun

(* pipeline.py:241: what run_pipeline has recorded for a stage, or cli.py  *)
(* has stood in for it, is not replaced, so every stage behind it reads    *)
(* the same frame.                                                         *)
THEOREM PipelineResultsAreFinal == Spec => ResultsAreFinal
<1>1. ProgressInv /\ [Next]_vars =>
        [\A r \in Runs : pc[r] # "idle" =>
           \A s \in DOMAIN results[r] :
             s \in DOMAIN results'[r] /\ results'[r][s] = results[r][s]]_vars
  BY RecordStays
<1>. QED
  BY <1>1, ProgressInvariant, PTL DEF Spec, ResultsAreFinal

-----------------------------------------------------------------------------
(* What is on record was found, or skipped, for a reason.                  *)

(* A run is never at a stage that something on record requires.            *)
LEMMA Behind ==
  ASSUME ProgressInv, NEW r \in Runs, pc[r] \in {"stage", "post"},
         NEW s \in DOMAIN results[r] \cup {stage(r)}
  PROVE  stage(r) \notin requires(s)
<1>1. /\ at[r] \in 1 .. LastPlace /\ stage(r) = stages_for[at[r]]
      /\ stage(r) \in Stages /\ s \in Stages
  BY StageIs DEF ProgressInv, Types, TypeOK
<1>2. PICK j \in 1 .. LastPlace : s = stages_for[j]
  BY <1>1, Names
<1>3. j <= at[r]
  <2>1. CASE s = stage(r)
    <3>1. j = at[r]
      BY <1>1, <1>2, <2>1, Distinct
    <3>. QED
      BY <3>1, <1>2, Order
  <2>2. CASE s \in DOMAIN results[r]
    BY <1>1, <1>2, <2>2, Order DEF ProgressInv, Ahead
  <2>. QED
    BY <2>1, <2>2
<1>. QED
  BY <1>1, <1>2, <1>3, RequiresEarlier

Caused(r) ==
  \A s \in DOMAIN results[r] :
    /\ results[r][s].skipped = "no input" =>
         /\ requires(s) # {} /\ requires(s) \cap DOMAIN results[r] # {}
         /\ \A q \in requires(s) \cap DOMAIN results[r] : is_empty(results[r][q])
    /\ s \in FilterNames \ Disabled[r] /\ "distance" \in DOMAIN results[r]
         /\ ~is_empty(results[r]["distance"]) => results[r][s].skipped = "no"

LEMMA CausedIs == SkippedForCause <=> \A r \in Runs : Caused(r)
BY DEF SkippedForCause, Caused

LEMMA RecordBegun ==
  ASSUME ProgressInv, NEW r \in Runs, Begun(r)
  PROVE  Caused(r)' /\ Found(r)'
<1>1. CASE results'[r] = results[r]
  <2>1. DOMAIN results'[r] = {}
    BY <1>1 DEF ProgressInv, Begins, Begun
  <2>. QED
    BY <2>1 DEF Caused, Found
<1>2. ASSUME NEW from \in Starts \ {None}, NEW rows \in SUBSET Alerts,
             results'[r] = StandIns(from, rows)
      PROVE  Caused(r)' /\ Found(r)'
  <2>1. /\ DOMAIN results'[r] = requires(from)
        /\ \A s \in requires(from) : results'[r][s] \in {Produced(rows), Skipped("no stand-in")}
        /\ from = "slack_publish" => \A s \in requires(from) :
              s # Filters[1] => results'[r][s] = Skipped("no stand-in")
    BY <1>2, StandInsAre
  <2>2. ASSUME NEW s \in DOMAIN results'[r] PROVE results'[r][s].skipped # "no input"
    <3>1. CASE results'[r][s] = Produced(rows)
      BY <3>1, ResultIs
    <3>2. CASE results'[r][s] = Skipped("no stand-in")
      BY <3>2, ResultIs
    <3>. QED
      BY <2>1, <3>1, <3>2
  <2>3. \/ requires(from) \cap FilterNames = {}
        \/ from = "slack_publish" /\ requires(from) = FilterNames
    BY FiltersRequired
  <2>4. "distance" \notin FilterNames
    BY Names
  <2>5. Caused(r)'
    BY <2>1, <2>2, <2>3, <2>4 DEF Caused
  <2>6. Found(r)'
    <3>1. CASE requires(from) \cap FilterNames = {}
      BY <2>1, <3>1 DEF Found
    <3>2. CASE from = "slack_publish" /\ requires(from) = FilterNames
      <4>1. ASSUME NEW f \in FilterNames \cap DOMAIN results'[r], HasCandidates(r, f)'
            PROVE  f = Filters[1]
        <5>1. results'[r][f] # Skipped("no stand-in")
          <6>1. results'[r][f].skipped = "no"
            BY <4>1 DEF HasCandidates
          <6>2. Skipped("no stand-in").skipped = "no stand-in"
            BY ResultIs
          <6>. QED
            BY <6>1, <6>2
        <5>. QED
          BY <2>1, <3>2, <4>1, <5>1
      <4>. QED
        BY <2>1, <2>4, <3>2, <4>1 DEF Found, FoundIn
    <3>. QED
      BY <2>3, <3>1, <3>2
  <2>. QED
    BY <2>5, <2>6
<1>. QED
  BY <1>1, <1>2 DEF Begun

LEMMA RecordTook ==
  ASSUME ProgressInv, NEW r \in Runs, Caused(r), Found(r),
         NEW result \in StageResult, Took(r, result)
  PROVE  Caused(r)' /\ Found(r)'
<1>. DEFINE t == stage(r)
<1>1. /\ pc[r] \in {"stage", "post"} /\ t \in Stages /\ t \notin DOMAIN results[r]
      /\ \A s \in DOMAIN results[r] \cup {t} : t \notin requires(s)
  BY StageIs, Behind DEF Took
<1>2. /\ DOMAIN results'[r] = DOMAIN results[r] \cup {t} /\ results'[r][t] = result
      /\ \A s \in DOMAIN results[r] : results'[r][s] = results[r][s]
  BY <1>1 DEF Took, Extend
<1>3. Explained(r, result)
  BY DEF Took
<1>4. \A f \in FilterNames : requires(f) = {"distance"} /\ f # "distance"
  BY Requires, Names
<1>5. ASSUME NEW f \in FilterNames \cap DOMAIN results'[r] PROVE t # "distance"
  BY <1>1, <1>2, <1>4
<1>. HIDE DEF t
<1>6. ASSUME NEW s \in DOMAIN results'[r]
      PROVE  requires(s) \cap DOMAIN results'[r] = requires(s) \cap DOMAIN results[r]
  BY <1>1, <1>2
<1>7. ASSUME NEW s \in DOMAIN results'[r], results'[r][s].skipped = "no input"
      PROVE  /\ requires(s) # {} /\ requires(s) \cap DOMAIN results'[r] # {}
             /\ \A q \in requires(s) \cap DOMAIN results'[r] : is_empty(results'[r][q])
  <2>1. /\ requires(s) \cap DOMAIN results[r] # {}
        /\ \A q \in requires(s) \cap DOMAIN results[r] : is_empty(results[r][q])
    <3>1. CASE s = t
      <4>1. ~has_input(r)
        BY <1>2, <1>3, <1>7, <3>1, ResultIs DEF Explained
      <4>. QED
        BY <3>1, <4>1 DEF has_input, t
    <3>2. CASE s # t
      BY <1>2, <1>7, <3>2 DEF Caused
    <3>. QED
      BY <3>1, <3>2
  <2>2. requires(s) \cap DOMAIN results'[r] = requires(s) \cap DOMAIN results[r]
    BY <1>6
  <2>. QED
    BY <1>2, <2>1, <2>2
<1>8. ASSUME NEW s \in DOMAIN results'[r], s \in FilterNames \ Disabled[r],
             "distance" \in DOMAIN results'[r], ~is_empty(results'[r]["distance"])
      PROVE  results'[r][s].skipped = "no"
  <2>1. "distance" \in DOMAIN results[r] /\ ~is_empty(results[r]["distance"])
    BY <1>2, <1>5, <1>8
  <2>2. CASE s = t
    <3>1. enabled(r) /\ has_input(r)
      BY <1>4, <1>8, <2>1, <2>2 DEF enabled, has_input, t
    <3>. QED
      BY <1>2, <1>3, <2>2, <3>1, ResultIs DEF Explained
  <2>3. CASE s # t
    BY <1>2, <1>8, <2>1, <2>3 DEF Caused
  <2>. QED
    BY <2>2, <2>3
<1>9. ASSUME NEW f \in FilterNames \cap DOMAIN results'[r], HasCandidates(r, f)'
      PROVE  FoundIn(r, f)'
  <2>1. t # "distance"
    BY <1>5
  <2>2. CASE f = t
    <3>1. enabled(r) /\ result.skipped = "no"
      BY <1>2, <1>3, <1>9, <2>2, ResultIs DEF HasCandidates, Explained
    <3>2. PICK rows \in SUBSET Alerts :
            /\ result = Produced(rows) /\ "distance" \in DOMAIN results[r]
            /\ rows \subseteq results[r]["distance"].frame
      BY <1>3, <2>2, <3>1, ResultIs DEF Explained, t
    <3>. QED
      BY <1>2, <2>1, <2>2, <3>1, <3>2, ResultIs DEF FoundIn, enabled, t
  <2>3. CASE f # t
    <3>1. f \in DOMAIN results[r] /\ HasCandidates(r, f)
      BY <1>2, <1>9, <2>3 DEF HasCandidates
    <3>2. FoundIn(r, f)
      BY <3>1 DEF Found
    <3>. QED
      BY <1>2, <2>1, <3>1, <3>2 DEF FoundIn
  <2>. QED
    BY <2>2, <2>3
<1>. QED
  BY <1>7, <1>8, <1>9 DEF Caused, Found

LEMMA RecordInvariant == Spec => []RecordInv
<1>1. Init => RecordInv
  BY DEF Init, RecordInv, SkippedForCause, Found
<1>2. ProgressInv /\ RecordInv /\ [Next]_vars => RecordInv'
  <2>. SUFFICES ASSUME ProgressInv, RecordInv, [Next]_vars PROVE RecordInv'
    OBVIOUS
  <2>1. ASSUME NEW r \in Runs PROVE Caused(r)' /\ Found(r)'
    <3>1. Caused(r) /\ Found(r)
      BY CausedIs DEF RecordInv
    <3>2. CASE Waits(r)
      BY <3>1, <3>2 DEF Waits, Caused, Found, FoundIn, HasCandidates
    <3>. QED
      BY <3>1, <3>2, StepOfRun, RecordBegun, RecordTook
  <2>2. SkippedForCause'
    BY <2>1 DEF SkippedForCause, Caused
  <2>. QED
    BY <2>1, <2>2 DEF RecordInv
<1>. QED
  BY <1>1, <1>2, ProgressInvariant, PTL DEF Spec

(* pipeline.py:138: a stage is passed over for want of input only when all *)
(* it requires is on record and empty, and no enabled filter is passed     *)
(* over in a run that placed an alert.                                     *)
THEOREM PipelineSkipsForCause == Spec => []SkippedForCause
<1>1. RecordInv => SkippedForCause
  BY DEF RecordInv
<1>. QED
  BY <1>1, RecordInvariant, PTL

-----------------------------------------------------------------------------
(* What is announced.                                                      *)

LEMMA Undisturbed ==
  ASSUME NEW r \in Runs, Collected(r), Reported(r), Posted \subseteq Posted',
         UNCHANGED <<pc[r], options[r], results[r], toPost[r], rejected[r]>>
  PROVE  (Collected(r) /\ Reported(r))'
BY DEF Collected, Reported, MayPost, HasCandidates, Message

(* A step leaves the channel as it is, or adds the message of a filter     *)
(* that a run which is posting has yet to post.                            *)
LEMMA ChannelStep ==
  ASSUME ProgressInv, [Next]_vars
  PROVE  \/ channel' = channel /\ Posted' = Posted
         \/ \E r \in Runs : \E f \in toPost[r] :
              /\ pc[r] = "post" /\ ~options[r].dry /\ UNCHANGED <<options, results>>
              /\ channel' = Append(channel, Message(r, f))
              /\ Posted' = Posted \cup {Message(r, f)}
<1>1. CASE UNCHANGED channel
  BY <1>1 DEF Posted
<1>2. ASSUME NEW r \in Runs, Post(r) \/ PostFails(r), channel' # channel
      PROVE  \E f \in toPost[r] :
               /\ pc[r] = "post" /\ ~options[r].dry /\ UNCHANGED <<options, results>>
               /\ channel' = Append(channel, Message(r, f))
  BY <1>2 DEF Post, PostFails
<1>. QED
  BY <1>1, <1>2, MessageAppends DEF Next, Step, Tick, Start, Skip, RunStage, RunQuery, RunCrossmatch, RunDistance,
       RunLocalize, RunCutFilter, Ran, MissingResult, Collect, Announced, Raise, vars, runVars

LEMMA AnnouncedStep ==
  ASSUME ProgressInv, RecordInv, PostInv, [Next]_vars
  PROVE  AnnouncedWasFound'
<1>. DEFINE OK(m) == /\ ~options[m.run].dry
                     /\ m.filter \in DOMAIN results[m.run] /\ HasCandidates(m.run, m.filter)
                     /\ m.rows = results[m.run][m.filter].frame
                     /\ FoundIn(m.run, m.filter)
<1>1. ASSUME NEW m \in Posted PROVE OK(m)'
  <2>1. OK(m) /\ m.run \in Runs /\ m.filter \in FilterNames
    <3>1. m \in [run : Runs, filter : FilterNames, rows : SUBSET Alerts]
      <4>. DEFINE M == [run : Runs, filter : FilterNames, rows : SUBSET Alerts]
      <4>1. channel \in Seq(M) /\ \E i \in DOMAIN channel : m = channel[i]
        BY DEF ProgressInv, Types, TypeOK, Posted, ToSet
      <4>. HIDE DEF M
      <4>2. m \in M
        BY <4>1
      <4>. QED
        BY <4>2 DEF M
    <3>. QED
      BY <3>1 DEF PostInv, AnnouncedWasFound, FoundIn
  <2>2. pc[m.run] # "idle"
    BY <2>1 DEF ProgressInv, Begins
  <2>3. options'[m.run] = options[m.run]
    BY <2>1, <2>2, StepOfRun DEF Waits, Begun, Took
  <2>4. \A s \in DOMAIN results[m.run] :
          s \in DOMAIN results'[m.run] /\ results'[m.run][s] = results[m.run][s]
    BY <2>1, <2>2, RecordStays
  <2>5. "distance" \notin DOMAIN results[m.run] => "distance" \notin DOMAIN results'[m.run]
    <3>1. CASE Waits(m.run)
      BY <3>1 DEF Waits
    <3>2. ASSUME NEW result \in StageResult, Took(m.run, result)
          PROVE  "distance" \notin DOMAIN results[m.run] => "distance" \notin DOMAIN results'[m.run]
      <4>1. stage(m.run) \notin requires(m.filter)
        BY <2>1, <3>2, Behind DEF Took
      <4>2. stage(m.run) # "distance"
        BY <2>1, <4>1, Requires
      <4>. QED
        BY <3>2, <4>2 DEF Took, Extend
    <3>. QED
      BY <2>1, <2>2, <3>1, <3>2, StepOfRun DEF Begun
  <2>. QED
    BY <2>1, <2>3, <2>4, <2>5 DEF HasCandidates, FoundIn
<1>2. ASSUME NEW r \in Runs, NEW f \in toPost[r], pc[r] = "post", ~options[r].dry,
             UNCHANGED <<options, results>>
      PROVE  OK(Message(r, f))'
  <2>1. f \in FilterNames /\ f \in DOMAIN results[r] /\ HasCandidates(r, f)
    BY <1>2, MessageType DEF ProgressInv, Placed, PostInv, Collected
  <2>2. FoundIn(r, f)
    BY <2>1 DEF RecordInv, Found
  <2>. QED
    BY <1>2, <2>1, <2>2 DEF Message, HasCandidates, FoundIn
<1>3. \A m \in Posted' : OK(m)'
  <2>1. CASE Posted' = Posted
    BY <1>1, <2>1
  <2>2. ASSUME NEW r \in Runs, NEW f \in toPost[r], pc[r] = "post", ~options[r].dry,
               UNCHANGED <<options, results>>, Posted' = Posted \cup {Message(r, f)}
        PROVE  \A m \in Posted' : OK(m)'
    <3>1. OK(Message(r, f))'
      BY <1>2, <2>2
    <3>2. Message(r, f)' = Message(r, f)
      BY <2>2 DEF Message
    <3>3. ASSUME NEW m \in Posted' PROVE OK(m)'
      <4>1. CASE m \in Posted
        BY <1>1, <4>1
      <4>2. CASE m = Message(r, f)
        BY <3>1, <3>2, <4>2 DEF HasCandidates, FoundIn
      <4>. QED
        BY <2>2, <4>1, <4>2
    <3>. QED
      BY <3>3
  <2>. QED
    BY <2>1, <2>2, ChannelStep
<1>. QED
  BY <1>3 DEF AnnouncedWasFound, FoundIn

LEMMA PostStep ==
  ASSUME ProgressInv, RecordInv, PostInv, [Next]_vars, NEW q \in Runs
  PROVE  (Collected(q) /\ Reported(q))'
<1>. USE DEF ProgressInv, Types, TypeOK
<1>0. Posted \subseteq Posted' /\ Collected(q) /\ Reported(q)
  BY ChannelStep DEF PostInv
<1>1. CASE UNCHANGED <<pc, options, results, toPost, rejected>>
  BY <1>0, <1>1, Undisturbed
<1>2. ASSUME NEW r \in Runs, NEW from \in Starts, NEW rows \in SUBSET Alerts,
             Start(r, from, rows)
      PROVE  (Collected(q) /\ Reported(q))'
  <2>1. CASE q # r
    BY <1>0, <1>2, <2>1, Undisturbed DEF Start, Goto
  <2>2. CASE q = r
    BY <1>2, <2>2 DEF Start, Goto, Collected, Reported
  <2>. QED
    BY <2>1, <2>2
<1>3. ASSUME NEW r \in Runs, Skip(r) PROVE (Collected(q) /\ Reported(q))'
  <2>1. CASE q # r
    BY <1>0, <1>3, <2>1, Undisturbed DEF Skip, Record, Goto
  <2>2. CASE q = r /\ stage(r) # "slack_publish"
    BY <1>3, <2>2 DEF Skip, Goto, Collected, Reported
  <2>3. CASE q = r /\ stage(r) = "slack_publish"
    <3>1. enabled(r) /\ pc'[r] = "done" /\ stage(r) \notin FilterNames
      BY <1>3, <2>3, Names, PipelineAssumption DEF Skip, Goto, enabled
    <3>2. \A f \in FilterNames \cap DOMAIN results[r] : is_empty(results[r][f])
      BY <1>3, <2>3, <3>1, Requires DEF Skip, has_input
    <3>3. results' = [results EXCEPT ![r] = Extend(@, stage(r), Skipped("no input"))]
      BY <1>3, <3>1 DEF Skip, Record
    <3>4. \A f \in FilterNames \cap DOMAIN results'[r] :
            f \in DOMAIN results[r] /\ results'[r][f] = results[r][f]
      BY <3>1, <3>3 DEF Extend
    <3>. QED
      BY <2>3, <3>1, <3>2, <3>4 DEF Collected, Reported, HasCandidates, is_empty
  <2>. QED
    BY <2>1, <2>2, <2>3
<1>4. ASSUME NEW r \in Runs, NEW rows \in SUBSET Alerts, RunStage(r, rows)
      PROVE  (Collected(q) /\ Reported(q))'
  <2>1. pc[r] = "stage" /\ Ran(r, rows)
    BY <1>4, RowsAre
  <2>2. CASE q # r
    BY <1>0, <2>1, <2>2, Undisturbed DEF Ran, Record
  <2>3. CASE q = r
    BY <2>1, <2>3 DEF Ran, Collected, Reported
  <2>. QED
    BY <2>2, <2>3
<1>5. ASSUME NEW r \in Runs, MissingResult(r) \/ Raise(r) PROVE (Collected(q) /\ Reported(q))'
  <2>1. CASE q # r
    BY <1>0, <1>5, <2>1, Undisturbed DEF MissingResult, Raise, Goto
  <2>2. CASE q = r
    BY <1>5, <2>2 DEF MissingResult, Raise, Goto, Collected, Reported
  <2>. QED
    BY <2>1, <2>2
<1>6. ASSUME NEW r \in Runs, Collect(r) PROVE (Collected(q) /\ Reported(q))'
  <2>1. CASE q # r
    BY <1>0, <1>6, <2>1, Undisturbed DEF Collect, Goto
  <2>2. CASE q = r
    <3>1. /\ pc'[r] = "post" /\ UNCHANGED <<options, results>>
          /\ toPost'[r] = IF options[r].slack THEN {f \in FilterNames : HasCandidates(r, f)} ELSE {}
      BY <1>6 DEF Collect, Goto
    <3>. QED
      BY <2>2, <3>1 DEF Collected, Reported, MayPost, HasCandidates
  <2>. QED
    BY <2>1, <2>2
<1>7. ASSUME NEW r \in Runs, Post(r) \/ PostFails(r) PROVE (Collected(q) /\ Reported(q))'
  <2>1. CASE q # r
    BY <1>0, <1>7, <2>1, Undisturbed DEF Post, PostFails
  <2>2. CASE q = r
    <3>1. PICK f \in toPost[r] :
            /\ pc[r] = "post" /\ UNCHANGED <<pc, options, results>>
            /\ toPost'[r] = toPost[r] \ {f} /\ rejected[r] \subseteq rejected'[r]
            /\ options[r].dry \/ f \in rejected'[r] \/ Message(r, f) \in Posted'
      <4>1. CASE Post(r)
        <5>1. PICK f \in toPost[r] :
                /\ channel' = IF options[r].dry THEN channel ELSE Append(channel, Message(r, f))
                /\ toPost' = [toPost EXCEPT ![r] = @ \ {f}]
          BY <4>1 DEF Post
        <5>2. pc[r] = "post"
          BY <4>1 DEF Post
        <5>3. channel' = Append(channel, Message(r, f)) => Posted' = Posted \cup {Message(r, f)}
          BY <5>2, MessageAppends
        <5>4. options[r].dry \/ Message(r, f) \in Posted'
          BY <5>1, <5>3
        <5>. QED
          BY <4>1, <5>1, <5>4 DEF Post
      <4>2. CASE PostFails(r)
        BY <4>2 DEF PostFails
      <4>. QED
        BY <1>7, <4>1, <4>2
    <3>. QED
      BY <1>0, <2>2, <3>1 DEF Collected, Reported, MayPost, HasCandidates, Message
  <2>. QED
    BY <2>1, <2>2
<1>8. ASSUME NEW r \in Runs, Announced(r) PROVE (Collected(q) /\ Reported(q))'
  <2>1. CASE q # r
    BY <1>0, <1>8, <2>1, Undisturbed DEF Announced, Record, Goto
  <2>2. CASE q = r /\ pc'[r] = "failed"
    BY <2>2 DEF Collected, Reported
  <2>3. CASE q = r /\ rejected[r] = {} /\ Record(r, Produced({})) /\ Goto(r, "done")
    <3>1. /\ pc[r] = "post" /\ pc'[r] = "done" /\ toPost[r] = {}
          /\ UNCHANGED <<options, channel>> /\ stage(r) \notin FilterNames
      BY <1>8, <2>3, Names DEF Announced, Goto, Placed
    <3>2. \A f \in FilterNames \cap DOMAIN results'[r] :
            f \in DOMAIN results[r] /\ results'[r][f] = results[r][f]
      BY <2>3, <3>1 DEF Record, Extend
    <3>. QED
      BY <1>0, <2>3, <3>1, <3>2 DEF Collected, Reported, MayPost, HasCandidates, Message
  <2>. QED
    BY <1>8, <2>1, <2>2, <2>3 DEF Announced, Goto
<1>. QED
  BY <1>1, <1>2, <1>3, <1>4, <1>5, <1>6, <1>7, <1>8 DEF Next, Step, Tick, vars, runVars

LEMMA PostInvariant == Spec => []PostInv
<1>1. Init => PostInv
  BY DEF Init, PostInv, AnnouncedWasFound, Posted, ToSet, Collected, Reported
<1>2. ProgressInv /\ RecordInv /\ PostInv /\ [Next]_vars => PostInv'
  BY AnnouncedStep, PostStep DEF PostInv
<1>. QED
  BY <1>1, <1>2, ProgressInvariant, RecordInvariant, PTL DEF Spec

(* cli.py:107, slack_publish.py:402: a message on Slack is what its filter *)
(* found in its run among the alerts that run placed, or the stand-in for  *)
(* the first filter, and no dry run has sent it.                           *)
THEOREM PipelineAnnouncesWhatItFound == Spec => []AnnouncedWasFound
<1>1. PostInv => AnnouncedWasFound
  BY DEF PostInv
<1>. QED
  BY <1>1, PostInvariant, PTL

(* slack_publish.py:421: whatever is found or refused, a run that may post *)
(* ends well only with every candidate announced, and gives up only when   *)
(* those it has not announced were rejected.                               *)
THEOREM PipelineSiblingsReport == Spec => []SiblingsReport
<1>1. PostInv => SiblingsReport
  BY DEF PostInv, SiblingsReport, Collected, Reported, MayPost
<1>. QED
  BY <1>1, PostInvariant, PTL

-----------------------------------------------------------------------------
(* The refinement: each step of a run is one of the announcer's, or        *)
(* changes nothing that it shows.                                          *)

SaidBy(r) == {f \in FilterNames : \E i \in DOMAIN channel : channel[i].run = r /\ channel[i].filter = f}

(* What is still to be posted has not been tried, and only a run with a    *)
(* channel posts.                                                          *)
Untried(r) ==
  /\ pc[r] \in {"idle", "stage"} => SaidBy(r) = {} /\ rejected[r] = {}
  /\ \A f \in toPost[r] : f \notin SaidBy(r) /\ f \notin rejected[r]
  /\ toPost[r] # {} => options[r].slack /\ pc[r] # "idle" /\ pc[r] # "stage"

OnceInv == \A r \in Runs : Untried(r)

(* The state of the announcer that a state of the runs stands for.         *)
Verdicts == [r \in Runs |-> Verdict(r)]

Willing == [r \in Runs |-> MayPost(r)]

AllFinds == [r \in Runs |-> Finds(r)]

(* A step of run r leaves those of the others alone.                       *)
OthersStay(r) == \A q \in Runs \ {r} : UNCHANGED <<pc[q], options[q], results[q]>>

LEMMA OthersSame ==
  ASSUME NEW r \in Runs, OthersStay(r)
  PROVE  \A q \in Runs \ {r} : /\ Verdict(q)' = Verdict(q) /\ MayPost(q)' = MayPost(q)
                                /\ Finds(q)' = Finds(q)
BY DEF OthersStay, Verdict, MayPost, Finds, HasCandidates, is_empty

LEMMA MappedStep ==
  ASSUME NEW r \in Runs, OthersStay(r)
  PROVE  /\ Verdicts' = [Verdicts EXCEPT ![r] = Verdict(r)']
         /\ Willing' = [Willing EXCEPT ![r] = MayPost(r)']
         /\ AllFinds' = [AllFinds EXCEPT ![r] = Finds(r)']
BY OthersSame DEF Verdicts, Willing, AllFinds

LEMMA MappedStays ==
  ASSUME \A q \in Runs : Verdict(q)' = Verdict(q) /\ MayPost(q)' = MayPost(q) /\ Finds(q)' = Finds(q),
         UNCHANGED <<channel, rejected>>
  PROVE  UNCHANGED Announcing!announcerVars
BY DEF Announcing!announcerVars

LEMMA StutterIs ==
  ASSUME NEW r \in Runs, OthersStay(r), Verdict(r)' = Verdict(r), MayPost(r)' = MayPost(r),
         Finds(r)' = Finds(r), UNCHANGED <<channel, rejected>>
  PROVE  UNCHANGED Announcing!announcerVars
BY OthersSame, MappedStays

(* The finds with one more among them.                                     *)
WithFind(F, f, rows) == [g \in DOMAIN F \cup {f} |-> IF g = f THEN rows ELSE F[g]]

LEMMA BeginIs ==
  ASSUME NEW r \in Runs, OthersStay(r), Verdict(r) = "idle", Verdict(r)' = "open",
         MayPost(r)' \in BOOLEAN, UNCHANGED <<channel, rejected>>,
         \/ Finds(r)' = Finds(r)
         \/ \E f \in FilterNames, rows \in SUBSET Alerts :
              rows # {} /\ Finds(r)' = WithFind(Finds(r), f, rows)
  PROVE  Announcing!Begin(r)
<1>1. /\ Verdicts' = [Verdicts EXCEPT ![r] = "open"] /\ Verdicts[r] = "idle"
      /\ \E may \in BOOLEAN : Willing' = [Willing EXCEPT ![r] = may]
      /\ AllFinds' = [AllFinds EXCEPT ![r] = Finds(r)'] /\ AllFinds[r] = Finds(r)
  BY MappedStep DEF Verdicts, AllFinds
<1>2. \/ AllFinds' = AllFinds
      \/ \E f \in FilterNames, rows \in SUBSET Alerts :
           rows # {} /\ AllFinds' = [AllFinds EXCEPT ![r] = WithFind(@, f, rows)]
  <2>1. CASE Finds(r)' = Finds(r)
    BY <1>1, <2>1 DEF AllFinds
  <2>2. ASSUME NEW f \in FilterNames, NEW rows \in SUBSET Alerts, rows # {},
               Finds(r)' = WithFind(Finds(r), f, rows)
        PROVE  AllFinds' = [AllFinds EXCEPT ![r] = WithFind(@, f, rows)]
    BY <1>1, <2>2
  <2>. QED
    BY <2>1, <2>2
<1>. QED
  BY <1>1, <1>2 DEF Announcing!Begin, Announcing!Adds, Verdicts, Willing, AllFinds, WithFind

LEMMA FindIs ==
  ASSUME NEW r \in Runs, OthersStay(r), Verdict(r) = "open", Verdict(r)' = "open",
         MayPost(r)' = MayPost(r), UNCHANGED <<channel, rejected>>,
         NEW f \in FilterNames, NEW rows \in SUBSET Alerts, rows # {}, f \notin DOMAIN Finds(r),
         Finds(r)' = WithFind(Finds(r), f, rows), SaidBy(r) = {}, rejected[r] = {}
  PROVE  Announcing!Find(r, f, rows)
<1>1. /\ Verdicts' = Verdicts /\ Verdicts[r] = "open" /\ Willing' = Willing
      /\ AllFinds' = [AllFinds EXCEPT ![r] = WithFind(@, f, rows)] /\ f \notin DOMAIN AllFinds[r]
  BY MappedStep DEF Verdicts, Willing, AllFinds
<1>2. Announcing!Tried(r) = {}
  BY DEF Announcing!Tried, Announcing!Said, SaidBy
<1>. QED
  BY <1>1, <1>2 DEF Announcing!Find, Announcing!Adds, Verdicts, Willing, AllFinds, WithFind

LEMMA MayAnnounceIs ==
  ASSUME NEW r \in Runs, Verdict(r) = "open", MayPost(r),
         NEW f \in DOMAIN Finds(r), f \notin SaidBy(r), f \notin rejected[r]
  PROVE  Announcing!MayAnnounce(r, f)
BY DEF Announcing!MayAnnounce, Announcing!Tried, Announcing!Said, SaidBy

LEMMA EndIs ==
  ASSUME NEW r \in Runs, OthersStay(r), Verdict(r) = "open",
         MayPost(r)' = MayPost(r), Finds(r)' = Finds(r), UNCHANGED <<channel, rejected>>
  PROVE  /\ Verdict(r)' = "bad" => Announcing!Fail(r)
         /\ Verdict(r)' = "good" /\ rejected[r] = {} /\ (MayPost(r) => DOMAIN Finds(r) \subseteq SaidBy(r))
              => Announcing!Close(r)
<1>1. /\ Verdicts' = [Verdicts EXCEPT ![r] = Verdict(r)'] /\ Verdicts[r] = "open"
      /\ Willing' = Willing /\ AllFinds' = AllFinds
  BY MappedStep DEF Verdicts, Willing, AllFinds
<1>2. Verdict(r)' = "bad" => Announcing!Fail(r)
  BY <1>1 DEF Announcing!Fail, Verdicts, Willing, AllFinds
<1>3. ASSUME Verdict(r)' = "good", rejected[r] = {}, MayPost(r) => DOMAIN Finds(r) \subseteq SaidBy(r)
      PROVE  Announcing!Close(r)
  <2>1. Announcing!Said(r) = SaidBy(r)
    BY DEF Announcing!Said, SaidBy
  <2>. QED
    BY <1>1, <1>3, <2>1 DEF Announcing!Close, Verdicts, Willing, AllFinds
<1>. QED
  BY <1>2, <1>3

(* Finds of a run whose record grows, or does not.                         *)
LEMMA FindsStay ==
  ASSUME NEW r \in Runs,
         \A f \in FilterNames : (f \in DOMAIN results'[r] /\ HasCandidates(r, f)')
                                  <=> (f \in DOMAIN results[r] /\ HasCandidates(r, f)),
         \A f \in FilterNames \cap DOMAIN results[r] : results'[r][f] = results[r][f]
  PROVE  Finds(r)' = Finds(r)
BY DEF Finds

(* A stage that is not a filter, or a filter that is skipped or finds      *)
(* nothing, adds no find; and a filter that finds something adds that.     *)
LEMMA FindsTook ==
  ASSUME ProgressInv, NEW r \in Runs, pc[r] \in {"stage", "post"}, NEW result \in StageResult,
         results'[r] = Extend(results[r], stage(r), result)
  PROVE  /\ stage(r) \notin FilterNames \/ result.skipped # "no" \/ result.frame = {}
              => Finds(r)' = Finds(r)
         /\ stage(r) \in FilterNames /\ result.skipped = "no" /\ result.frame # {}
              => /\ stage(r) \notin DOMAIN Finds(r)
                 /\ Finds(r)' = WithFind(Finds(r), stage(r), result.frame)
<1>0. PICK t : t = stage(r)
  OBVIOUS
<1>1. t \notin DOMAIN results[r]
  BY <1>0, StageIs
<1>2. /\ DOMAIN results'[r] = DOMAIN results[r] \cup {t} /\ results'[r][t] = result
      /\ \A s \in DOMAIN results[r] : results'[r][s] = results[r][s]
  BY <1>0, <1>1 DEF Extend
<1>3. \A f \in DOMAIN results[r] : HasCandidates(r, f)' <=> HasCandidates(r, f)
  BY <1>2 DEF HasCandidates, is_empty
<1>4. HasCandidates(r, t)' <=> result.skipped = "no" /\ result.frame # {}
  BY <1>2 DEF HasCandidates, is_empty
<1>5. ASSUME t \notin FilterNames \/ result.skipped # "no" \/ result.frame = {}
      PROVE  Finds(r)' = Finds(r)
  BY <1>2, <1>3, <1>4, <1>5, FindsStay
<1>6. ASSUME t \in FilterNames, result.skipped = "no", result.frame # {}
      PROVE  t \notin DOMAIN Finds(r) /\ Finds(r)' = WithFind(Finds(r), t, result.frame)
  <2>1. t \notin DOMAIN Finds(r)
    BY <1>1 DEF Finds
  <2>2. DOMAIN Finds(r)' = DOMAIN Finds(r) \cup {t}
    BY <1>1, <1>2, <1>3, <1>4, <1>6 DEF Finds
  <2>3. \A f \in DOMAIN Finds(r) : Finds(r)'[f] = Finds(r)[f]
    BY <1>2, <1>3 DEF Finds
  <2>4. Finds(r)'[t] = result.frame
    BY <1>2, <1>4, <1>6 DEF Finds
  <2>5. Finds(r)' = [f \in DOMAIN Finds(r)' |-> Finds(r)'[f]]
    BY DEF Finds
  <2>. QED
    BY <2>1, <2>2, <2>3, <2>4, <2>5 DEF WithFind
<1>. QED
  BY <1>0, <1>5, <1>6

LEMMA StartBegins ==
  ASSUME ProgressInv, NEW r \in Runs, NEW from \in Starts, NEW rows \in SUBSET Alerts,
         Start(r, from, rows)
  PROVE  Announcing!Begin(r)
<1>1. OthersStay(r) /\ UNCHANGED <<channel, rejected>>
  BY DEF Start, Goto, OthersStay, ProgressInv, Types, TypeOK
<1>2. Verdict(r) = "idle" /\ Verdict(r)' = "open" /\ DOMAIN results[r] = {}
  BY DEF Start, Goto, Verdict, Begins, ProgressInv, Types, TypeOK
<1>3. MayPost(r)' \in BOOLEAN
  BY DEF MayPost
<1>4. DOMAIN Finds(r) = {} /\ Finds(r) = [f \in {} |-> {}]
  BY <1>2 DEF Finds
<1>5. \/ Finds(r)' = Finds(r)
      \/ \E f \in FilterNames, found \in SUBSET Alerts :
           found # {} /\ Finds(r)' = WithFind(Finds(r), f, found)
  <2>1. CASE results'[r] = results[r]
    BY <2>1 DEF Finds, HasCandidates, is_empty
  <2>2. CASE from # None /\ results'[r] = StandIns(from, rows)
    <3>0. from \in Starts \ {None}
      BY <2>2
    <3>1. /\ DOMAIN results'[r] = requires(from)
          /\ \A s \in requires(from) : results'[r][s] \in {Produced(rows), Skipped("no stand-in")}
          /\ from = "slack_publish" => \A s \in requires(from) :
               s # Filters[1] => results'[r][s] = Skipped("no stand-in")
      BY <2>2, <3>0, StandInsAre
    <3>2. CASE requires(from) \cap FilterNames = {}
      <4>1. DOMAIN Finds(r)' = {}
        BY <3>1, <3>2 DEF Finds
      <4>. QED
        BY <1>4, <4>1 DEF Finds
    <3>3. CASE from = "slack_publish"
      <4>1. \A f \in FilterNames \cap DOMAIN results'[r] : HasCandidates(r, f)' =>
              f = Filters[1] /\ results'[r][f] = Produced(rows) /\ rows # {}
        <5>. SUFFICES ASSUME NEW f \in FilterNames \cap DOMAIN results'[r], HasCandidates(r, f)'
                      PROVE  f = Filters[1] /\ results'[r][f] = Produced(rows) /\ rows # {}
          OBVIOUS
        <5>1. results'[r][f].skipped = "no" /\ results'[r][f].frame # {}
          BY DEF HasCandidates, is_empty
        <5>2. Skipped("no stand-in").skipped = "no stand-in"
          BY ResultIs
        <5>3. results'[r][f] # Skipped("no stand-in")
          BY <5>1, <5>2
        <5>4. f \in requires(from)
          BY <3>1
        <5>5. f = Filters[1] /\ results'[r][f] = Produced(rows)
          BY <3>1, <3>3, <5>3, <5>4
        <5>. QED
          BY <5>1, <5>5, ResultIs
      <4>2. CASE DOMAIN Finds(r)' = {}
        BY <1>4, <4>2 DEF Finds
      <4>3. CASE DOMAIN Finds(r)' # {}
        <5>1. /\ DOMAIN Finds(r)' = {Filters[1]} /\ Filters[1] \in FilterNames /\ rows # {}
              /\ Finds(r)'[Filters[1]] = rows
          BY <4>1, <4>3, ResultIs DEF Finds
        <5>2. Finds(r)' = [f \in {Filters[1]} |-> rows]
          BY <5>1 DEF Finds
        <5>3. WithFind(Finds(r), Filters[1], rows) = [f \in {Filters[1]} |-> rows]
          BY <1>4 DEF WithFind
        <5>. QED
          BY <5>1, <5>2, <5>3
      <4>. QED
        BY <4>2, <4>3
    <3>. QED
      BY <3>0, <3>2, <3>3, FiltersRequired
  <2>. QED
    BY <2>1, <2>2 DEF Start, ProgressInv, Types, TypeOK
<1>. QED
  BY <1>1, <1>2, <1>3, <1>5, BeginIs

LEMMA AppendSaid ==
  ASSUME ProgressInv, NEW r \in Runs, NEW f \in toPost[r], pc[r] = "post",
         channel' = Append(channel, Message(r, f))
  PROVE  /\ SaidBy(r)' = SaidBy(r) \cup {f}
         /\ \A q \in Runs \ {r} : SaidBy(q)' = SaidBy(q)
<1>1. channel \in Seq([run : Runs, filter : FilterNames, rows : SUBSET Alerts]) /\ f \in FilterNames
  BY MessageType DEF ProgressInv, Types, TypeOK
<1>2. /\ DOMAIN channel' = DOMAIN channel \cup {Len(channel) + 1}
      /\ channel'[Len(channel) + 1] = Message(r, f)
      /\ \A i \in DOMAIN channel : channel'[i] = channel[i]
  BY <1>1
<1>3. Message(r, f).run = r /\ Message(r, f).filter = f
  BY DEF Message
<1>. QED
  BY <1>1, <1>2, <1>3 DEF SaidBy

(* A step that posts.                                                      *)
Posts(r, f) ==
  /\ pc[r] = "post" /\ UNCHANGED <<pc, options, results>>
  /\ toPost' = [toPost EXCEPT ![r] = @ \ {f}]
  /\ \/ options[r].dry /\ UNCHANGED <<channel, rejected>>
     \/ /\ ~options[r].dry /\ channel' = Append(channel, Message(r, f))
        /\ UNCHANGED rejected
     \/ /\ ~options[r].dry /\ channel' \in {channel, Append(channel, Message(r, f))}
        /\ rejected' = [rejected EXCEPT ![r] = @ \cup {f}]

LEMMA PostsIs ==
  ASSUME NEW r \in Runs, Post(r) \/ PostFails(r)
  PROVE  \E f \in toPost[r] : Posts(r, f)
<1>1. CASE Post(r)
  <2>1. PICK f \in toPost[r] :
          /\ channel' = IF options[r].dry THEN channel ELSE Append(channel, Message(r, f))
          /\ toPost' = [toPost EXCEPT ![r] = @ \ {f}]
    BY <1>1 DEF Post
  <2>. QED
    BY <1>1, <2>1 DEF Post, Posts
<1>2. CASE PostFails(r)
  <2>1. PICK f \in toPost[r] :
          /\ channel' \in {channel, Append(channel, Message(r, f))}
          /\ rejected' = [rejected EXCEPT ![r] = @ \cup {f}]
          /\ toPost' = [toPost EXCEPT ![r] = @ \ {f}]
    BY <1>2 DEF PostFails
  <2>. QED
    BY <1>2, <2>1 DEF PostFails, Posts
<1>. QED
  BY <1>1, <1>2

LEMMA UntriedPosts ==
  ASSUME ProgressInv, NEW q \in Runs, Untried(q),
         NEW r \in Runs, NEW f \in toPost[r], Posts(r, f)
  PROVE  Untried(q)'
<1>1. toPost \in [Runs -> SUBSET FilterNames] /\ rejected \in [Runs -> SUBSET FilterNames]
  BY DEF ProgressInv, Types, TypeOK
<1>2. /\ SaidBy(r)' \subseteq SaidBy(r) \cup {f}
      /\ \A p \in Runs \ {r} : SaidBy(p)' = SaidBy(p)
  <2>1. CASE channel' = channel
    BY <2>1 DEF SaidBy
  <2>2. CASE channel' = Append(channel, Message(r, f))
    BY <2>2, AppendSaid DEF Posts
  <2>. QED
    BY <2>1, <2>2 DEF Posts
<1>3. /\ rejected'[r] \subseteq rejected[r] \cup {f}
      /\ \A p \in Runs \ {r} : rejected'[p] = rejected[p] /\ toPost'[p] = toPost[p]
      /\ toPost'[r] = toPost[r] \ {f}
  BY <1>1 DEF Posts
<1>4. CASE q = r
  BY <1>1, <1>2, <1>3, <1>4 DEF Untried, Posts
<1>5. CASE q # r
  BY <1>1, <1>2, <1>3, <1>5 DEF Untried, Posts
<1>. QED
  BY <1>4, <1>5

(* Every step preserves it.                                                *)
LEMMA OnceStep ==
  ASSUME ProgressInv, OnceInv, [Next]_vars, NEW q \in Runs
  PROVE  Untried(q)'
<1>0. Untried(q)
  BY DEF OnceInv
<1>1. CASE /\ UNCHANGED <<channel, rejected>> /\ toPost'[q] = toPost[q]
           /\ options'[q] = options[q] \/ pc[q] = "idle"
           /\ pc'[q] \in {"idle", "stage"} => pc[q] \in {"idle", "stage"}
  BY <1>0, <1>1 DEF Untried, SaidBy
<1>2. CASE Collect(q)
  <2>1. /\ pc[q] = "stage" /\ pc'[q] = "post" /\ UNCHANGED <<channel, rejected, options>>
        /\ toPost'[q] # {} => options[q].slack
    BY <1>2 DEF Collect, Goto, ProgressInv, Types, TypeOK
  <2>. QED
    BY <1>0, <2>1 DEF Untried, SaidBy
<1>3. ASSUME NEW r \in Runs, Post(r) \/ PostFails(r)
      PROVE  Untried(q)'
  BY <1>0, <1>3, PostsIs, UntriedPosts
<1>4. ASSUME NEW r \in Runs, NEW from \in Starts, NEW rows \in SUBSET Alerts, Start(r, from, rows)
      PROVE  Untried(q)'
  <2>1. UNCHANGED <<channel, rejected, toPost>> /\ pc[r] = "idle"
    BY <1>4 DEF Start
  <2>2. r # q => options'[q] = options[q] /\ pc'[q] = pc[q]
    BY <1>4 DEF Start, Goto, ProgressInv, Types, TypeOK
  <2>. QED
    BY <1>1, <2>1, <2>2
<1>5. ASSUME NEW r \in Runs, Skip(r) \/ MissingResult(r) \/ Raise(r) \/ Announced(r)
      PROVE  Untried(q)'
  <2>1. UNCHANGED <<channel, rejected, toPost, options>>
    BY <1>5 DEF Skip, MissingResult, Raise, Announced
  <2>2. pc'[q] = pc[q] \/ pc[q] = "stage" \/ pc'[q] \notin {"idle", "stage"}
    BY <1>5 DEF Skip, MissingResult, Raise, Announced, Goto, ProgressInv, Types, TypeOK
  <2>. QED
    BY <1>1, <2>1, <2>2
<1>6. ASSUME NEW r \in Runs, NEW rows \in SUBSET Alerts, RunStage(r, rows)
      PROVE  Untried(q)'
  BY <1>1, <1>6, RowsAre DEF Ran
<1>7. ASSUME NEW r \in Runs, r # q, Collect(r)
      PROVE  Untried(q)'
  BY <1>1, <1>7 DEF Collect, Goto, ProgressInv, Types, TypeOK
<1>8. CASE Tick \/ UNCHANGED vars
  BY <1>1, <1>8 DEF Tick, vars, runVars
<1>. QED
  BY <1>2, <1>3, <1>4, <1>5, <1>6, <1>7, <1>8 DEF Next, Step

LEMMA OnceInvariant == Spec => []OnceInv
<1>1. Init => OnceInv
  BY DEF Init, OnceInv, Untried, SaidBy
<1>2. ProgressInv /\ OnceInv /\ [Next]_vars => OnceInv'
  BY OnceStep DEF OnceInv
<1>. QED
  BY <1>1, <1>2, ProgressInvariant, PTL DEF Spec

(* A skipped stage finds nothing, and skipping slack_publish ends a run    *)
(* whose filters found nothing.                                            *)
LEMMA SkipIs ==
  ASSUME ProgressInv, OnceInv, NEW r \in Runs, Skip(r)
  PROVE  Announcing!Close(r) \/ UNCHANGED Announcing!announcerVars
<1>1. /\ OthersStay(r) /\ UNCHANGED <<channel, rejected>> /\ pc[r] = "stage"
      /\ options'[r] = options[r]
      /\ pc'[r] = IF stage(r) = "slack_publish" THEN "done" ELSE "stage"
  BY DEF Skip, Record, Goto, OthersStay, ProgressInv, Types, TypeOK
<1>2. PICK why \in {"disabled", "no input"} :
        results'[r] = Extend(results[r], stage(r), Skipped(why))
  BY DEF Skip, Record, ProgressInv, Types, TypeOK
<1>3. Skipped(why) \in StageResult /\ Skipped(why).skipped # "no"
  BY DEF Skipped, StageResult
<1>4. Finds(r)' = Finds(r)
  BY <1>1, <1>2, <1>3, FindsTook
<1>5. Verdict(r) = "open" /\ MayPost(r)' = MayPost(r)
  BY <1>1 DEF Verdict, MayPost
<1>6. CASE stage(r) # "slack_publish"
  <2>1. Verdict(r)' = Verdict(r)
    BY <1>1, <1>6 DEF Verdict
  <2>. QED
    BY <1>1, <1>4, <1>5, <2>1, StutterIs
<1>7. CASE stage(r) = "slack_publish"
  <2>1. Verdict(r)' = "good"
    BY <1>1, <1>7 DEF Verdict
  <2>2. enabled(r)
    BY <1>7, Names, PipelineAssumption DEF enabled
  <2>3. \A f \in FilterNames \cap DOMAIN results[r] : is_empty(results[r][f])
    BY <1>7, <2>2, Requires DEF Skip, has_input
  <2>4. DOMAIN Finds(r) = {}
    BY <2>3 DEF Finds, HasCandidates
  <2>5. rejected[r] = {}
    BY <1>1 DEF OnceInv, Untried
  <2>. QED
    BY <1>1, <1>4, <1>5, <2>1, <2>4, <2>5, EndIs
<1>. QED
  BY <1>6, <1>7

(* A stage that runs finds something only if it is a filter.               *)
LEMMA RunStageIs ==
  ASSUME ProgressInv, OnceInv, NEW r \in Runs, NEW rows \in SUBSET Alerts, RunStage(r, rows)
  PROVE  \/ UNCHANGED Announcing!announcerVars
         \/ \E f \in FilterNames : Announcing!Find(r, f, rows)
<1>1. /\ OthersStay(r) /\ UNCHANGED <<channel, rejected>> /\ pc[r] = "stage"
      /\ pc' = pc /\ options' = options
      /\ results'[r] = Extend(results[r], stage(r), Produced(rows))
  BY RowsAre DEF Ran, Record, OthersStay, ProgressInv, Types, TypeOK
<1>2. Produced(rows) \in StageResult /\ Produced(rows).skipped = "no" /\ Produced(rows).frame = rows
  BY DEF Produced, StageResult
<1>3. Verdict(r) = "open" /\ Verdict(r)' = "open" /\ MayPost(r)' = MayPost(r)
  BY <1>1 DEF Verdict, MayPost
<1>4. CASE stage(r) \notin FilterNames \/ rows = {}
  <2>1. Finds(r)' = Finds(r)
    BY <1>1, <1>2, <1>4, FindsTook
  <2>. QED
    BY <1>1, <1>3, <2>1, StutterIs
<1>5. CASE stage(r) \in FilterNames /\ rows # {}
  <2>1. /\ stage(r) \notin DOMAIN Finds(r)
        /\ Finds(r)' = WithFind(Finds(r), stage(r), rows)
    BY <1>1, <1>2, <1>5, FindsTook
  <2>2. SaidBy(r) = {} /\ rejected[r] = {}
    BY <1>1 DEF OnceInv, Untried
  <2>3. PICK f \in FilterNames :
          f \notin DOMAIN Finds(r) /\ Finds(r)' = WithFind(Finds(r), f, rows)
    BY <1>5, <2>1
  <2>4. Announcing!Find(r, f, rows)
    BY <1>1, <1>3, <1>5, <2>2, <2>3, FindIs
  <2>. QED
    BY <2>4
<1>. QED
  BY <1>4, <1>5

LEMMA FailIs ==
  ASSUME ProgressInv, NEW r \in Runs, MissingResult(r) \/ Raise(r)
  PROVE  Announcing!Fail(r)
<1>1. /\ OthersStay(r) /\ UNCHANGED <<channel, rejected>>
      /\ pc[r] \in {"stage", "post"} /\ pc'[r] = "failed"
      /\ options'[r] = options[r] /\ results' = results
  BY DEF MissingResult, Raise, Goto, OthersStay, ProgressInv, Types, TypeOK
<1>2. Verdict(r) = "open" /\ Verdict(r)' = "bad" /\ MayPost(r)' = MayPost(r)
  BY <1>1 DEF Verdict, MayPost
<1>3. Finds(r)' = Finds(r)
  BY <1>1 DEF Finds, HasCandidates, is_empty
<1>. QED
  BY <1>1, <1>2, <1>3, EndIs

LEMMA CollectIs ==
  ASSUME ProgressInv, NEW r \in Runs, Collect(r)
  PROVE  UNCHANGED Announcing!announcerVars
<1>1. /\ OthersStay(r) /\ UNCHANGED <<channel, rejected>> /\ pc[r] = "stage"
      /\ pc'[r] = "post" /\ options' = options /\ results' = results
  BY DEF Collect, Goto, OthersStay, ProgressInv, Types, TypeOK
<1>2. Verdict(r)' = Verdict(r) /\ MayPost(r)' = MayPost(r)
  BY <1>1 DEF Verdict, MayPost
<1>3. Finds(r)' = Finds(r)
  BY <1>1 DEF Finds, HasCandidates, is_empty
<1>. QED
  BY <1>1, <1>2, <1>3, StutterIs

(* What is posted has been found and was not posted before; a dry run      *)
(* posts nothing.                                                          *)
LEMMA PostIs ==
  ASSUME ProgressInv, PostInv, OnceInv, NEW r \in Runs, Post(r) \/ PostFails(r)
  PROVE  \/ UNCHANGED Announcing!announcerVars
         \/ \E f \in FilterNames : Announcing!Announce(r, f) \/ Announcing!Refuse(r, f)
<1>1. PICK f \in toPost[r] : Posts(r, f)
  BY PostsIs
<1>2. /\ pc[r] = "post" /\ pc' = pc /\ options' = options /\ results' = results
  BY <1>1 DEF Posts
<1>3. \A q \in Runs : Verdict(q)' = Verdict(q) /\ MayPost(q)' = MayPost(q) /\ Finds(q)' = Finds(q)
  BY <1>2 DEF Verdict, MayPost, Finds, HasCandidates, is_empty
<1>4. UNCHANGED <<Verdicts, Willing, AllFinds>>
  BY <1>3 DEF Verdicts, Willing, AllFinds
<1>5. CASE options[r].dry
  <2>1. UNCHANGED <<channel, rejected>>
    BY <1>1, <1>5 DEF Posts
  <2>. QED
    BY <1>3, <2>1, MappedStays
<1>6. CASE ~options[r].dry
  <2>1. f \in FilterNames /\ HasCandidates(r, f)
    BY <1>1, <1>2 DEF PostInv, Collected, ProgressInv, Types, TypeOK
  <2>2. f \in DOMAIN results[r]
    BY <1>2, <2>1 DEF ProgressInv, Placed
  <2>3. f \in DOMAIN Finds(r) /\ Message(r, f) = Announcing!Announcement(r, f)
    BY <2>1, <2>2 DEF Finds, Message, Announcing!Announcement
  <2>4. f \notin SaidBy(r) /\ f \notin rejected[r] /\ MayPost(r)
    BY <1>1, <1>2, <1>6 DEF OnceInv, Untried, MayPost
  <2>5. Announcing!MayAnnounce(r, f)
    <3>1. Verdict(r) = "open"
      BY <1>2 DEF Verdict
    <3>. QED
      BY <2>3, <2>4, <3>1, MayAnnounceIs
  <2>6. CASE channel' = Append(channel, Message(r, f)) /\ rejected' = rejected
    BY <1>4, <2>1, <2>3, <2>5, <2>6 DEF Announcing!Announce, Verdicts, Willing, AllFinds
  <2>7. CASE /\ channel' \in {channel, Append(channel, Message(r, f))}
             /\ rejected' = [rejected EXCEPT ![r] = @ \cup {f}]
    BY <1>4, <2>1, <2>3, <2>5, <2>7 DEF Announcing!Refuse, Verdicts, Willing, AllFinds
  <2>. QED
    BY <1>1, <1>6, <2>6, <2>7 DEF Posts
<1>. QED
  BY <1>5, <1>6

(* A run that is through with its messages has said all it found, or some  *)
(* were refused.                                                           *)
LEMMA AnnouncedIs ==
  ASSUME ProgressInv, PostInv, NEW r \in Runs, Announced(r)
  PROVE  Announcing!Close(r) \/ Announcing!Fail(r)
<1>1. /\ OthersStay(r) /\ UNCHANGED <<channel, rejected>> /\ pc[r] = "post" /\ toPost[r] = {}
      /\ options'[r] = options[r]
  BY DEF Announced, Record, Goto, OthersStay, ProgressInv, Types, TypeOK
<1>2. Verdict(r) = "open" /\ MayPost(r)' = MayPost(r)
  BY <1>1 DEF Verdict, MayPost
<1>3. CASE rejected[r] # {}
  <2>1. Verdict(r)' = "bad" /\ results' = results
    BY <1>3 DEF Announced, Goto, Verdict, ProgressInv, Types, TypeOK
  <2>2. Finds(r)' = Finds(r)
    BY <2>1 DEF Finds, HasCandidates, is_empty
  <2>. QED
    BY <1>1, <1>2, <2>1, <2>2, EndIs
<1>4. CASE rejected[r] = {}
  <2>1. /\ results'[r] = Extend(results[r], stage(r), Produced({}))
        /\ pc'[r] = "done"
    BY <1>4 DEF Announced, Record, Goto, ProgressInv, Types, TypeOK
  <2>2. Produced({}) \in StageResult /\ Produced({}).frame = {}
    BY DEF Produced, StageResult
  <2>3. Finds(r)' = Finds(r)
    BY <1>1, <2>1, <2>2, FindsTook
  <2>4. Verdict(r)' = "good"
    BY <2>1 DEF Verdict
  <2>5. ASSUME MayPost(r), NEW f \in DOMAIN Finds(r)
        PROVE  f \in SaidBy(r)
    <3>1. f \in FilterNames /\ HasCandidates(r, f)
      BY DEF Finds
    <3>2. Message(r, f) \in Posted
      BY <1>1, <1>4, <2>5, <3>1 DEF PostInv, Collected
    <3>3. PICK i \in DOMAIN channel : channel[i] = Message(r, f)
      BY <3>2 DEF Posted, ToSet
    <3>. QED
      BY <3>1, <3>3 DEF SaidBy, Message
  <2>. QED
    BY <1>1, <1>2, <1>4, <2>3, <2>4, <2>5, EndIs
<1>. QED
  BY <1>3, <1>4

LEMMA AnnouncerStep ==
  ASSUME ProgressInv, PostInv, OnceInv, [Next]_vars
  PROVE  Announcing!Next \/ UNCHANGED Announcing!announcerVars
<1>1. ASSUME NEW r \in Runs, NEW from \in Starts, NEW rows \in SUBSET Alerts, Start(r, from, rows)
      PROVE  Announcing!Next
  BY <1>1, StartBegins DEF Announcing!Next
<1>2. ASSUME NEW r \in Runs, Skip(r)
      PROVE  Announcing!Next \/ UNCHANGED Announcing!announcerVars
  BY <1>2, SkipIs DEF Announcing!Next
<1>3. ASSUME NEW r \in Runs, NEW rows \in SUBSET Alerts, RunStage(r, rows)
      PROVE  Announcing!Next \/ UNCHANGED Announcing!announcerVars
  BY <1>3, RunStageIs DEF Announcing!Next
<1>4. ASSUME NEW r \in Runs, MissingResult(r) \/ Raise(r)
      PROVE  Announcing!Next
  BY <1>4, FailIs DEF Announcing!Next
<1>5. ASSUME NEW r \in Runs, Collect(r)
      PROVE  UNCHANGED Announcing!announcerVars
  BY <1>5, CollectIs
<1>6. ASSUME NEW r \in Runs, Post(r) \/ PostFails(r)
      PROVE  Announcing!Next \/ UNCHANGED Announcing!announcerVars
  BY <1>6, PostIs DEF Announcing!Next
<1>7. ASSUME NEW r \in Runs, Announced(r)
      PROVE  Announcing!Next
  BY <1>7, AnnouncedIs DEF Announcing!Next
<1>8. CASE Tick \/ UNCHANGED vars
  <2>1. UNCHANGED <<pc, options, results, channel, rejected>>
    BY <1>8 DEF Tick, vars, runVars
  <2>2. \A q \in Runs : Verdict(q)' = Verdict(q) /\ MayPost(q)' = MayPost(q) /\ Finds(q)' = Finds(q)
    BY <2>1 DEF Verdict, MayPost, Finds, HasCandidates, is_empty
  <2>. QED
    BY <2>1, <2>2, MappedStays
<1>. QED
  BY <1>1, <1>2, <1>3, <1>4, <1>5, <1>6, <1>7, <1>8 DEF Next, Step

LEMMA AnnouncerInit == Init => Announcing!Init
<1>. SUFFICES ASSUME Init PROVE Announcing!Init
  OBVIOUS
<1>1. \A r \in Runs : Verdict(r) = "idle" /\ MayPost(r) = FALSE
  BY DEF Init, Verdict, MayPost
<1>2. ASSUME NEW r \in Runs PROVE Finds(r) = <<>>
  <2>1. DOMAIN results[r] = {}
    BY DEF Init
  <2>. QED
    BY <2>1 DEF Finds
<1>. QED
  BY <1>1, <1>2 DEF Init, Announcing!Init

(* slack_publish.py:445, :421: a run keeps the promise of Announcer: what  *)
(* it finds is announced at most once, as it was found, after all filters  *)
(* have had their turn, and a run that may announce passes for a success   *)
(* only when all it found has been announced.                              *)
THEOREM PipelineImplementsAnnouncer == Spec => ImplementsAnnouncer
<1>1. ProgressInv /\ PostInv /\ OnceInv /\ [Next]_vars
        => [Announcing!Next]_(Announcing!announcerVars)
  BY AnnouncerStep
<1>. QED
  BY <1>1, AnnouncerInit, ProgressInvariant, PostInvariant, OnceInvariant, PTL
     DEF Spec, ImplementsAnnouncer, Announcing!Spec

(* No two messages are of one filter of one run.                           *)
AnnouncedOnce ==
  \A i, j \in DOMAIN channel :
    channel[i].run = channel[j].run /\ channel[i].filter = channel[j].filter => i = j

LEMMA AnnouncedOnceStep ==
  ASSUME ProgressInv, OnceInv, AnnouncedOnce, [Next]_vars
  PROVE  AnnouncedOnce'
<1>1. CASE channel' = channel
  BY <1>1 DEF AnnouncedOnce
<1>2. ASSUME NEW r \in Runs, NEW f \in toPost[r], pc[r] = "post",
             channel' = Append(channel, Message(r, f))
      PROVE  AnnouncedOnce'
  <2>1. channel \in Seq([run : Runs, filter : FilterNames, rows : SUBSET Alerts])
    BY DEF ProgressInv, Types, TypeOK
  <2>2. f \in FilterNames /\ f \notin SaidBy(r)
    BY DEF OnceInv, Untried, ProgressInv, Types, TypeOK
  <2>3. \A i \in DOMAIN channel : ~(channel[i].run = r /\ channel[i].filter = f)
    BY <2>2 DEF SaidBy
  <2>4. Message(r, f).run = r /\ Message(r, f).filter = f
    BY DEF Message
  <2>5. /\ DOMAIN channel' = DOMAIN channel \cup {Len(channel) + 1}
        /\ channel'[Len(channel) + 1] = Message(r, f)
        /\ \A i \in DOMAIN channel : channel'[i] = channel[i]
    <3>1. Message(r, f) \in [run : Runs, filter : FilterNames, rows : SUBSET Alerts]
      BY <1>2, MessageType
    <3>. QED
      BY <1>2, <2>1, <3>1
  <2>. QED
    BY <2>3, <2>4, <2>5 DEF AnnouncedOnce
<1>3. \/ channel' = channel
      \/ \E r \in Runs : \E f \in toPost[r] :
           pc[r] = "post" /\ channel' = Append(channel, Message(r, f))
  BY ChannelStep
<1>. QED
  BY <1>1, <1>2, <1>3

(* slack_publish.py:445: a message that failed is not sent again: whatever *)
(* is refused, and whether or not it had arrived, no filter of a run is    *)
(* announced twice.                                                        *)
THEOREM PipelineAnnouncesOnce == Spec => []AnnouncedOnce
<1>1. Init => AnnouncedOnce
  BY DEF Init, AnnouncedOnce
<1>2. ProgressInv /\ OnceInv /\ AnnouncedOnce /\ [Next]_vars => AnnouncedOnce'
  BY AnnouncedOnceStep
<1>. QED
  BY <1>1, <1>2, ProgressInvariant, OnceInvariant, PTL DEF Spec
=============================================================================
