------------------------------ MODULE Pipeline ------------------------------
(***************************************************************************)
(* A run of the pipeline: src/desi_aap/pipeline.py with the stages it      *)
(* drives and cli.py, which starts it.  A stage is one step that takes a   *)
(* frame, a set of alerts, and keeps some of it; slack_publish, the last   *)
(* stage, is a step per message.  Runs of different schedules overlap and  *)
(* share the output directory and the Slack channel.                       *)
(***************************************************************************)
EXTENDS Integers, Sequences, FiniteSets, SequencesExt

CONSTANTS Runs,     \* invocations of the command line
          Alerts,   \* the alerts BOOM may return
          Filters,  \* the filter stages, the code filters first
          Disabled, \* per run, the filters its config switches off
          Starts,   \* the stages --from-stage may name, and None
          DryRuns,  \* the values --dry-run may have
          Channels, \* whether a [slack] section may be there
          MaxClock, \* bound: seconds that pass
          Faults, MaxFaults, \* which faults may happen, and how many
          None

DATA_STAGES == <<"query", "crossmatch", "distance">>

FilterNames == ToSet(Filters)

(* The filters that are modules; every other one is a JSON file of cuts.   *)
CodeFilters == {"localize"}

stages_for == DATA_STAGES \o Filters \o <<"slack_publish">>

Stages == ToSet(DATA_STAGES) \cup FilterNames \cup {"slack_publish"}

ASSUME PipelineAssumption ==
  /\ Filters \in Seq(STRING) /\ Filters # <<>>
  /\ IsInjective(stages_for)
  /\ Disabled \in [Runs -> SUBSET FilterNames]
  /\ Starts \subseteq (Stages \ {"query"}) \cup {None}
  /\ DryRuns \subseteq BOOLEAN /\ Channels \subseteq BOOLEAN
  /\ MaxClock \in Nat /\ MaxFaults \in Nat
  /\ Faults \subseteq {"raise", "slack"}

requires(s) ==
  CASE s = "query"         -> {}
    [] s = "crossmatch"    -> {"query"}
    [] s = "distance"      -> {"crossmatch"}
    [] s = "slack_publish" -> FilterNames
    [] OTHER               -> {"distance"}

(* A stage result: the rows it produced, none if it was skipped.           *)
StageResult == [frame : SUBSET Alerts, skipped : {"no", "disabled", "no input", "no stand-in"}]

Skipped(why) == [frame |-> {}, skipped |-> why]

(* Mutant: a result comes without its summary.                             *)
ProducedWithoutSummary(rows) == [frame |-> rows]

Produced(rows) == [frame |-> rows, skipped |-> "no"]

VARIABLES
  clock,    \* the second it is
  output,   \* the parquet files: who wrote last, by stage and stamp
  channel,  \* the messages on Slack, in order
  pc,       \* per run, what it does next
  at,       \* per run, the place of the stage it is at
  stamp,    \* per run, the second it started in
  options,  \* per run, whether it is dry and whether Slack is configured
  results,  \* per run, the results recorded so far, by stage
  toPost,   \* per run, the filters that slack_publish has yet to post
  rejected, \* per run, the filters whose message could not be posted
  faults

runVars == <<pc, at, stamp, options, results, toPost, rejected>>
vars == <<clock, output, channel, runVars, faults>>

Init ==
  /\ clock = 0 /\ output = <<>> /\ channel = <<>>
  /\ pc = [r \in Runs |-> "idle"] /\ at = [r \in Runs |-> 1]
  /\ stamp = [r \in Runs |-> 0]
  /\ options = [r \in Runs |-> [dry |-> FALSE, slack |-> FALSE]]
  /\ results = [r \in Runs |-> <<>>]
  /\ toPost = [r \in Runs |-> {}] /\ rejected = [r \in Runs |-> {}]
  /\ faults = 0

Fault(kind) == kind \in Faults /\ faults < MaxFaults /\ faults' = faults + 1

Goto(r, place) == pc' = [pc EXCEPT ![r] = place]

stage(r) == stages_for[at[r]]

Extend(f, x, y) == [z \in DOMAIN f \cup {x} |-> IF z = x THEN y ELSE f[z]]

Tick ==
  /\ clock < MaxClock /\ clock' = clock + 1
  /\ UNCHANGED <<output, channel, runVars, faults>>

-----------------------------------------------------------------------------
(* The command line.                                                       *)

(* Mutant: the input stands in for every required stage.                   *)
StandInsForAll(from, rows) == [s \in requires(from) |-> Produced(rows)]

(* The rows of --input stand in for the first of the stages that the       *)
(* starting stage requires; the rest are recorded as not run.              *)
StandIns(from, rows) ==
  LET first == IF from = "slack_publish" THEN Filters[1]
               ELSE CHOOSE s \in requires(from) : TRUE
  IN [s \in requires(from) |-> IF s = first THEN Produced(rows) ELSE Skipped("no stand-in")]

Start(r, from, rows) ==
  /\ pc[r] = "idle"
  /\ \E dry \in DryRuns, slack \in Channels :
       options' = [options EXCEPT ![r] = [dry |-> dry, slack |-> slack]]
  /\ stamp' = [stamp EXCEPT ![r] = clock]
  /\ \/ /\ from = None /\ rows = {}
        /\ UNCHANGED <<at, results>>
     \/ /\ from # None
        /\ at' = [at EXCEPT ![r] = CHOOSE i \in DOMAIN stages_for : stages_for[i] = from]
        /\ results' = [results EXCEPT ![r] = StandIns(from, rows)]
  /\ Goto(r, "stage")
  /\ UNCHANGED <<clock, output, channel, toPost, rejected, faults>>

-----------------------------------------------------------------------------
(* run_pipeline.                                                           *)

is_empty(result) == result.frame = {}

(* Mutant: every required stage must have found something.                 *)
has_all_input(r) ==
  \A s \in requires(stage(r)) \cap DOMAIN results[r] : ~is_empty(results[r][s])

(* A required stage without any result is not an empty one.                *)
has_input(r) ==
  LET known == requires(stage(r)) \cap DOMAIN results[r]
  IN known = {} \/ \E s \in known : ~is_empty(results[r][s])

enabled(r) == stage(r) \notin Disabled[r]

(* Mutant: a stage drops rows from the very frame it was given.            *)
RecordInPlace(r, result) ==
  /\ results' = [results EXCEPT ![r] =
       Extend([s \in DOMAIN @ |-> IF s \in requires(stage(r)) THEN Produced(result.frame)
                                                              ELSE @[s]], stage(r), result)]
  /\ at' = [at EXCEPT ![r] = @ + 1]

Record(r, result) ==
  /\ results' = [results EXCEPT ![r] = Extend(@, stage(r), result)]
  /\ at' = [at EXCEPT ![r] = @ + 1]

(* slack_publish is the last stage: skipping it ends the run.              *)
Skip(r) ==
  /\ pc[r] = "stage"
  /\ \/ ~enabled(r) /\ Record(r, Skipped("disabled"))
     \/ enabled(r) /\ ~has_input(r) /\ Record(r, Skipped("no input"))
  /\ Goto(r, IF stage(r) = "slack_publish" THEN "done" ELSE "stage")
  /\ UNCHANGED <<clock, output, channel, stamp, options, toPost, rejected, faults>>

(* What a data stage or a filter takes: what its one upstream produced.    *)
Input(r) == results[r][CHOOSE s \in requires(stage(r)) : TRUE].frame

(* An empty frame, and a dry run, write no file.                           *)
WriteFrame(r, rows) ==
  output' = IF options[r].dry \/ rows = {} THEN output
            ELSE Extend(output, <<stage(r), stamp[r]>>, [run |-> r, frame |-> rows])

Ready(r, names) ==
  /\ pc[r] = "stage" /\ stage(r) \in names
  /\ enabled(r) /\ has_input(r)

Ran(r, rows) ==
  /\ WriteFrame(r, rows)
  /\ Record(r, Produced(rows))
  /\ UNCHANGED <<clock, channel, pc, stamp, options, toPost, rejected, faults>>

(* Whatever of the alerts BOOM returns for the window.                     *)
RunQuery(r, rows) == Ready(r, {"query"}) /\ rows \subseteq Alerts /\ Ran(r, rows)

(* The alerts that have a match in one of the catalogs.                    *)
RunCrossmatch(r, rows) == Ready(r, {"crossmatch"}) /\ rows \subseteq Input(r) /\ Ran(r, rows)

(* The alerts that have a host with a usable redshift.                     *)
RunDistance(r, rows) == Ready(r, {"distance"}) /\ rows \subseteq Input(r) /\ Ran(r, rows)

(* The alerts inside the credible volume of a superevent of the time.      *)
RunLocalize(r, rows) == Ready(r, CodeFilters) /\ rows \subseteq Input(r) /\ Ran(r, rows)

(* The alerts that pass every cut of the filter.                           *)
RunCutFilter(r, rows) ==
  Ready(r, FilterNames \ CodeFilters) /\ rows \subseteq Input(r) /\ Ran(r, rows)

RunStage(r, rows) ==
  \/ RunQuery(r, rows) \/ RunCrossmatch(r, rows) \/ RunDistance(r, rows)
  \/ RunLocalize(r, rows) \/ RunCutFilter(r, rows)

(* Nothing in run_pipeline catches what a stage raises.                    *)
Raise(r) ==
  /\ Fault("raise") /\ pc[r] \in {"stage", "post"}
  /\ Goto(r, "failed")
  /\ UNCHANGED <<clock, output, channel, at, stamp, options, results, toPost, rejected>>

-----------------------------------------------------------------------------
(* run_slack_publish.                                                      *)

(* KeyError: a filter has no entry at all.                                 *)
MissingResult(r) ==
  /\ pc[r] = "stage" /\ stage(r) = "slack_publish" /\ has_input(r)
  /\ ~ FilterNames \subseteq DOMAIN results[r]
  /\ Goto(r, "failed")
  /\ UNCHANGED <<clock, output, channel, at, stamp, options, results, toPost, rejected, faults>>

HasCandidates(r, f) == results[r][f].skipped = "no" /\ ~is_empty(results[r][f])

Collect(r) ==
  /\ pc[r] = "stage" /\ stage(r) = "slack_publish" /\ has_input(r)
  /\ FilterNames \subseteq DOMAIN results[r]
  /\ toPost' = [toPost EXCEPT ![r] =
       IF options[r].slack THEN {f \in FilterNames : HasCandidates(r, f)} ELSE {}]
  /\ Goto(r, "post")
  /\ UNCHANGED <<clock, output, channel, at, stamp, options, results, rejected, faults>>

Message(r, f) == [run |-> r, filter |-> f, rows |-> results[r][f].frame]

(* The filters are posted in the order they run in.                        *)
IsNextToPost(r, f) ==
  \E i \in DOMAIN Filters :
    f = Filters[i] /\ \A j \in 1 .. i - 1 : Filters[j] \notin toPost[r]

(* A dry run logs the message instead.                                     *)
Post(r) ==
  /\ pc[r] = "post"
  /\ \E f \in toPost[r] :
       /\ IsNextToPost(r, f)
       /\ channel' = IF options[r].dry THEN channel ELSE Append(channel, Message(r, f))
       /\ toPost' = [toPost EXCEPT ![r] = @ \ {f}]
  /\ UNCHANGED <<clock, output, pc, at, stamp, options, results, rejected, faults>>

(* Mutant: a message that failed is sent again.                            *)
PostFailsAndRetries(r) ==
  /\ pc[r] = "post" /\ ~options[r].dry /\ Fault("slack")
  /\ \E f \in toPost[r] :
       /\ IsNextToPost(r, f)
       /\ channel' \in {channel, Append(channel, Message(r, f))}
  /\ UNCHANGED <<clock, output, pc, at, stamp, options, results, toPost, rejected>>

(* Mutant: the first message that is refused ends the loop.                *)
PostFailsForAll(r) ==
  /\ pc[r] = "post" /\ ~options[r].dry /\ Fault("slack")
  /\ \E f \in toPost[r] :
       IsNextToPost(r, f) /\ rejected' = [rejected EXCEPT ![r] = @ \cup {f}]
  /\ toPost' = [toPost EXCEPT ![r] = {}]
  /\ UNCHANGED <<clock, output, channel, pc, at, stamp, options, results>>

(* Slack refuses the message, or the connection fails, perhaps after Slack *)
(* has taken it; the next one is tried.                                    *)
PostFails(r) ==
  /\ pc[r] = "post" /\ ~options[r].dry /\ Fault("slack")
  /\ \E f \in toPost[r] :
       /\ IsNextToPost(r, f)
       /\ channel' \in {channel, Append(channel, Message(r, f))}
       /\ rejected' = [rejected EXCEPT ![r] = @ \cup {f}]
       /\ toPost' = [toPost EXCEPT ![r] = @ \ {f}]
  /\ UNCHANGED <<clock, output, pc, at, stamp, options, results>>

Announced(r) ==
  /\ pc[r] = "post" /\ toPost[r] = {}
  /\ \/ /\ rejected[r] = {}
        /\ Record(r, Produced({})) /\ Goto(r, "done")
     \/ /\ rejected[r] # {}
        /\ UNCHANGED <<results, at>> /\ Goto(r, "failed")
  /\ UNCHANGED <<clock, output, channel, stamp, options, toPost, rejected, faults>>

-----------------------------------------------------------------------------
Step(r) ==
  \/ Skip(r) \/ (\E rows \in SUBSET Alerts : RunStage(r, rows))
  \/ MissingResult(r) \/ Collect(r) \/ Post(r) \/ Announced(r)

Next ==
  \/ Tick
  \/ \E r \in Runs :
       \/ \E from \in Starts, rows \in SUBSET Alerts : Start(r, from, rows)
       \/ Step(r) \/ Raise(r) \/ PostFails(r)

Spec == Init /\ [][Next]_vars

-----------------------------------------------------------------------------
(* Properties.                                                             *)

(* Every variable has the type its declaration describes.                  *)
TypeOK ==
  /\ clock \in Nat /\ faults \in Nat
  /\ DOMAIN output \subseteq Stages \X Nat
  /\ \A k \in DOMAIN output : output[k] \in [run : Runs, frame : SUBSET Alerts]
  /\ channel \in Seq([run : Runs, filter : FilterNames, rows : SUBSET Alerts])
  /\ pc \in [Runs -> {"idle", "stage", "post", "done", "failed"}]
  /\ at \in [Runs -> 1 .. Len(stages_for) + 1] /\ stamp \in [Runs -> Nat]
  /\ options \in [Runs -> [dry : BOOLEAN, slack : BOOLEAN]]
  /\ \A r \in Runs : /\ DOMAIN results[r] \subseteq Stages
                     /\ \A s \in DOMAIN results[r] : results[r][s] \in StageResult
  /\ toPost \in [Runs -> SUBSET FilterNames]
  /\ rejected \in [Runs -> SUBSET FilterNames]

Posted == ToSet(channel)

MayPost(r) == options[r].slack /\ ~options[r].dry

(* pipeline.py:13 and slack_publish.py:421: what one filter finds, fails   *)
(* to find or fails to post does not silence the others, and a partial     *)
(* post is never a success: when a run that may post is done, every filter *)
(* that found something has been announced, with just what it found, and   *)
(* when it is about to give up over messages that were rejected, every     *)
(* other filter has been.                                                  *)
SiblingsReport ==
  \A r \in Runs : MayPost(r) =>
    /\ pc[r] = "done" =>
         \A f \in FilterNames \cap DOMAIN results[r] :
           HasCandidates(r, f) => Message(r, f) \in Posted
    /\ pc[r] = "post" /\ toPost[r] = {} =>
         \A f \in FilterNames :
           HasCandidates(r, f) => Message(r, f) \in Posted \/ f \in rejected[r]

(* cli.py:107: nothing is announced by a dry run, nor under the name of a  *)
(* filter whose cuts never ran on it: a message of a run is the result of  *)
(* that run for that filter, cut from the alerts the run placed, or is the *)
(* stand-in for the first filter.                                          *)
AnnouncedWasFound ==
  \A m \in Posted :
    /\ ~options[m.run].dry
    /\ m.filter \in DOMAIN results[m.run] /\ HasCandidates(m.run, m.filter)
    /\ m.rows = results[m.run][m.filter].frame
    /\ \/ /\ "distance" \in DOMAIN results[m.run] /\ m.filter \notin Disabled[m.run]
          /\ m.rows \subseteq results[m.run]["distance"].frame
       \/ "distance" \notin DOMAIN results[m.run] /\ m.filter = Filters[1]

(* A stage is skipped for want of input only when everything it requires   *)
(* is on record as empty, so an enabled filter is asked of every run that  *)
(* placed an alert, whatever the filters before it found.                  *)
SkippedForCause ==
  \A r \in Runs : \A s \in DOMAIN results[r] :
    /\ results[r][s].skipped = "no input" =>
         /\ requires(s) # {} /\ requires(s) \cap DOMAIN results[r] # {}
         /\ \A q \in requires(s) \cap DOMAIN results[r] : is_empty(results[r][q])
    /\ s \in FilterNames \ Disabled[r] /\ "distance" \in DOMAIN results[r]
         /\ ~is_empty(results[r]["distance"]) => results[r][s].skipped = "no"

(* Stages read each other's frames after the fact: what is on record for a *)
(* stage, run or stood in for, is not replaced while the run goes on.      *)
ResultsAreFinal ==
  [][\A r \in Runs : pc[r] # "idle" =>
       \A s \in DOMAIN results[r] : s \in DOMAIN results'[r] /\ results'[r][s] = results[r][s]]_vars

(* What the filters of a run found.                                        *)
Finds(r) ==
  [f \in {g \in FilterNames \cap DOMAIN results[r] : HasCandidates(r, g)} |-> results[r][f].frame]

Verdict(r) ==
  CASE pc[r] = "idle" -> "idle"
    [] pc[r] \in {"stage", "post"} -> "open"
    [] pc[r] = "done" -> "good"
    [] pc[r] = "failed" -> "bad"

Announcing == INSTANCE Announcer WITH
  verdict <- [r \in Runs |-> Verdict(r)],
  willing <- [r \in Runs |-> MayPost(r)],
  finds <- [r \in Runs |-> Finds(r)],
  said <- channel, refused <- rejected

(* A run keeps the promise of Announcer: it announces what its filters     *)
(* found, each find at most once though messages fail, and nothing before  *)
(* every filter has had its turn; and it passes for a success only if all  *)
(* of it was said.                                                         *)
ImplementsAnnouncer == Announcing!Spec

(* slack_publish.py:372: every run records a result for every filter.      *)
(* Here: every run in which slack_publish is about to read them.           *)
EveryFilterRecorded ==
  \A r \in Runs : Ready(r, {"slack_publish"}) => FilterNames \subseteq DOMAIN results[r]

(* README.md:254: the timestamp taken when a run starts names all its      *)
(* files, so they group together.  Here: when a run is done, each frame of *)
(* rows that its stages produced is in the file that bears its stamp.      *)
FilesGroupTogether ==
  \A r \in Runs : pc[r] = "done" /\ ~options[r].dry =>
    \A s \in DOMAIN results[r] : ~is_empty(results[r][s]) =>
      <<s, stamp[r]>> \in DOMAIN output /\ output[<<s, stamp[r]>>].run = r
=============================================================================
