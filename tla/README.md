# A formal model of the DESI alert augmentation pipeline

This directory holds TLA+ specifications of the stateful parts of `desi_aap`,
TLC configurations that check them on small instances, and TLAPS proofs of
all their safety properties for every value of the constants. Source paths
below are relative to `src/desi_aap/` in the repository.

## The system

Two programs share a package and, on a machine, a disk.

**The GCN listener** (`scripts/listen_gcn.py`, `gcn_listener.py`) is a
long-lived Kafka consumer. It takes a batch of messages, parses each body
(`gcn_notices.py`), stores it with its sky maps (`gcn_store.py`,
`gcn_skymaps.py`), quarantines what fails, and commits the offset of each
message after it was dealt with. One listener process writes one store; any
number of readers may poll the store's files.

**The pipeline** (`cli.py`, `pipeline.py`, `stages/`) is started by cron. A run
queries BOOM for alerts, cross-matches them with DESI, places them at their
host's distance, lets every filter take its cut (`localize` is a module, the
others are JSON files), and announces what each filter found on Slack.
`localize` scans GraceDB (`gracedb_tools.py`) through a cache on disk
(`gracedb_cache.py`). Runs of different schedules may overlap; they share the
cache and the output directory, without locks.

### Components, their state and operations

| Component | State it keeps | Operations | What makes it correct |
|---|---|---|---|
| notice parsing | none | `parse_notice` and its four parsers | a body yields one record or raises; a retraction is recognized however it is spelled; one unusable field or object costs no other its map |
| notice store | `notices/`, `skymaps/`, `history.jsonl`, `latest.json`, `latest.fits` per event; `index.jsonl`, `_quarantine/` | `store_notice`, `update_latest_pointer`, `quarantine_payload`; readers | recorded files are complete; a notice is stored once; what is shown of an event is the best notice of its history and never goes back |
| map writer | files under `skymaps/` | `resolve_skymap` | a map that is recorded is complete |
| listener | fetch position, batch in hand, committed offsets (at the broker), stop event, empty-batch count | `process_batch`, `run_listener`, signal handlers | no message below the committed offset is lost; no message stalls the stream; it stops when asked or drained |
| GraceDB cache | `entries/*.json`, `skymaps/*` | `read_entry`, `status`, `write_entry`, `download_gracedb_file` | an entry describes the listing it was made for and the file that is there |
| GraceDB scan | the rows of a scan | `fetch_gracedb_superevents` | one superevent's failure is its own; the rows lead to current skymaps |
| pipeline runner | the results of a run; output parquet files | `run_pipeline`, `_has_input` | a stage is skipped only for want of input; results are final |
| command line | none | `run`, `--from-stage` stand-ins | only what was found is announced |
| Slack announcement | the channel | `run_slack_publish` | one filter's failure does not silence the others or pass for success |
| stages | none besides their output | `run_query`, `run_crossmatch`, `run_distance`, `run_localize`, `run_cut_filter` | each keeps some of its input's rows |
| query stage, BOOM client, configuration | none; the window of a run | `run_query`, `query_alerts`, `load_config` | nothing falls between the windows of two runs; what a limit loses can be told |
| logging, plots, TNS, cosmology, Dask | none | | not modelled, see below |

### How they interact

* The listener calls the store synchronously; the store calls the map writer.
  The disk is what remains after a crash, the broker's committed offset is what
  decides which messages come again.
* Store readers see the disk between any two writes.
* A run hands each stage the results of those before it, by name, in memory.
* Runs interact through the cache files, the output files and the channel, and,
  without knowing of each other, through the windows they ask BOOM for.

### The behaviours that are hard

Crashes and exceptions between the writes of one `store_notice` call, which is
made of five kinds of file; at-least-once delivery over a store that skips what
it knows; rebalances and lost commits in the middle of a batch; notices that
arrive out of order; appends torn by a full disk; a cache whose freshness is
inferred from a listing that changes while it is read; two runs on one cache;
a failed download after its revision was noted; a stage or a message failing
among several; runs that are late, missed or failed on a schedule whose windows
trail the clock; bodies of which a part is garbled. `PROJECT.json` lists these
hazards at their lines, with the
properties that cover them.

## The modules

| Module | Models | Extends |
|---|---|---|
| `GcnNotices` | what a parsed notice is, as far as the store tells notices apart; `entry_sort_key` | |
| `GcnStore` | `gcn_store.py`, `gcn_skymaps.resolve_skymap` | `GcnNotices` |
| `GcnParsing` | `parse_notice`: from a body to the notice that is filed, and what of a body must reach the disk | `GcnStore` |
| `NoticeArchive` | what store and listener promise together, without lines, batches or offsets | `GcnNotices` |
| `GcnListener` | `gcn_listener.py` over the store, with the broker | `GcnStore`, instance of `NoticeArchive` |
| `GraceDbCache` | `gracedb_cache.py` and the loop body of `fetch_gracedb_superevents`, with GraceDB | |
| `AlertQuery` | the runs of a schedule: `config.load_config`, `stages/query.py`, `boom.py`, with cron and BOOM | |
| `Pipeline` | `pipeline.py`, `cli.py` (`run`), `stages/` | instance of `Announcer` |
| `Announcer` | what a run promises to the readers of its channel, without stages, frames or files | |
| `Candidates` | the rows each stage keeps: `stages/crossmatch.py`, `distance.py`, `localize.py`, `cut_filter.py`, and the matching of `gracedb_tools.py` | |
| `GcnListenerProofs`, `GcnParsingProofs`, `GraceDbCacheProofs`, `AlertQueryProofs`, `PipelineProofs`, `CandidatesProofs` | proofs about the module each is named for | that module, `TLAPS` |
| `GcnStoreProofs`, `GcnStoreShownProofs` | proofs about `GcnStore`: of its files, and of what a reader is shown; those of the listener rest on them, and those of parsing on all three | `GcnStore`, `TLAPS` |
| `MC...` | constants for TLC | |

`PROJECT.json` maps every definition to the lines it stands for. Definitions
whose comment begins with "Mutant:" are not part of a specification: each is
what a plausible bug would make of the definition below it, and is there to
show that a property would notice.

### GcnStore

`pc` is the place in `store_notice` where the process is, `cur` the notice in
hand; each write to the disk is one action:

    dedupe -> WriteNotice -> resolve -> OpenSkymap -> WriteSkymap -> ... resolve
           -> AppendHistory -> AppendIndex -> WriteLatest -> Unlink -> Link -> handled

`OpenSkymap` and `WriteSkymap` are apart because maps are written in place: in
between the file is torn. `Raise` is the broad `except` of `process_batch`, on a
call that had no effect yet; `TearAppend` an append that raises after part of
its line was written; `QuarantineFails` an exception out of the handler itself;
`Crash` the death of the process. What is forgotten is what the process holds
in memory, `pc`, `cur`, `skymaps`, `place` and `target`.

Abstractions:

* A notice is the identity of its body and topic, so equal notices are equal
  digests. Two bodies never share a digest.
* The last two parts of the ranking key, arrival time and sequence number, are
  the place in the history: the clock does not step back between two notices of
  one event. Under ties `max()` would otherwise take the first.
* `fragments` holds the files that end in part of a line. Part of a JSON object
  never parses, and joined to the next line it never does either.
* An append by a process that is *killed* is there or not; one that *raises*
  may be torn. `write_atomic_bytes` is atomic, and temporary files that a crash
  leaves behind are not modelled: nobody reads them.
* A map file is named as the code names it, by notice, label and suffix
  (`MapFile`). Of its content the model keeps which object of the body it was
  made for, and of `skymap_files` the complete ones. Two localizations of one
  notice with equal labels share a file: the second truncates the first's and
  writes its own into it, while the entry lists the path for both.
* A region whose containment probability is not strictly between 0 and 1 raises
  in `synthesize_moc_table`. That is no fault but what the code does with such a
  notice: `RefuseRegion` sets the whole of it aside, on every delivery.

### GcnParsing

`GcnStore` goes by `NoticeInfo`, any assignment of records to notices, and so do
its proofs. `GcnParsing` computes it: `Body` gives each notice a topic and a
payload, a record that has just the fields the JSON object has, and
`parse_notice` is the dispatch, the four parsers and the helpers they share
(`localization_fields` lays the nested fields over the flat ones, as the code
does with `{**obj, **nested}`). Of a value the model keeps what a parser looks
at: whether a map decodes, whether a position is complete, whether an error
radius is positive, whether a containment probability can be used. `related_ids`
is only copied and left out; the polymorphic spellings of identifiers and error
regions are the sequence, and the radius, that the helpers make of them; an
alert type is a word in the missions' own spelling, without stray blanks.
Identifiers that `safe_file_part` turns into the same part of a file name are
one identifier here. `LabelOf` gives each entry of an array the label its maps
are named by. `RetractionWithdraws` and `NoRegionLost` relate a body to what is
on disk many steps later, through parsing, ranking, resolving and recording.
What `NoRegionLost` says of an entry is `RegionsKept`: each object that carried
a map, or quoted a region, has a map of its own listed, and under the path is
its region, or that of an object of the same label. That is as far as a label
keeps localizations apart in file names; where two are equal and so are the
suffixes, the code keeps the second's region alone.

### GcnListener

Partitions are append-only logs. `fetch` is the consumer's position, `next` and
`end` delimit what is left of the batch in hand, `committed` is the broker's.
`Take` hands one message to the store, whose steps then run; `Commit` or
`CommitLost` follow. `Rebalance` sets the position back while the batch stays,
which is how librdkafka hands out buffered messages. The listener's `Next` is
the composition: a store step leaves the listener's variables alone and the
other way round, except that `Take` and `Commit` do a step of each.

There is one listener process per group. Expiry of messages at the broker and
`--from-latest` on the very first start are not modelled: both lose messages by
design. A batch interleaves its partitions in any way, in order within each.

### GraceDbCache

The superevents of a scan share nothing, so one stands for all. GraceDB is its
mutable listing fields, the pipeline of its preferred event, and a file listing
that gives every skymap and p_astro file its latest revision; all of them move
at any time. A run is a record `run[r]` of where it is and its local variables.
The listing, the p_astro download and the skymap download are separate requests,
each answered with what GraceDB has *then*, since the code asks for unversioned
names. Which file a scan goes for is `choose_skymap_file`, by the ranking table,
and `choose_pastro_file`, by the pipeline. `skymap` gives each local file the
revision of its bytes, 0 when it is not there.

`disturbed` says that a fault has left a scan unfinished or taken its entry
away. It is a history variable: no action reads it, and the properties that hold
only of scans which nothing disturbed are stated with it.

### AlertQuery

Cron starts a run at its tick or misses it; the run loads its layered
configuration and settles its window (`Resolve`, or `BadConfig` when either
raises), asks for a token, posts the filter pipeline, and reads the answer,
whatever its shape. Time is a clock of whole units; a run may settle its window
up to `MaxDrift` after its tick. BOOM takes an alert in at any time after its
exposure and answers with any newest `limit` alerts of the window. Retries are
not in the code: a request that fails or times out ends the run.

Not followed: the conversion of records to a nested frame, `parse_timedelta`,
the spellings of a time, and `boom.py`'s own command line.

### Pipeline

A run is at a place in `stages_for`; each stage runner is an action that keeps
some rows of its input, writes a file unless it is a dry run or there are no
rows, and records its result. `Skip` is the two `continue`s of the loop. `Raise`
is an exception out of any stage. `slack_publish` is a step for collecting and
one per message. `Start` is the command line, with the stand-ins it makes from
`--input`. The channel is the sequence of its messages, so that one which Slack
took before the connection dropped (`PostFails`) and one that is sent again can
be told apart.
The `KeyError` of `input_result` cannot be reached from the command line, which
stands in for every requirement of the starting stage.

`Announcer` is what the channel's readers may go by. A run is idle, open, or has
ended well or badly (`verdict`); it may announce or may not (`willing`: Slack is
configured and the run is not dry); its filters find rows or do not (`finds`);
it says what was found (`said`), and where that fails it does not try again
(`refused`), although the message may have arrived. `Find` needs that nothing
has been said or refused yet, `Announce` and `Refuse` that this find has not,
and `Close` that a willing run has said all it found. What `Begin` may bring
along is the command line's stand-in for a filter.

### Candidates

`Pipeline` lets a stage keep any of its rows; this module says which, for one
run with all filters switched on. Its actions are the stages, and within
`localize` the temporal match, one match per superevent and the join back onto
the alerts. The inputs from outside are chosen where they are read: the nested
columns a crossmatch yields, the rows of a GraceDB scan, and what each skymap
would say (which alerts its credible area holds, which its volume holds at the
distance of a cosmology, and whether `ligo.skymap` raises). Frames are sets,
since the order of their rows decides nothing, but for the pool of hosts: there
the order the catalogs are concatenated in, and the stability of the sort, is
what `OrderOfCatalogsIsImmaterial` is about. A row of the pool keeps its catalog
and its place in that catalog's column, and `ConcatenatedBefore` says which of
two comes first in the concatenated frame, to which `Precedes` falls back when
the sort keys tie. A separation may be missing; such a host is never usable.

Not followed: the renumbering of rows in `filter_matched`, after which the
stages keep the numbers they find; the counts in a summary; cuts on other
columns than the distance, the absolute magnitude and the band. Three inputs
that would end the run with an exception are left out, since any stage may raise
in `Pipeline`: a catalog without a redshift column, a position that is none, and
in `GraceDbCache` a preferred event that is null. The guard of the spatial match
against a distance that is not finite never takes hold, as the distance stage
has placed every row.

## What the runs check

| Run | Instance | Shows |
|---|---|---|
| `GcnStore_faults` | six bodies of four topics (a superevent's preliminary notice with two maps, an update whose map is garbled, a retraction; a neutrino search with a nested region under a garbled map, a null, a neutrino of the same name with a linked map and a region, and a bare position; a transient and a burst that are refused), one crash, raising call or torn append | `RecordedFilesComplete`, `StoredOnce`, `LatestIsOfAPrefix`, `StoreAgrees`, `RetractionWithdraws`, `NoRegionLost`, `NeverDemoted` hold under any order and repetition of calls |
| `GcnStore_restart` | two notices, one crash | **violated**: `SafeToRestart` |
| `GcnListener_faults` | two topics of up to two messages, a malformed body and one that is refused after a map of it was written among them, batches of two, two faults | `CommittedIsRecorded`, `IndexWithinHistory`; the listener implements `NoticeArchive` |
| `GcnListener_live` | two topics, on one of them a superevent's notice and its retraction, so that one line may be torn and the next one glued to it; one fault, with and without `--once`, signals | `CommittedIsKept`, `EveryMessageRecorded`, `StopEnds`, `OnceEnds` |
| `GraceDbCache_scan` | one run after another, two skymaps of which the better comes late, two faults of five kinds, forced runs, a superevent that ages | `RecordedSkymapExists`, `RecordedRevisionHeld`, `UndisturbedRowsHoldListedRevision`, `EntryFollowsListing`, `CatchesUp` |
| `GraceDbCache_retry` | one failed download | **violated**: `RowsHoldListedRevision` |
| `GraceDbCache_pastro` | two pipelines, no faults | **violated**: `ClassifiedByPreferred` |
| `AlertQuery_schedule` | three runs, two alerts, six layered configurations | `NothingBetween`, `CutOffForGood`, `CompleteBelowLimit`, `RepeatedFindsAll` |
| `Pipeline_filters` | two alerts, three filters of which one is switched off, any starting stage, two faults | `SiblingsReport`, `AnnouncedWasFound`, `SkippedForCause`, `ResultsAreFinal`; the run implements `Announcer` |
| `Candidates_rows` | two alerts, two catalogs in either order, hosts that tie, are flagged, too near or unmeasured; two superevents whose maps are missing, unreadable, flat or good; two cosmologies, three JSON filters | `HostIsNearestUsable`, `OrderOfCatalogsIsImmaterial`, `CandidatesAreCoincident`, `EveryPairAccounted`, `CutsArePositive` |
| `Pipeline_from_stage` | no faults | **violated**: `EveryFilterRecorded` |
| `Pipeline_stamp` | two schedules | **violated**: `FilesGroupTogether` |

Runs that share the cache are not model-checked: that no interleaving of theirs
leaves an entry without its skymap is the theorem `CacheRecordsSkymaps`.

### The bounds, and why they are enough

* `MaxFaults`: the hazards are single faults, and a fault during the recovery
  from another; two cover a redelivery that is cut short again.
* `MaxLog`, notices: each hazard concerns one message, the one behind it and one
  redelivery. The store run, which may be called with any notice at any time,
  has every order and repetition of a superevent's three notices; in the
  listener runs two messages of a partition are one and the one behind it.
* `CONSUME_BATCH_SIZE` 2 lets a batch end before and after a fault.
  `DRAIN_EMPTY_BATCHES` is 1, and 2 in the liveness run, where counting matters.
* `LastListing` gives the files that matter a first and a superseding revision,
  and `Passing` lets the verdict change with the revision of `p_astro.json`.
* `AlertQuery`: three runs put one that failed or was missed between two;
  the lookbacks are shorter than, and longer than, two cadences; two alerts and
  a limit of one make the limit cut.
* Two alerts tell "some" from "all" rows; three filters give a filter before,
  at and behind the starting one.
* In `Candidates_rows` every choice is between two of a kind, which is what a
  tie, a gap in the rows, a failure beside a success and a disagreement between
  cosmologies need; each catalog offers an alert up to two hosts, of which the
  nearer is the unusable one. The gap in the rows is an alert that found no host.

Symmetry is used where it is sound, for the alerts of `AlertQuery_schedule`,
which checks invariants alone; elsewhere the notices and filters differ in what
they carry, and the liveness runs would not allow it.

### Fairness

`GcnListener!FairSpec`: the process is scheduled while it is up (weak fairness
of the store's steps, of `Take`, `Consume`, `Commit`, `EndBatch`, `StopAtTop`),
it is started again when it ends by a crash (weak fairness of `RestartAfterEnd`;
the store's comment calls the consumer safe to restart), and librdkafka serves
every partition in the end (strong fairness of `Fetches(p)`, strong because
fetching stops and resumes with each batch). Publishing, signals and faults are
not fair. `StopEnds` holds while messages keep coming, but does not say when:
the code finishes the batch in hand. `GraceDbCache!FairSpec`: cron starts the
next run, and a run that is up goes on. `CatchesUp` is stated for a superevent
within the recheck window, which is where the code promises a re-check, and it
admits a verdict of `failed`, which the code replays while the listing stays the
same.

## What the code does that its documentation does not say

The five violated properties; `PROJECT.json` quotes the lines.

1. **A crash between two appends is not repaired.** `store_notice` recognizes a
   redelivery by the history, the first of three records it writes. If the
   process dies after it, `index.jsonl` never lists the notice, and
   `latest.json` and `latest.fits` stay behind until the event's next notice.
2. **A failed download is not retried when it was to replace a file.** The entry
   takes the new revision before the download, so the next scan finds revision
   and file in place, and reports `ok` with the old skymap.
3. **`--from-stage` at a filter other than the first fails at the end**, if it
   finds anything, since the filters before it have no result and
   `slack_publish` raises `KeyError`. If nothing was found it is skipped.
4. **A superevent keeps the classification of its old pipeline** when the
   preferred event moves to another one and no file is uploaded with it: the
   fingerprint notices, but the verdict is replayed for an unchanged listing.
5. **A stamp is a second**, and the README's two schedules start in the same one
   every day at 14:00: the rows one of them wrote are overwritten by the other.

More divergences were met that no run is spent on:

* a stop request finishes the batch rather than the message in hand
  (`gcn_listener.py:72`);
* a scan that listed early may rename older bytes over newer ones when two runs
  overlap, which the next scan within the recheck window does not notice if the
  recorded revision is the newer one;
* the hourly example of the repository's README has a lookback equal to the
  cadence and says that the two "stay consistent because they are written down
  together". A window ends when its run asks, so `NothingBetween` needs a
  lookback of the cadence and the drift: with the cadence alone, an alert is
  missed whenever one run is later than the one before it;
* `config.py` says that `lookback` "fills in whichever bound is not given"; with
  only `start` given the end is the present and `lookback` is not used;
* one localization that is refused costs a notice all of its maps, where
  `resolve_skymap` takes care that a failed download does not;
* `label` is said to keep localizations apart in file names
  (`gcn_notices.py:192`). Nothing makes the labels of one notice differ, and of
  two that are equal the second's map overwrites the first's. `NoRegionLost`
  is stated up to this.

## What is proved

Every theorem is of the whole specification, for every value of the constants
that the named assumptions allow: any number of notices, partitions, runs,
alerts, catalogs, files and faults. The invariants below were first checked by
TLC on the instance of the run.

### The store's files (`GcnStoreProofs`)

* `StoreTypeCorrect`: `StoreSpec => []StoreTypeOK`
* `StoreFilesComplete`: `StoreSpec => []RecordedFilesComplete`
* `StoreStoresOnce`: `StoreSpec => []StoredOnce`

from the inductive invariant `FileInv`. `RecordedFilesComplete` is not inductive
alone: that `AppendHistory` records complete maps needs the maps collected in
`skymaps` to be complete, but for one whose file is just being overwritten
(`HandFiles`), that `OpenSkymap` tears no recorded map needs the notice in hand
not to be in the history while its maps are written, which the redelivery check
established and `StoredOnce` is the consequence of; that a pointer names
complete maps needs it to come from entries (`EntriesOK`, `PointersOK`).

### What the store shows (`GcnStoreShownProofs`)

* `StoreShowsAPrefix`: `StoreSpec => []LatestIsOfAPrefix`
* `StoreNeverDemotes`: `StoreSpec => NeverDemoted`
* `StoreAgreesWithItself`: `StoreSpec => []StoreAgrees`
* `StoreIndexIsOfHistory`: `StoreSpec => []IndexWithinHistory`, if no append is
  torn

`LatestIsOfAPrefix` is inductive with the types, because `SubSeq` of a longer
history is `SubSeq` of the shorter. `NeverDemoted` follows from it: the pointer
that is replaced was the best of a prefix of the history whose best replaces it,
and no two keys outrank each other (`KeyAsymmetric`). For agreement, `Agreement`
says which of the four records may lag at each `pc`: only those of the event in
hand, and only those behind the last write. `IndexInv` counts: between the two
appends the history has the entry in hand and the index does not (`IndexLags`).

`IndexWithinHistory` needs the hypothesis `"torn" \notin Faults`. A torn append
leaves half a line at the end of a history; the line of the event's next notice
is glued to it and parses no more, and the index then lists a notice that no
history has. All other kinds of fault, in any number, are within the theorem.

### From a body to its map (`GcnParsingProofs`)

* `RetractionIsFinal`: `StoreSpec => []RetractionWithdraws`, for any bodies
* `StoreLosesNoRegion`: `StoreSpec => []NoRegionLost`, likewise
* `ListenerLosesNoRegion`: `Spec => []NoRegionLost`, likewise

Only `igwn.gwalert` is filed under `gw` (`RouteIs`), so all notices of the event
of a retraction are of this topic; that parser reads no record number, so they
rank by alert type first, where a retraction is above all
(`RetractionIsLatest`); it has no localizations, so its pointer names no map;
and `StoreAgrees` says that the pointer is that of the best entry. Like that
property it speaks of a store in which nothing has failed yet: after a crash
between the writes, the first divergence above applies.

`NoRegionLost` holds whatever fails. The store's half is `MapsInv` (in
`GcnStoreShownProofs`): each localization that the loop has left behind has its
map among those in hand, labelled for it and made in one of the ways
`resolve_skymap` allows, unless these admit that there is none (`MappedUpTo`);
each map in hand, and later in the history, is of some localization of the
notice (`OfSome`); and under its path is what the last of those with that path
wrote, except while that very file is being written (`InPlace`). The parser's
half is that every object which carried a map, or quoted a region, has a
localization in the notice with its number and its label, with a source that
always yields a map, and the mission's own where it sent one (`ObjectLocates`,
`EachKept`, `GwKept`, `NoticeKept`). Nulls and useless entries are dropped on
the way, which shifts the rest: `PresentKeeps` gives each entry that stays the
number of those up to it that stay (`Rank`) as its new place, and says that
nothing else is there, so that a map in place is of an object of the body with
the label in its path (`EntryLosesNothing`). The code's comprehensions are
written as sequences over the places that stay (`Present`) rather than with a
filter defined by recursion, of which nothing could be proved.

### The listener (`GcnListenerProofs`)

* `ListenerTypeCorrect`: `Spec => []TypeOK`
* `ListenerKeeps`: `Spec => []CommittedIsKept`
* `ListenerRecords`: `Spec => []CommittedIsRecorded`, if no append is torn
* `ListenerIndexIsOfHistory`: `Spec => []IndexWithinHistory`, likewise
* `ListenerImplementsArchive`: `Spec => ImplementsArchive`, torn appends or not

`ControlInv` says where the listener is: `FileInv` (every step of the listener
is a step of the store or leaves it alone), `OffsetsOK` (no offset passes the
log) and `MessageInHand` (what is in hand is the message at `next[part]`). On it
rests one lemma for both offset properties, `DoneStep`: if a set takes in every
notice that is handled and only grows, it holds every message below `committed`,
below `next`, and below the position reading goes on from (`DoneBelow`), which
is what a restart and a rebalance fall back to. `KeptInv` uses it for bodies and
payloads on disk, `RecordedInv` for the notices in a history, refused or in
quarantine.

The refinement is a step simulation over what is kept, filed, shown, set aside
and acknowledged (`notice_files`, `Filed`, `Shown`, `quarantine`,
`Acknowledged`): `WriteNotice` is `Keep`, `AppendHistory` is `File`, or nothing
when the line joins a fragment, `WriteLatest` is `Show`, a step that fills the
quarantine is `SetAside`, every step that moves a committed offset is
`Acknowledge`, and any other step changes nothing of this. That a notice is
filed once, with its body in place, needs `FileInv`. What may be acknowledged
depends on whether appends can be torn (`Tears`): if not, only what is on
record, by `RecordedInv`; if so, only what is kept or set aside, by `KeptInv`,
for the offset of a notice whose line was glued to half of another is committed
all the same. `GcnListener_live` is the run with torn appends, and
`EveryMessageRecorded` admits the notice it happens to (`LostInFragment`): its
body is kept, and another notice of its event is in quarantine.

### The cache (`GraceDbCacheProofs`)

For any number of runs at the same time on one cache:

* `CacheTypeCorrect`: `Spec => []TypeOK`
* `CacheRecordsSkymaps`: `Spec => []RecordedSkymapExists`

from `CacheInv`: of the entry and of every run on its way, what it goes by has
been listed by GraceDB, what it is about to fetch exists there, and the path it
has in hand, which it will record, names a file on disk (`EntryOK`, `RunOK`).
The invariant of one run survives the steps of the others because of `Grows`:
a file on disk is only ever replaced, and GraceDB takes no file off its listing.

For any number of runs of which no two look at the superevent together:

* `CacheHoldsRecordedRevision`: `Spec /\ []OneAtATime => []RecordedRevisionHeld`
* `CacheRowsHoldListedRevision`: `... => []UndisturbedRowsHoldListedRevision`
* `CacheEntryFollowsListing`: `... => []EntryFollowsListing`

`OneAtATime` is what the instance of the run has by having one run, and the code
has where cron's runs do not overlap. With two runs that overlap, and no fault
at all, TLC finds each of the three properties violated (one run reads, records
or renames what the other has already replaced), so the theorems cannot do
without it. The invariant `SerialInv` says of an undisturbed disk that the entry
names the best skymap of its listing in a copy no older than that listing
(`EntryHeld`), and that no skymap is on disk which the entry's listing did not
have, except the one about to be recorded (`SkymapsListed`). The second is what
makes `needs_download` right: a file that becomes the best when a listing moves
was in no earlier one (`BetterIsNew`), so no stale copy of it can be found in
place. `Follows` is what a run's local variables have to do with the entry it
read.

### The schedule of queries (`AlertQueryProofs`)

* `QueryTypeCorrect`: `Spec => []TypeOK`
* `QueryLeavesNoGap`: `Spec => []NothingBetween`
* `QueryCutOffStays`: `Spec => []CutOffForGood`
* `QueryComplete`: `Spec => []CompleteBelowLimit`
* `QueryRepeats`: `Spec => []RepeatedFindsAll`

from `IInv`: a run that waits for its tick or for its window is on time
(`OnTime`), a settled window lies where the configuration and the moment it was
asked at put it (`Settled`), and an answer is the whole window or a full one
that holds nothing older than what it leaves out (`Answered`). The clock's
guard, that it passes no tick whose run cron has not dealt with, is what ties
two windows to each other.

### The runner (`PipelineProofs`)

* `PipelineTypeCorrect`: `Spec => []TypeOK`
* `PipelineResultsAreFinal`: `Spec => ResultsAreFinal`
* `PipelineSkipsForCause`: `Spec => []SkippedForCause`
* `PipelineAnnouncesWhatItFound`: `Spec => []AnnouncedWasFound`
* `PipelineSiblingsReport`: `Spec => []SiblingsReport`
* `PipelineImplementsAnnouncer`: `Spec => ImplementsAnnouncer`
* `PipelineAnnouncesOnce`: `Spec => []AnnouncedOnce`, the part of that promise
  which concerns the channel alone: no filter of a run is announced twice

`ProgressInv`: no stage from the place of a run on is on record (`Ahead`), and
what the stage it is at requires is (`Supplied`); this is where results get
their finality, and where the `KeyError` of the third divergence is confined to
`slack_publish`. `RecordInv` adds that what a filter found are rows the run
placed, or the command line's stand-in for the first filter (`Found`). `PostInv`
accounts for the messages: while a run posts, each find is still to be posted,
on the channel or refused (`Collected`), so a run that ends well has posted all
(`Reported`).

For the refinement, `OnceInv` adds that what is still to be posted was neither
said nor refused, and that nothing was before the run came to `slack_publish`
(`Untried`). Then `Start` is `Begin`; a filter that keeps some rows is `Find`,
and since it had no result before, it is that filter's first (`FindsTook`);
`Post` and `PostFails` are `Announce` and `Refuse`, or nothing in a dry run;
`Announced` is `Close` or `Fail`, and so are a skipped `slack_publish`, which
leaves no find unsaid because all its filters are on record as empty (`SkipIs`),
and an exception. Everything else leaves what the channel's readers see as it
is, and no step of one run touches another's (`OthersSame`).

### The rows (`CandidatesProofs`)

* `CandidatesTypeCorrect`: `Spec => []TypeOK`
* `CandidatesHostIsNearest`: `Spec => []HostIsNearestUsable`
* `CandidatesOrderIsImmaterial`: `Spec => []OrderOfCatalogsIsImmaterial`
* `CandidatesFound`: `Spec => []CandidatesAreCoincident`
* `CandidatesAccounted`: `Spec => []EveryPairAccounted`
* `CandidatesMeetCuts`: `Spec => []CutsArePositive`

The host of an alert is the first of the sorted pool. `BestExists` and
`BestIsUnique` show that this is the least by separation, then by the name of
the catalog, then by the place in its column, none of which depends on the order
the catalogs come in: two hosts that tie in both sort keys are of one catalog,
whose own order every concatenation keeps (`NearestIsOne`). `CandidatesInv` says
of `localize` that the pairs are the matches in time, and that the rows so far
are just those of the superevents that were dealt with, whatever failed
(`Localizing`); and of the cut filters that those before the next one have run
(`InTurn`), each on the placed rows.

### What the proofs assume, and what they leave to TLC

The assumptions are those named in the modules: `NoticesAssumption`,
`StoreAssumption`, `NoneAssumption`, `BodyAssumption`, `ListenerAssumption`,
`CacheAssumption`, `EntryAssumption`, `QueryAssumption`, `PipelineAssumption`,
`CandidatesAssumption`. They give the constants their types, keep `None` apart
from what may stand in its place, and say what the code's tables and its
configuration loader enforce (skymap names do not tie in the ranking, catalogs
and filters have names of their own, a cut has a bound), and that the objects of
a body are JSON arrays whose labels are among `Labels`. TLC evaluates them on
every run of the module. The hypothesis on torn appends, and `OneAtATime`, stand
in the theorems that need them. Mutants and bounds play no part in the proofs.

Only model-checked is liveness, which is out of the prover's reach:
`EveryMessageRecorded`, `StopEnds`, `OnceEnds`, `CatchesUp`. Each safety and
action property that a passing run checks is a theorem.

## What is not modelled, and why

* Data that no decision hangs on: HEALPix arithmetic, the arithmetic of the
  spatial crossmatch, the layout and truncation of a Slack message, the nested
  frame BOOM's records become, summaries for display, plots and notebooks.
  Functions of their input, without state.
* How times, identifiers and error regions are spelled: the model takes a time
  as a number and an identifier as a name. Within one event they come from one
  mission, in its one format.
* BOOM, TNS, LSDB and Dask: services and libraries. A stage returns any subset
  the code allows.
* Logging, and the sections of the configuration besides `[query]`: written
  aside, or read once and passed on as constants.
* The scripts: argument parsing around `run_listener`, and catalogue imports
  that were run once.

## Plan

Done: the store with the parsing in front of it, the listener, their abstract
specification, the cache with the names it chooses among, the schedule of
queries, the runner and its abstract specification, the rows each stage keeps;
theorems for every safety property that the passing runs check, and for both
refinements.

Next, in this order:

1. What the cache promises to runs that overlap, beyond `RecordedSkymapExists`.
2. The rows of `Candidates` as the frames of `Pipeline`: one specification of a
   run that implements both.
