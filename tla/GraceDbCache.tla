---------------------------- MODULE GraceDbCache ----------------------------
(***************************************************************************)
(* The cache of GraceDB metadata and skymaps: gracedb_cache.py, and the    *)
(* loop body of fetch_gracedb_superevents in gracedb_tools.py that reads   *)
(* and fills it.  The superevents of a scan do not share state, so one     *)
(* stands for all of them.  Several runs of the pipeline may scan at once, *)
(* each a sequence of requests and file writes, and GraceDB may change     *)
(* between any two of these.                                               *)
(*                                                                         *)
(* Revisions are counted from 1; a revision of 0 is a file that GraceDB    *)
(* does not list, or that is not on disk.  A listing holds several skymaps *)
(* and p_astro files, of which a scan chooses one each.                    *)
(***************************************************************************)
EXTENDS Integers

CONSTANTS Runs,        \* the pipeline runs that share the cache directory
          Skymaps,     \* the names of skymaps: producer and format
          Pipelines,   \* the searches that an event may come from
          LastListing, \* bound: the revision each file reaches
          MaxMoves,    \* bound: how often a listed field moves
          Passing,     \* the p_astro files and revisions whose content passes the cut
          Faults,      \* which faults may happen
          MaxFaults,   \* bound: how many of them do
          Forced,      \* whether a run may be made with force_refresh
          Ages,        \* whether the superevent leaves the recheck window
          None         \* no cache entry, no file

(* The ranking table, best first.  A revision's own name ranks behind the  *)
(* name without one, which is listed with it, and is never chosen.         *)
skymap_priority(n) ==
  CASE n.producer = "bilby" /\ n.format = "multiorder.fits"    -> 0
    [] n.producer = "bayestar" /\ n.format = "multiorder.fits" -> 10
    [] n.producer = "other" /\ n.format = "multiorder.fits"    -> 20
    [] n.producer = "bayestar" /\ n.format = "fits.gz"         -> 30
    [] n.producer # "bayestar" /\ n.format = "fits.gz"         -> 40
    [] n.format = "fits"                                       -> 50

SkymapName ==
  [producer : {"bilby", "bayestar", "other"}, format : {"multiorder.fits", "fits.gz", "fits"}]

(* Each pipeline has a p_astro file of its own; another is for any event.  *)
Generic == "p_astro.json"
PAstros == Pipelines \cup {Generic}

(* What a file listing tells: the latest revision of each file, 0 of one   *)
(* that is not listed.                                                     *)
Listing == [skymap : [Skymaps -> Nat], p_astro : [PAstros -> Nat]]

ASSUME CacheAssumption ==
  /\ Skymaps \subseteq SkymapName /\ None \notin SkymapName
  /\ \A m, n \in Skymaps : skymap_priority(m) = skymap_priority(n) => m = n
  /\ LastListing \in Listing /\ MaxMoves \in Nat /\ MaxFaults \in Nat
  /\ Passing \subseteq PAstros \X Nat
  /\ Faults \subseteq {"list", "p_astro", "download", "crash", "damage"}
  /\ Forced \in BOOLEAN /\ Ages \in BOOLEAN

Classification == {"passes", "cut", "failed"}

CacheEntry ==
  [fingerprint : Nat, files : Listing,
   classification : Classification, classification_file : PAstros \cup {None},
   skymap_file : Skymaps \cup {None}, skymap_revision : Nat,
   skymap_relpath : Skymaps \cup {None}]

(* No entry is not an entry.                                               *)
ASSUME EntryAssumption == None \notin CacheEntry

CacheStatus == {"hit", "miss", "stale_fingerprint", "stale_age", "forced"}

RunState ==
  [pc : {"idle", "entry", "files", "classify", "judge", "download", "write", "save", "row"},
   seen : Nat, pipeline : Pipelines, old : BOOLEAN,
   cached : CacheEntry \cup {None}, status : CacheStatus, files : Listing,
   verdict : Classification, judged : PAstros \cup {None},
   skymap_file : Skymaps \cup {None}, bytes : Nat, path : Skymaps \cup {None}]

VARIABLES
  fields,    \* GraceDB: the mutable fields of the superevents() listing
  preferred, \* GraceDB: the pipeline of the preferred event
  remote,    \* GraceDB: the file listing of the superevent
  settled,   \* whether the merger is older than the recheck window
  entry,     \* on disk: the cache entry
  skymap,    \* on disk: per skymap file, the revision of its bytes
  run,       \* per run, where it is and its local variables
  faults,    \* how many faults there have been
  disturbed  \* whether one left a scan unfinished or took an entry away

remoteVars == <<fields, preferred, remote, settled>>
cacheVars == <<entry, skymap>>
faultVars == <<faults, disturbed>>
vars == <<remoteVars, cacheVars, run, faultVars>>

Unlisted == [skymap |-> [n \in Skymaps |-> 0], p_astro |-> [n \in PAstros |-> 0]]

(* A run that is not looking at this superevent.                           *)
Idle ==
  [pc |-> "idle", seen |-> 0, pipeline |-> CHOOSE p \in Pipelines : TRUE, old |-> FALSE,
   cached |-> None, status |-> "miss", files |-> Unlisted,
   verdict |-> "cut", judged |-> None, skymap_file |-> None, bytes |-> 0, path |-> None]

Init ==
  /\ fields = 0 /\ preferred \in Pipelines /\ remote = Unlisted /\ settled = FALSE
  /\ entry = None /\ skymap = [n \in Skymaps |-> 0]
  /\ run = [r \in Runs |-> Idle]
  /\ faults = 0 /\ disturbed = FALSE

Fault(kind) ==
  /\ kind \in Faults /\ faults < MaxFaults
  /\ faults' = faults + 1
  /\ disturbed' = (disturbed \/ kind \in {"download", "crash", "damage"})

-----------------------------------------------------------------------------
(* GraceDB.                                                                *)

(* A label, the FAR, or the preferred event and with it its pipeline.      *)
MoveField ==
  /\ fields < MaxMoves /\ fields' = fields + 1
  /\ preferred' \in Pipelines
  /\ UNCHANGED <<remote, settled, cacheVars, run, faultVars>>

(* An upload makes a new revision and need not move any listed field.      *)
UploadSkymap(n) ==
  /\ remote.skymap[n] < LastListing.skymap[n]
  /\ remote' = [remote EXCEPT !.skymap[n] = @ + 1]
  /\ UNCHANGED <<fields, preferred, settled, cacheVars, run, faultVars>>

UploadPAstro(n) ==
  /\ remote.p_astro[n] < LastListing.p_astro[n]
  /\ remote' = [remote EXCEPT !.p_astro[n] = @ + 1]
  /\ UNCHANGED <<fields, preferred, settled, cacheVars, run, faultVars>>

Settle ==
  /\ Ages /\ ~settled /\ settled' = TRUE
  /\ UNCHANGED <<fields, preferred, remote, cacheVars, run, faultVars>>

-----------------------------------------------------------------------------
(* One superevent of one scan.                                             *)

(* Freshness is judged by the fields that the listing reports.             *)
superevent_fingerprint == fields

(* The superevents() listing, always fetched live.                         *)
Scan(r) ==
  /\ run[r].pc = "idle"
  /\ run' = [run EXCEPT ![r] =
       [Idle EXCEPT !.pc = "entry", !.seen = superevent_fingerprint,
                    !.pipeline = preferred, !.old = settled]]
  /\ UNCHANGED <<remoteVars, cacheVars, faultVars>>

(* Mutant: the fingerprint is not compared.                                *)
StatusByAge(e, r) ==
  CASE e = None -> "miss"
    [] e # None /\ ~run[r].old -> "stale_age"
    [] OTHER -> "hit"

(* GraceDbCache.status, of an entry as the scan of a run sees it.          *)
StatusOf(e, r) ==
  CASE e = None -> "miss"
    [] e # None /\ e.fingerprint # run[r].seen -> "stale_fingerprint"
    [] e # None /\ e.fingerprint = run[r].seen /\ ~run[r].old -> "stale_age"
    [] OTHER -> "hit"

ReadEntry(r) ==
  /\ run[r].pc = "entry"
  /\ \/ run' = [run EXCEPT ![r] = [@ EXCEPT !.pc = "files", !.cached = entry,
                                            !.status = StatusOf(entry, r)]]
     \/ /\ Forced
        /\ run' = [run EXCEPT ![r] = [@ EXCEPT !.pc = "files", !.status = "forced"]]
  /\ UNCHANGED <<remoteVars, cacheVars, faultVars>>

ListFiles(r) ==
  /\ run[r].pc = "files"
  /\ run' = [run EXCEPT ![r] = [@ EXCEPT !.pc = "classify", !.files =
       IF run[r].status = "hit" THEN run[r].cached.files ELSE remote]]
  /\ UNCHANGED <<remoteVars, cacheVars, faultVars>>

(* The row is a stub and the entry is left as it is.                       *)
ListFails(r) ==
  /\ Fault("list") /\ run[r].pc = "files" /\ run[r].status # "hit"
  /\ run' = [run EXCEPT ![r] = Idle]
  /\ UNCHANGED <<remoteVars, cacheVars>>

(* Mutant: only the skymap's revision is compared.                         *)
SkymapUnchanged(r) ==
  run[r].cached # None /\ run[r].cached.files.skymap = run[r].files.skymap

ListingUnchanged(r) == run[r].cached # None /\ run[r].cached.files = run[r].files

Reusable(r) == run[r].status = "hit" \/ ListingUnchanged(r)

(* The file of the event's own pipeline, else the generic one, else any.   *)
(* GraceDB gives every superevent it lists a preferred event, so the       *)
(* exception that a null in its place would raise is left out.             *)
choose_pastro_file(listing, pipeline) ==
  LET listed == {n \in PAstros : listing.p_astro[n] # 0} IN
  IF pipeline \in listed THEN pipeline
  ELSE IF Generic \in listed THEN Generic
  ELSE IF listed # {} THEN CHOOSE n \in listed : TRUE
  ELSE None

Classified(r, verdict, file) ==
  run' = [run EXCEPT ![r] = [@ EXCEPT !.pc = "judge", !.verdict = verdict, !.judged = file]]

Reuse(r) ==
  /\ run[r].pc = "classify" /\ Reusable(r)
  /\ Classified(r, run[r].cached.classification, run[r].cached.classification_file)
  /\ UNCHANGED <<remoteVars, cacheVars, faultVars>>

(* The unversioned name yields the newest content, which may be newer than *)
(* the listing; without a p_astro file no class has any probability.       *)
Classify(r) ==
  LET file == choose_pastro_file(run[r].files, run[r].pipeline) IN
  /\ run[r].pc = "classify" /\ ~Reusable(r)
  /\ Classified(r, IF file # None /\ <<file, remote.p_astro[file]>> \in Passing
                   THEN "passes" ELSE "cut", file)
  /\ UNCHANGED <<remoteVars, cacheVars, faultVars>>

(* Mutant: a failure leaves no verdict.                                    *)
ClassifyGivesNone(r) ==
  LET file == choose_pastro_file(run[r].files, run[r].pipeline) IN
  /\ Fault("p_astro") /\ run[r].pc = "classify" /\ ~Reusable(r) /\ file # None
  /\ Classified(r, None, file)
  /\ UNCHANGED <<remoteVars, cacheVars>>

ClassifyFails(r) ==
  LET file == choose_pastro_file(run[r].files, run[r].pipeline) IN
  /\ Fault("p_astro") /\ run[r].pc = "classify" /\ ~Reusable(r) /\ file # None
  /\ Classified(r, "failed", file)
  /\ UNCHANGED <<remoteVars, cacheVars>>

EntryOf(r, file, revision, relpath) ==
  [fingerprint |-> run[r].seen, files |-> run[r].files,
   classification |-> run[r].verdict, classification_file |-> run[r].judged,
   skymap_file |-> file, skymap_revision |-> revision, skymap_relpath |-> relpath]

(* Below the cut: the entry is kept for its verdict, without a skymap.     *)
Drop(r) ==
  /\ run[r].pc = "judge" /\ run[r].verdict # "passes"
  /\ entry' = IF run[r].status = "hit" THEN entry ELSE EntryOf(r, None, 0, None)
  /\ run' = [run EXCEPT ![r] = Idle]
  /\ UNCHANGED <<remoteVars, skymap, faultVars>>

(* The listed skymap with the lowest priority, if there is one.            *)
choose_skymap_file(listing) ==
  LET listed == {n \in Skymaps : listing.skymap[n] # 0} IN
  IF listed = {} THEN None
  ELSE CHOOSE n \in listed : \A m \in listed : skymap_priority(n) <= skymap_priority(m)

latest_revision(listing, file) == IF file = None THEN 0 ELSE listing.skymap[file]

Superseded(r, file) ==
  run[r].cached # None /\ run[r].cached.skymap_revision # latest_revision(run[r].files, file)

(* Mutant: a local copy is reused whatever its revision.                   *)
DownloadIfMissing(r, file) == run[r].status = "forced" \/ skymap[file] = 0

MustDownload(r, file) == run[r].status = "forced" \/ Superseded(r, file) \/ skymap[file] = 0

(* download_gracedb_file: reuse the local copy, or download it.            *)
ChooseSkymap(r) ==
  LET file == choose_skymap_file(run[r].files)
      chosen(pc, path) ==
        run' = [run EXCEPT ![r] = [@ EXCEPT !.pc = pc, !.skymap_file = file, !.path = path]]
  IN
  /\ run[r].pc = "judge" /\ run[r].verdict = "passes"
  /\ \/ file = None /\ chosen("save", None)
     \/ file # None /\ MustDownload(r, file) /\ chosen("download", None)
     \/ file # None /\ ~MustDownload(r, file) /\ chosen("save", file)
  /\ UNCHANGED <<remoteVars, cacheVars, faultVars>>

(* The unversioned name again yields the newest revision.                  *)
Download(r) ==
  /\ run[r].pc = "download"
  /\ run' = [run EXCEPT ![r] = [@ EXCEPT !.pc = "write",
                                         !.bytes = remote.skymap[run[r].skymap_file]]]
  /\ UNCHANGED <<remoteVars, cacheVars, faultVars>>

(* Mutant: the path is recorded although the download failed.              *)
DownloadFailsUnnoticed(r) ==
  /\ Fault("download") /\ run[r].pc \in {"download", "write"}
  /\ run' = [run EXCEPT ![r] = [@ EXCEPT !.pc = "save", !.path = run[r].skymap_file]]
  /\ UNCHANGED <<remoteVars, cacheVars>>

(* The row says skymap_download_failed; the entry records no skymap path.  *)
DownloadFails(r) ==
  /\ Fault("download") /\ run[r].pc \in {"download", "write"}
  /\ run' = [run EXCEPT ![r] = [@ EXCEPT !.pc = "save", !.path = None]]
  /\ UNCHANGED <<remoteVars, cacheVars>>

(* Mutant: a file that is there is not replaced.                           *)
WriteNewSkymap(r) ==
  LET file == run[r].skymap_file IN
  /\ run[r].pc = "write"
  /\ skymap' = IF skymap[file] = 0 THEN [skymap EXCEPT ![file] = run[r].bytes] ELSE skymap
  /\ run' = [run EXCEPT ![r] = [@ EXCEPT !.pc = "save", !.path = file]]
  /\ UNCHANGED <<remoteVars, entry, faultVars>>

(* atomic_write_bytes: the rename replaces the file as a whole.            *)
WriteSkymap(r) ==
  LET file == run[r].skymap_file IN
  /\ run[r].pc = "write"
  /\ skymap' = [skymap EXCEPT ![file] = run[r].bytes]
  /\ run' = [run EXCEPT ![r] = [@ EXCEPT !.pc = "save", !.path = file]]
  /\ UNCHANGED <<remoteVars, entry, faultVars>>

(* A hit still writes when an earlier failed download has now succeeded.   *)
Save(r) ==
  LET file == run[r].skymap_file IN
  /\ run[r].pc = "save"
  /\ entry' = IF run[r].status # "hit" \/ run[r].path # run[r].cached.skymap_relpath
              THEN EntryOf(r, file, latest_revision(run[r].files, file), run[r].path) ELSE entry
  /\ run' = [run EXCEPT ![r] = [@ EXCEPT !.pc = "row"]]
  /\ UNCHANGED <<remoteVars, skymap, faultVars>>

(* The row is appended, and its skymap is opened by what follows.          *)
AppendRow(r) ==
  /\ run[r].pc = "row"
  /\ run' = [run EXCEPT ![r] = Idle]
  /\ UNCHANGED <<remoteVars, cacheVars, faultVars>>

Crash(r) ==
  /\ Fault("crash") /\ run[r].pc # "idle"
  /\ run' = [run EXCEPT ![r] = Idle]
  /\ UNCHANGED <<remoteVars, cacheVars>>

(* The entry is deleted by hand, or damaged, which reads the same.         *)
DamageEntry ==
  /\ Fault("damage") /\ entry # None
  /\ entry' = None
  /\ UNCHANGED <<remoteVars, skymap, run>>

Step(r) ==
  \/ ReadEntry(r) \/ ListFiles(r) \/ Reuse(r) \/ Classify(r)
  \/ Drop(r) \/ ChooseSkymap(r) \/ Download(r) \/ WriteSkymap(r)
  \/ Save(r) \/ AppendRow(r)

StepFails(r) == ListFails(r) \/ ClassifyFails(r) \/ DownloadFails(r) \/ Crash(r)

Next ==
  \/ MoveField \/ Settle
  \/ (\E n \in Skymaps : UploadSkymap(n)) \/ (\E n \in PAstros : UploadPAstro(n))
  \/ DamageEntry
  \/ \E r \in Runs : Scan(r) \/ Step(r) \/ StepFails(r)

Spec == Init /\ [][Next]_vars

(* cron starts the next run, and a run that is up goes on.                 *)
FairSpec == Spec /\ \A r \in Runs : WF_vars(Scan(r)) /\ WF_vars(Step(r))

-----------------------------------------------------------------------------
(* Properties.                                                             *)

(* Every variable has the type its declaration describes.                  *)
TypeOK ==
  /\ fields \in Nat /\ preferred \in Pipelines /\ remote \in Listing /\ settled \in BOOLEAN
  /\ entry \in CacheEntry \cup {None} /\ skymap \in [Skymaps -> Nat]
  /\ run \in [Runs -> RunState]
  /\ faults \in Nat /\ disturbed \in BOOLEAN

Recorded == entry # None /\ entry.skymap_relpath # None

(* An entry that names a skymap names one that is there, whatever crashes  *)
(* or runs beside it: the file is renamed into place before the entry is.  *)
RecordedSkymapExists == Recorded => skymap[entry.skymap_relpath] # 0

(* README.md:525: a skymap is re-downloaded when GraceDB lists a higher    *)
(* revision than the one recorded, so that, where one run follows another  *)
(* and none is cut short, the copy at hand is never older than its entry   *)
(* records: also when GraceDB comes to prefer another map to the old one.  *)
RecordedRevisionHeld ==
  ~disturbed /\ Recorded => skymap[entry.skymap_relpath] >= entry.skymap_revision

(* A row that was not served from the cache leads to the skymap that the   *)
(* listing of its own scan showed, or a newer one, whatever an earlier     *)
(* scan left behind when it was cut short.                                 *)
RowsHoldListedRevision ==
  \A r \in Runs :
    run[r].pc = "row" /\ run[r].path # None /\ run[r].status # "hit" =>
      skymap[run[r].path] >= latest_revision(run[r].files, run[r].path)

(* The same of a scan that none before it left unfinished.                 *)
UndisturbedRowsHoldListedRevision == ~disturbed => RowsHoldListedRevision

(* README.md:511: the listing is fetched live, so the cache cannot drift   *)
(* from it: after a row, the entry is one for the fields the scan saw,     *)
(* unless it has been taken away.                                          *)
EntryFollowsListing ==
  \A r \in Runs : run[r].pc = "row" =>
    \/ disturbed /\ entry = None
    \/ /\ entry # None /\ entry.fingerprint = run[r].seen
       /\ entry.classification = "passes" /\ entry.files = run[r].files

(* A row that names the pipeline of the preferred event is judged by the   *)
(* p_astro file that the listing has for it.                               *)
ClassifiedByPreferred ==
  \A r \in Runs : run[r].pc = "row" =>
    run[r].judged = choose_pastro_file(run[r].files, run[r].pipeline)

Verdict ==
  LET file == choose_pastro_file(remote, preferred) IN
  IF file # None /\ <<file, remote.p_astro[file]>> \in Passing THEN "passes" ELSE "cut"

(* As long as the superevent is young, scans go on and GraceDB has no more *)
(* to upload, the cache catches up and stays caught up with what GraceDB   *)
(* serves, the best of its skymaps among it, but for a failure to read     *)
(* p_astro, which is kept on purpose until the listing moves, and for a    *)
(* skymap that an unfinished scan left behind.                             *)
CatchesUp ==
  <>[](\/ settled
       \/ /\ entry # None
          /\ entry.fingerprint = fields /\ entry.files = remote
          /\ entry.classification \in {Verdict, "failed"}
          /\ entry.skymap_relpath # None =>
               /\ entry.skymap_relpath = choose_skymap_file(remote)
               /\ \/ disturbed
                  \/ skymap[entry.skymap_relpath] = latest_revision(remote, entry.skymap_relpath))
=============================================================================
