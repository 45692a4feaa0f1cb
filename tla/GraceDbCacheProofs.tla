-------------------------- MODULE GraceDbCacheProofs --------------------------
(***************************************************************************)
(* Proofs about GraceDbCache, for any number of runs that share the cache, *)
(* any skymaps and p_astro files, and any number of faults of any kind.    *)
(***************************************************************************)
EXTENDS GraceDbCache, TLAPS

(* What a listing names, GraceDB has.                                      *)
ListedBy(listing, rm) ==
  \A n \in Skymaps : listing.skymap[n] # 0 => rm.skymap[n] # 0

(* An entry with the skymaps sk on disk and the files rm at GraceDB.       *)
EntryOK(e, sk, rm) ==
  /\ e \in CacheEntry
  /\ ListedBy(e.files, rm)
  /\ e.skymap_relpath # None => sk[e.skymap_relpath] # 0

(* A run on its way: what it goes by has been listed, what it fetches      *)
(* exists, and what it will record has been written.                       *)
RunOK(s, sk, rm) ==
  /\ s \in RunState
  /\ ListedBy(s.files, rm)
  /\ s.cached # None => ListedBy(s.cached.files, rm)
  /\ s.status = "hit" => s.cached # None
  /\ s.path # None => sk[s.path] # 0
  /\ s.pc = "download" => s.skymap_file # None /\ rm.skymap[s.skymap_file] # 0
  /\ s.pc = "write" => s.skymap_file # None /\ s.bytes # 0

RemoteTypes ==
  /\ fields \in Nat /\ preferred \in Pipelines /\ remote \in Listing /\ settled \in BOOLEAN
  /\ skymap \in [Skymaps -> Nat]
  /\ faults \in Nat /\ disturbed \in BOOLEAN
  /\ DOMAIN run = Runs /\ run = [r \in Runs |-> run[r]]

RunsOK == \A r \in Runs : RunOK(run[r], skymap, remote)

CacheInv ==
  /\ RemoteTypes
  /\ entry # None => EntryOK(entry, skymap, remote)
  /\ RunsOK

(* Nothing that is on disk or at GraceDB goes away.                        *)
Grows ==
  /\ \A n \in Skymaps : skymap[n] # 0 => skymap'[n] # 0
  /\ \A n \in Skymaps : remote.skymap[n] # 0 => remote'.skymap[n] # 0

(* The invariant says what the types and the property say.                 *)
LEMMA InvIsEnough == CacheInv => TypeOK /\ RecordedSkymapExists
<1> SUFFICES ASSUME CacheInv PROVE TypeOK /\ RecordedSkymapExists
  OBVIOUS
<1>1. run \in [Runs -> RunState]
  BY DEF CacheInv, RemoteTypes, RunsOK, RunOK
<1>2. entry \in CacheEntry \cup {None}
  BY DEF CacheInv, EntryOK
<1>3. RecordedSkymapExists
  BY DEF CacheInv, EntryOK, RecordedSkymapExists, Recorded
<1> QED BY <1>1, <1>2, <1>3 DEF CacheInv, RemoteTypes, TypeOK

-----------------------------------------------------------------------------
(* The choices among the files of a listing.                               *)

(* Every skymap has one of six ranks.                                      *)
LEMMA RankType ==
  ASSUME NEW n \in Skymaps
  PROVE  skymap_priority(n) \in {0, 10, 20, 30, 40, 50}
<1>1. n \in SkymapName
  BY CacheAssumption
<1>2. n.producer \in {"bilby", "bayestar", "other"} /\ n.format \in {"multiorder.fits", "fits.gz", "fits"}
  BY <1>1 DEF SkymapName
<1> QED BY <1>2 DEF skymap_priority

(* A listing with a skymap in it has one that is ranked best.              *)
LEMMA BestSkymap ==
  ASSUME NEW S \in SUBSET Skymaps, S # {}
  PROVE  \E n \in S : \A m \in S : skymap_priority(n) <= skymap_priority(m)
<1>1. \A n \in S : skymap_priority(n) \in {0, 10, 20, 30, 40, 50}
  BY RankType
<1>2. CASE \E n \in S : skymap_priority(n) = 0
  BY <1>1, <1>2
<1>3. CASE (\E n \in S : skymap_priority(n) = 10) /\ ~(\E n \in S : skymap_priority(n) = 0)
  BY <1>1, <1>3
<1>4. CASE (\E n \in S : skymap_priority(n) = 20) /\ ~(\E n \in S : skymap_priority(n) \in {0, 10})
  BY <1>1, <1>4
<1>5. CASE (\E n \in S : skymap_priority(n) = 30) /\ ~(\E n \in S : skymap_priority(n) \in {0, 10, 20})
  BY <1>1, <1>5
<1>6. CASE (\E n \in S : skymap_priority(n) = 40) /\ ~(\E n \in S : skymap_priority(n) \in {0, 10, 20, 30})
  BY <1>1, <1>6
<1>7. CASE \A n \in S : skymap_priority(n) = 50
  BY <1>1, <1>7
<1> QED BY <1>1, <1>2, <1>3, <1>4, <1>5, <1>6, <1>7

(* The skymap that is chosen is listed.                                    *)
LEMMA ChosenSkymap ==
  ASSUME NEW l \in Listing
  PROVE  /\ choose_skymap_file(l) \in Skymaps \cup {None}
         /\ choose_skymap_file(l) # None =>
              choose_skymap_file(l) \in Skymaps /\ l.skymap[choose_skymap_file(l)] # 0
<1> DEFINE listed == {n \in Skymaps : l.skymap[n] # 0}
           best == CHOOSE n \in listed : \A m \in listed : skymap_priority(n) <= skymap_priority(m)
<1>1. CASE listed = {}
  BY <1>1 DEF choose_skymap_file
<1>2. CASE listed # {}
  <2>1. \E n \in listed : \A m \in listed : skymap_priority(n) <= skymap_priority(m)
    BY <1>2, BestSkymap
  <2>2. best \in listed
    BY <2>1
  <2> QED BY <1>2, <2>2 DEF choose_skymap_file
<1> QED BY <1>1, <1>2

(* The p_astro file that is chosen is one of GraceDB's, if any.            *)
LEMMA ChosenPAstro ==
  ASSUME NEW l, NEW p \in Pipelines
  PROVE  choose_pastro_file(l, p) \in PAstros \cup {None}
BY DEF choose_pastro_file, PAstros

(* The revision of a file that is chosen or not.                           *)
LEMMA RevisionType ==
  ASSUME NEW l \in Listing, NEW file \in Skymaps \cup {None}
  PROVE  latest_revision(l, file) \in Nat
BY DEF latest_revision, Listing

-----------------------------------------------------------------------------
(* What a step leaves as it is.                                            *)

(* A run that has been right stays right while nothing goes away.          *)
LEMMA RunStays ==
  ASSUME Grows, NEW s, RunOK(s, skymap, remote)
  PROVE  RunOK(s, skymap', remote')
<1>1. s.path \in Skymaps \cup {None} /\ s.skymap_file \in Skymaps \cup {None}
  BY DEF RunOK, RunState
<1> QED BY <1>1 DEF Grows, RunOK, ListedBy

LEMMA EntryStays ==
  ASSUME Grows, NEW e, EntryOK(e, skymap, remote)
  PROVE  EntryOK(e, skymap', remote')
<1>1. e.skymap_relpath \in Skymaps \cup {None}
  BY DEF EntryOK, CacheEntry
<1> QED BY <1>1 DEF Grows, EntryOK, ListedBy

(* A step that takes one run to a state that is right keeps all of them    *)
(* right.                                                                  *)
LEMMA RunStep ==
  ASSUME CacheInv, Grows, NEW r \in Runs, NEW s,
         run' = [run EXCEPT ![r] = s], RunOK(s, skymap', remote')
  PROVE  /\ \A q \in Runs : RunOK(run'[q], skymap', remote')
         /\ DOMAIN run' = Runs /\ run' = [q \in Runs |-> run'[q]]
<1>1. DOMAIN run = Runs /\ \A q \in Runs : RunOK(run[q], skymap, remote)
  BY DEF CacheInv, RemoteTypes, RunsOK
<1>2. run'[r] = s /\ \A q \in Runs \ {r} : run'[q] = run[q]
  BY <1>1
<1>3. \A q \in Runs \ {r} : RunOK(run'[q], skymap', remote')
  BY <1>1, <1>2, RunStays
<1> QED BY <1>1, <1>2, <1>3

(* A step of one run that leaves GraceDB and the disk alone.               *)
LEMMA LocalStep ==
  ASSUME CacheInv, NEW r \in Runs, NEW s,
         run' = [run EXCEPT ![r] = s], RunOK(s, skymap, remote),
         UNCHANGED <<remoteVars, cacheVars>>, faults' \in Nat, disturbed' \in BOOLEAN
  PROVE  CacheInv'
<1>1. Grows /\ RunOK(s, skymap', remote')
  BY DEF Grows, remoteVars, cacheVars
<1>2. RunsOK' /\ DOMAIN run' = Runs /\ run' = [q \in Runs |-> run'[q]]
  BY <1>1, RunStep DEF RunsOK
<1>3. RemoteTypes'
  BY <1>2 DEF CacheInv, RemoteTypes, remoteVars, cacheVars
<1>4. (entry # None => EntryOK(entry, skymap, remote))'
  BY DEF CacheInv, remoteVars, cacheVars
<1> QED BY <1>2, <1>3, <1>4 DEF CacheInv

(* A run that is not looking at the superevent is right.                   *)
LEMMA IdleOK ==
  ASSUME Pipelines # {}, NEW sk, NEW rm
  PROVE  RunOK(Idle, sk, rm) /\ Unlisted \in Listing
<1>1. Unlisted \in Listing
  BY DEF Unlisted, Listing
<1>2. (CHOOSE p \in Pipelines : TRUE) \in Pipelines
  OBVIOUS
<1>3. Idle \in RunState
  BY <1>1, <1>2 DEF Idle, RunState, CacheStatus, Classification
<1>4. ListedBy(Unlisted, rm)
  BY DEF ListedBy, Unlisted
<1> QED BY <1>1, <1>3, <1>4 DEF RunOK, Idle

(* A fault is counted.                                                     *)
LEMMA FaultType ==
  ASSUME CacheInv, NEW kind, Fault(kind)
  PROVE  faults' \in Nat /\ disturbed' \in BOOLEAN
BY DEF Fault, CacheInv, RemoteTypes

-----------------------------------------------------------------------------
(* The steps.                                                              *)

LEMMA CacheInit == Init => CacheInv
<1> SUFFICES ASSUME Init PROVE CacheInv
  OBVIOUS
<1>1. Pipelines # {}
  BY DEF Init
<1>2. RunsOK
  BY <1>1, IdleOK DEF Init, RunsOK
<1>3. RemoteTypes
  BY <1>1, IdleOK DEF Init, RemoteTypes
<1> QED BY <1>2, <1>3 DEF CacheInv, Init

(* What GraceDB does adds to what it has.                                  *)
LEMMA RemoteStep ==
  ASSUME CacheInv,
         \/ MoveField \/ Settle
         \/ (\E n \in Skymaps : UploadSkymap(n)) \/ (\E n \in PAstros : UploadPAstro(n))
  PROVE  CacheInv'
<1>1. /\ remote \in Listing
      /\ remote.skymap \in [Skymaps -> Nat] /\ remote.p_astro \in [PAstros -> Nat]
  BY DEF CacheInv, RemoteTypes, Listing
<1>2. remote' \in Listing /\ \A n \in Skymaps : remote.skymap[n] # 0 => remote'.skymap[n] # 0
  <2>1. CASE MoveField \/ Settle
    BY <2>1, <1>1 DEF MoveField, Settle
  <2>2. ASSUME NEW n \in Skymaps, UploadSkymap(n)
        PROVE  remote' \in Listing /\ \A m \in Skymaps : remote.skymap[m] # 0 => remote'.skymap[m] # 0
    <3> DEFINE sk == [remote.skymap EXCEPT ![n] = remote.skymap[n] + 1]
    <3>1. remote' = [remote EXCEPT !.skymap = sk]
      BY <2>2 DEF UploadSkymap
    <3>2. sk \in [Skymaps -> Nat] /\ \A m \in Skymaps : remote.skymap[m] # 0 => sk[m] # 0
      BY <1>1
    <3> HIDE DEF sk
    <3> QED BY <1>1, <3>1, <3>2 DEF Listing
  <2>3. ASSUME NEW n \in PAstros, UploadPAstro(n)
        PROVE  remote' \in Listing /\ \A m \in Skymaps : remote.skymap[m] # 0 => remote'.skymap[m] # 0
    <3> DEFINE pa == [remote.p_astro EXCEPT ![n] = remote.p_astro[n] + 1]
    <3>1. remote' = [remote EXCEPT !.p_astro = pa]
      BY <2>3 DEF UploadPAstro
    <3>2. pa \in [PAstros -> Nat]
      BY <1>1
    <3> HIDE DEF pa
    <3> QED BY <1>1, <3>1, <3>2 DEF Listing
  <2> QED BY <2>1, <2>2, <2>3
<1>3. /\ UNCHANGED <<cacheVars, run, faultVars>>
      /\ fields' \in Nat /\ preferred' \in Pipelines /\ settled' \in BOOLEAN
  <2>1. CASE MoveField
    BY <2>1 DEF MoveField, CacheInv, RemoteTypes
  <2>2. CASE Settle
    BY <2>2 DEF Settle, CacheInv, RemoteTypes
  <2>3. CASE \E n \in Skymaps : UploadSkymap(n)
    BY <2>3 DEF UploadSkymap, CacheInv, RemoteTypes
  <2>4. CASE \E n \in PAstros : UploadPAstro(n)
    BY <2>4 DEF UploadPAstro, CacheInv, RemoteTypes
  <2> QED BY <2>1, <2>2, <2>3, <2>4
<1>4. Grows
  BY <1>2, <1>3 DEF Grows, cacheVars
<1>5. RemoteTypes'
  BY <1>2, <1>3 DEF CacheInv, RemoteTypes, cacheVars, faultVars
<1>6. RunsOK'
  BY <1>3, <1>4, RunStays DEF CacheInv, RunsOK
<1>7. (entry # None => EntryOK(entry, skymap, remote))'
  BY <1>3, <1>4, EntryStays DEF CacheInv, cacheVars
<1> QED BY <1>5, <1>6, <1>7 DEF CacheInv

(* A run that scans, lists, judges or gives up changes only itself.        *)
LEMMA ReadStep ==
  ASSUME CacheInv, NEW r \in Runs,
         \/ Scan(r) \/ ReadEntry(r) \/ ListFiles(r) \/ ListFails(r) \/ AppendRow(r) \/ Crash(r)
  PROVE  CacheInv'
<1>1. RunOK(run[r], skymap, remote) /\ run[r] \in RunState
  BY DEF CacheInv, RunsOK, RunOK
<1>2. RunOK(Idle, skymap, remote)
  BY IdleOK DEF CacheInv, RemoteTypes
<1>3. faults \in Nat /\ disturbed \in BOOLEAN /\ remote \in Listing
  BY DEF CacheInv, RemoteTypes
<1>4. CASE Scan(r)
  <2> DEFINE s == [Idle EXCEPT !.pc = "entry", !.seen = superevent_fingerprint,
                               !.pipeline = preferred, !.old = settled]
  <2>1. RunOK(s, skymap, remote)
    BY <1>2 DEF CacheInv, RemoteTypes, RunOK, RunState, Idle, superevent_fingerprint
  <2>2. run' = [run EXCEPT ![r] = s] /\ UNCHANGED <<remoteVars, cacheVars, faultVars>>
    BY <1>4 DEF Scan
  <2> HIDE DEF s
  <2> QED BY <1>3, <2>1, <2>2, LocalStep DEF faultVars
<1>5. CASE ReadEntry(r)
  <2>1. entry # None => entry \in CacheEntry /\ ListedBy(entry.files, remote)
    BY DEF CacheInv, EntryOK
  <2>2. UNCHANGED <<remoteVars, cacheVars, faultVars>>
    BY <1>5 DEF ReadEntry
  <2>3. CASE run' = [run EXCEPT ![r] = [run[r] EXCEPT !.pc = "files", !.cached = entry,
                                                      !.status = StatusOf(entry, r)]]
    <3> DEFINE status == StatusOf(entry, r)
               s == [run[r] EXCEPT !.pc = "files", !.cached = entry, !.status = status]
    <3>1. status \in CacheStatus /\ (status = "hit" => entry # None)
      BY DEF StatusOf, CacheStatus
    <3>2. entry \in CacheEntry \cup {None}
      BY <2>1
    <3> HIDE DEF status
    <3>3. s \in RunState
      BY <1>1, <3>1, <3>2 DEF RunState
    <3>4. /\ s.pc = "files" /\ s.cached = entry /\ s.status = status
          /\ s.files = run[r].files /\ s.path = run[r].path
      BY <1>1 DEF RunState
    <3> HIDE DEF s
    <3>5. RunOK(s, skymap, remote)
      BY <1>1, <2>1, <3>1, <3>3, <3>4 DEF RunOK
    <3>6. run' = [run EXCEPT ![r] = s]
      BY <2>3 DEF s, status
    <3> QED BY <1>3, <2>2, <3>5, <3>6, LocalStep DEF faultVars
  <2>4. CASE run' = [run EXCEPT ![r] = [run[r] EXCEPT !.pc = "files", !.status = "forced"]]
    <3> DEFINE s == [run[r] EXCEPT !.pc = "files", !.status = "forced"]
    <3>1. s \in RunState
      BY <1>1 DEF RunState, CacheStatus
    <3>2. /\ s.pc = "files" /\ s.status = "forced" /\ s.cached = run[r].cached
          /\ s.files = run[r].files /\ s.path = run[r].path
      BY <1>1 DEF RunState
    <3> HIDE DEF s
    <3>3. RunOK(s, skymap, remote)
      BY <1>1, <3>1, <3>2 DEF RunOK
    <3>4. run' = [run EXCEPT ![r] = s]
      BY <2>4 DEF s
    <3> QED BY <1>3, <2>2, <3>3, <3>4, LocalStep DEF faultVars
  <2> QED BY <1>5, <2>3, <2>4 DEF ReadEntry
<1>6. CASE ListFiles(r)
  <2> DEFINE l == IF run[r].status = "hit" THEN run[r].cached.files ELSE remote
             s == [run[r] EXCEPT !.pc = "classify", !.files = l]
  <2>1. l \in Listing /\ ListedBy(l, remote)
    <3>1. CASE run[r].status = "hit"
      BY <1>1, <3>1 DEF RunOK, RunState, CacheEntry
    <3>2. CASE run[r].status # "hit"
      BY <1>3, <3>2 DEF ListedBy
    <3> QED BY <3>1, <3>2
  <2>2. run' = [run EXCEPT ![r] = s] /\ UNCHANGED <<remoteVars, cacheVars, faultVars>>
    BY <1>6 DEF ListFiles
  <2> HIDE DEF l
  <2>3. RunOK(s, skymap, remote)
    <3>1. s \in RunState
      BY <1>1, <2>1 DEF RunState
    <3>2. /\ s.pc = "classify" /\ s.files = l /\ s.status = run[r].status
          /\ s.cached = run[r].cached /\ s.path = run[r].path
      BY <1>1 DEF RunState
    <3> QED BY <1>1, <2>1, <3>1, <3>2 DEF RunOK
  <2> HIDE DEF s
  <2> QED BY <1>3, <2>2, <2>3, LocalStep DEF faultVars
<1>7. CASE ListFails(r) \/ AppendRow(r) \/ Crash(r)
  <2>1. faults' \in Nat /\ disturbed' \in BOOLEAN
    BY <1>3, <1>7, FaultType DEF ListFails, AppendRow, Crash, faultVars
  <2>2. run' = [run EXCEPT ![r] = Idle] /\ UNCHANGED <<remoteVars, cacheVars>>
    BY <1>7 DEF ListFails, AppendRow, Crash
  <2> QED BY <1>2, <2>1, <2>2, LocalStep
<1> QED BY <1>4, <1>5, <1>6, <1>7

(* A verdict, replayed, reached or failed.                                 *)
LEMMA ClassifyStep ==
  ASSUME CacheInv, NEW r \in Runs, Reuse(r) \/ Classify(r) \/ ClassifyFails(r)
  PROVE  CacheInv'
<1>1. RunOK(run[r], skymap, remote) /\ run[r] \in RunState
  BY DEF CacheInv, RunsOK, RunOK
<1>2. faults \in Nat /\ disturbed \in BOOLEAN
  BY DEF CacheInv, RemoteTypes
<1>3. choose_pastro_file(run[r].files, run[r].pipeline) \in PAstros \cup {None}
  BY <1>1, ChosenPAstro DEF RunState
<1>4. PICK verdict \in Classification, file \in PAstros \cup {None} : Classified(r, verdict, file)
  <2>1. CASE Reuse(r)
    <3>1. run[r].cached \in CacheEntry
      BY <1>1, <2>1 DEF Reuse, Reusable, ListingUnchanged, RunOK, RunState
    <3> QED BY <2>1, <3>1 DEF Reuse, CacheEntry
  <2>2. CASE Classify(r) \/ ClassifyFails(r)
    BY <1>3, <2>2 DEF Classify, ClassifyFails, Classification
  <2> QED BY <2>1, <2>2
<1> DEFINE s == [run[r] EXCEPT !.pc = "judge", !.verdict = verdict, !.judged = file]
<1>5. run' = [run EXCEPT ![r] = s]
  BY <1>4 DEF Classified
<1>6. RunOK(s, skymap, remote)
  <2>1. s \in RunState
    BY <1>1, <1>4 DEF RunState
  <2>2. /\ s.pc = "judge" /\ s.files = run[r].files /\ s.status = run[r].status
        /\ s.cached = run[r].cached /\ s.path = run[r].path
    BY <1>1 DEF RunState
  <2> QED BY <1>1, <2>1, <2>2 DEF RunOK
<1>7. UNCHANGED <<remoteVars, cacheVars>> /\ faults' \in Nat /\ disturbed' \in BOOLEAN
  BY <1>2, FaultType DEF Reuse, Classify, ClassifyFails, faultVars
<1> HIDE DEF s
<1> QED BY <1>5, <1>6, <1>7, LocalStep

(* The skymap is chosen, fetched, or found not to be had.                  *)
LEMMA SkymapStep ==
  ASSUME CacheInv, NEW r \in Runs, ChooseSkymap(r) \/ Download(r) \/ DownloadFails(r)
  PROVE  CacheInv'
<1>1. RunOK(run[r], skymap, remote) /\ run[r] \in RunState
  BY DEF CacheInv, RunsOK, RunOK
<1>2. faults \in Nat /\ disturbed \in BOOLEAN /\ remote \in Listing
  BY DEF CacheInv, RemoteTypes
<1>3. CASE ChooseSkymap(r)
  <2> DEFINE file == choose_skymap_file(run[r].files)
             s(pc, path) == [run[r] EXCEPT !.pc = pc, !.skymap_file = file, !.path = path]
  <2>1. /\ file \in Skymaps \cup {None} /\ None \notin Skymaps
        /\ file # None => file \in Skymaps /\ run[r].files.skymap[file] # 0
    BY <1>1, ChosenSkymap, CacheAssumption DEF RunState
  <2>2. \/ file = None /\ run' = [run EXCEPT ![r] = s("save", None)]
        \/ file # None /\ run' = [run EXCEPT ![r] = s("download", None)]
        \/ file # None /\ skymap[file] # 0 /\ run' = [run EXCEPT ![r] = s("save", file)]
    BY <1>3 DEF ChooseSkymap, MustDownload
  <2>3. UNCHANGED <<remoteVars, cacheVars, faultVars>>
    BY <1>3 DEF ChooseSkymap
  <2> HIDE DEF file
  <2>4. file # None => remote.skymap[file] # 0
    BY <1>1, <2>1 DEF RunOK, ListedBy
  <2>5. ASSUME NEW pc \in {"save", "download"}, NEW path \in {file, None},
               pc = "download" => file # None, path # None => skymap[path] # 0
        PROVE  RunOK(s(pc, path), skymap, remote)
    BY <1>1, <2>1, <2>4, <2>5 DEF RunOK, RunState
  <2>6. PICK after : run' = [run EXCEPT ![r] = after] /\ RunOK(after, skymap, remote)
    BY <2>2, <2>5
  <2> QED BY <1>2, <2>3, <2>6, LocalStep DEF faultVars
<1>4. CASE Download(r)
  <2> DEFINE bytes == remote.skymap[run[r].skymap_file]
             s == [run[r] EXCEPT !.pc = "write", !.bytes = bytes]
  <2>1. run[r].pc = "download" /\ run' = [run EXCEPT ![r] = s]
        /\ UNCHANGED <<remoteVars, cacheVars, faultVars>>
    BY <1>4 DEF Download
  <2>2. run[r].skymap_file \in Skymaps /\ bytes # 0
    BY <1>1, <2>1 DEF RunOK, RunState
  <2>3. bytes \in Nat
    BY <1>2, <2>2 DEF Listing
  <2> HIDE DEF bytes
  <2>4. RunOK(s, skymap, remote)
    <3>1. s \in RunState
      BY <1>1, <2>3 DEF RunState
    <3>2. /\ s.pc = "write" /\ s.bytes = bytes /\ s.files = run[r].files
          /\ s.status = run[r].status /\ s.cached = run[r].cached
          /\ s.path = run[r].path /\ s.skymap_file = run[r].skymap_file
      BY <1>1 DEF RunState
    <3>3. s.skymap_file # None
      BY <2>2, <3>2, CacheAssumption
    <3> QED BY <1>1, <2>2, <3>1, <3>2, <3>3 DEF RunOK
  <2> HIDE DEF s
  <2> QED BY <1>2, <2>1, <2>4, LocalStep DEF faultVars
<1>5. CASE DownloadFails(r)
  <2> DEFINE s == [run[r] EXCEPT !.pc = "save", !.path = None]
  <2>1. run' = [run EXCEPT ![r] = s] /\ UNCHANGED <<remoteVars, cacheVars>>
    BY <1>5 DEF DownloadFails
  <2>2. RunOK(s, skymap, remote)
    BY <1>1 DEF RunOK, RunState
  <2>3. faults' \in Nat /\ disturbed' \in BOOLEAN
    BY <1>5, FaultType DEF DownloadFails
  <2> HIDE DEF s
  <2> QED BY <2>1, <2>2, <2>3, LocalStep
<1> QED BY <1>3, <1>4, <1>5

(* A run that writes a file, or an entry for it.                           *)
LEMMA WriteStep ==
  ASSUME CacheInv, NEW r \in Runs, WriteSkymap(r)
  PROVE  CacheInv'
<1>1. RunOK(run[r], skymap, remote) /\ run[r] \in RunState
  BY DEF CacheInv, RunsOK, RunOK
<1> DEFINE file == run[r].skymap_file
           s == [run[r] EXCEPT !.pc = "save", !.path = file]
<1>2. /\ run[r].pc = "write" /\ skymap' = [skymap EXCEPT ![file] = run[r].bytes]
      /\ run' = [run EXCEPT ![r] = s] /\ UNCHANGED <<remoteVars, entry, faultVars>>
  BY DEF WriteSkymap
<1>3. file \in Skymaps /\ run[r].bytes # 0 /\ run[r].bytes \in Nat
  BY <1>1, <1>2 DEF RunOK, RunState
<1>4. /\ skymap' \in [Skymaps -> Nat] /\ skymap'[file] # 0
      /\ \A n \in Skymaps : skymap[n] # 0 => skymap'[n] # 0
  BY <1>2, <1>3 DEF CacheInv, RemoteTypes
<1>5. Grows /\ remote' = remote
  BY <1>2, <1>4 DEF Grows, remoteVars
<1>6. RunOK(s, skymap', remote')
  <2>1. s \in RunState
    BY <1>1 DEF RunState
  <2>2. /\ s.pc = "save" /\ s.path = file /\ s.files = run[r].files
        /\ s.status = run[r].status /\ s.cached = run[r].cached
    BY <1>1 DEF RunState
  <2> QED BY <1>1, <1>4, <1>5, <2>1, <2>2 DEF RunOK
<1> HIDE DEF s
<1>7. RunsOK' /\ DOMAIN run' = Runs /\ run' = [q \in Runs |-> run'[q]]
  BY <1>2, <1>5, <1>6, RunStep DEF RunsOK
<1>8. RemoteTypes'
  BY <1>2, <1>4, <1>7 DEF CacheInv, RemoteTypes, remoteVars, faultVars
<1>9. (entry # None => EntryOK(entry, skymap, remote))'
  BY <1>2, <1>5, EntryStays DEF CacheInv
<1> QED BY <1>7, <1>8, <1>9 DEF CacheInv

(* An entry made by a run is right when the skymap it names is there.      *)
LEMMA EntryMade ==
  ASSUME CacheInv, NEW r \in Runs,
         NEW file \in Skymaps \cup {None}, NEW revision \in Nat,
         NEW path \in Skymaps \cup {None}, path # None => skymap[path] # 0
  PROVE  EntryOK(EntryOf(r, file, revision, path), skymap, remote)
<1>1. /\ run[r].seen \in Nat /\ run[r].files \in Listing /\ run[r].verdict \in Classification
      /\ run[r].judged \in PAstros \cup {None} /\ ListedBy(run[r].files, remote)
  BY DEF CacheInv, RunsOK, RunOK, RunState
<1>2. EntryOf(r, file, revision, path) \in CacheEntry
  BY <1>1 DEF EntryOf, CacheEntry
<1> QED BY <1>1, <1>2 DEF EntryOK, EntryOf

LEMMA RecordStep ==
  ASSUME CacheInv, NEW r \in Runs, Drop(r) \/ Save(r)
  PROVE  CacheInv'
<1>1. RunOK(run[r], skymap, remote) /\ run[r] \in RunState
  BY DEF CacheInv, RunsOK, RunOK
<1>2. /\ UNCHANGED <<remoteVars, skymap, faultVars>> /\ Grows
      /\ remote' = remote /\ skymap' = skymap
  BY DEF Drop, Save, Grows, remoteVars
<1>3. PICK s : run' = [run EXCEPT ![r] = s] /\ RunOK(s, skymap, remote)
  <2>1. CASE Drop(r)
    BY <2>1, IdleOK DEF Drop, CacheInv, RemoteTypes
  <2>2. CASE Save(r)
    <3> DEFINE s == [run[r] EXCEPT !.pc = "row"]
    <3>1. s \in RunState
      BY <1>1 DEF RunState
    <3>2. /\ s.pc = "row" /\ s.path = run[r].path /\ s.files = run[r].files
          /\ s.status = run[r].status /\ s.cached = run[r].cached
      BY <1>1 DEF RunState
    <3>3. RunOK(s, skymap, remote)
      BY <1>1, <3>1, <3>2 DEF RunOK
    <3>4. run' = [run EXCEPT ![r] = s]
      BY <2>2 DEF Save
    <3> QED BY <3>3, <3>4
  <2> QED BY <2>1, <2>2
<1>4. entry' # None => EntryOK(entry', skymap, remote)
  <2>1. CASE Drop(r)
    BY <2>1, EntryMade DEF Drop, CacheInv
  <2>2. CASE Save(r)
    <3>1. /\ run[r].skymap_file \in Skymaps \cup {None} /\ run[r].files \in Listing
          /\ run[r].path \in Skymaps \cup {None}
          /\ run[r].path # None => skymap[run[r].path] # 0
      BY <1>1 DEF RunOK, RunState
    <3>2. latest_revision(run[r].files, run[r].skymap_file) \in Nat
      BY <3>1, RevisionType
    <3>3. CASE entry' = entry
      BY <3>3 DEF CacheInv
    <3>4. CASE entry' # entry
      <4> DEFINE file == run[r].skymap_file
                 revision == latest_revision(run[r].files, run[r].skymap_file)
                 path == run[r].path
      <4>1. entry' = EntryOf(r, file, revision, path)
        BY <2>2, <3>4 DEF Save
      <4>2. /\ file \in Skymaps \cup {None} /\ revision \in Nat
            /\ path \in Skymaps \cup {None}
            /\ path # None => skymap[path] # 0
        BY <3>1, <3>2
      <4> HIDE DEF file, revision, path
      <4>3. EntryOK(EntryOf(r, file, revision, path), skymap, remote)
        BY <4>2, EntryMade
      <4> QED BY <4>1, <4>3
    <3> QED BY <3>3, <3>4
  <2> QED BY <2>1, <2>2
<1>5. RunsOK' /\ DOMAIN run' = Runs /\ run' = [q \in Runs |-> run'[q]]
  BY <1>2, <1>3, RunStep DEF RunsOK
<1>6. RemoteTypes'
  BY <1>2, <1>5 DEF CacheInv, RemoteTypes, remoteVars, faultVars
<1> QED BY <1>2, <1>4, <1>5, <1>6 DEF CacheInv

(* Whatever happens, the invariant holds on.                               *)
LEMMA CacheStep == CacheInv /\ [Next]_vars => CacheInv'
<1> SUFFICES ASSUME CacheInv, [Next]_vars PROVE CacheInv'
  OBVIOUS
<1>1. CASE \/ MoveField \/ Settle
           \/ (\E n \in Skymaps : UploadSkymap(n)) \/ (\E n \in PAstros : UploadPAstro(n))
  BY <1>1, RemoteStep
<1>2. CASE DamageEntry
  BY <1>2, FaultType DEF DamageEntry, CacheInv, RemoteTypes, RunsOK, remoteVars
<1>3. ASSUME NEW r \in Runs, Scan(r) \/ Step(r) \/ StepFails(r)
      PROVE  CacheInv'
  BY <1>3, ReadStep, ClassifyStep, SkymapStep, WriteStep, RecordStep DEF Step, StepFails
<1>4. CASE UNCHANGED vars
  BY <1>4 DEF vars, remoteVars, cacheVars, faultVars, CacheInv, RemoteTypes, RunsOK
<1> QED BY <1>1, <1>2, <1>3, <1>4 DEF Next

-----------------------------------------------------------------------------
(* The theorems.                                                           *)

(* Every variable of the cache, of GraceDB and of the runs keeps its type  *)
(* (the loop body of fetch_gracedb_superevents and GraceDbCache).          *)
THEOREM CacheTypeCorrect == Spec => []TypeOK
<1>1. Init => CacheInv
  BY CacheInit
<1>2. CacheInv /\ [Next]_vars => CacheInv'
  BY CacheStep
<1>3. CacheInv => TypeOK
  BY InvIsEnough
<1> QED BY <1>1, <1>2, <1>3, PTL DEF Spec

(* However many runs share the cache and wherever they are killed, fail or *)
(* overtake each other, an entry that names a skymap names one that is     *)
(* there: it is renamed into place (atomic_write_bytes) before the entry   *)
(* is written, nothing takes it away, and a download that fails leaves no  *)
(* path to record.                                                         *)
THEOREM CacheRecordsSkymaps == Spec => []RecordedSkymapExists
<1>1. Init => CacheInv
  BY CacheInit
<1>2. CacheInv /\ [Next]_vars => CacheInv'
  BY CacheStep
<1>3. CacheInv => RecordedSkymapExists
  BY InvIsEnough
<1> QED BY <1>1, <1>2, <1>3, PTL DEF Spec

-----------------------------------------------------------------------------
(* Scans that follow one another.                                          *)

(* No run looks at the superevent while another one does.                  *)
OneAtATime == \A q, r \in Runs : run[q].pc # "idle" /\ run[r].pc # "idle" => q = r

Precedes(l, m) == \A n \in Skymaps : l.skymap[n] <= m.skymap[n]

(* An entry names the best skymap of its listing, and the copy is no older *)
(* than the listing has it; or it names none.                              *)
EntryHeld(e, sk) ==
  /\ e.skymap_relpath = e.skymap_file
  /\ e.skymap_file = None => e.skymap_revision = 0
  /\ e.skymap_file # None =>
       /\ e.skymap_file = choose_skymap_file(e.files)
       /\ e.skymap_revision = e.files.skymap[e.skymap_file]
       /\ sk[e.skymap_file] >= e.skymap_revision

(* What is on disk was listed when the entry was made, or is about to be   *)
(* recorded.                                                               *)
SkymapsListed ==
  \A n \in Skymaps : skymap[n] # 0 =>
    \/ entry # None /\ entry.files.skymap[n] # 0
    \/ \E r \in Runs : run[r].pc = "save" /\ run[r].path = n

(* How far the entry e and the skymaps sk on disk, where gone tells that   *)
(* the disk has been disturbed, are those that the run s went by.          *)
Follows(s, e, sk, rm, gone) ==
  /\ Precedes(s.files, rm) /\ (s.cached # None => Precedes(s.cached.files, rm))
  /\ s.status = "hit" => s.cached.fingerprint = s.seen
  /\ s.pc \notin {"idle", "entry", "row"} /\ s.status # "forced" =>
       s.cached = e \/ (gone /\ e = None)
  /\ s.pc \notin {"idle", "entry", "files"} =>
       /\ s.status = "hit" => s.files = s.cached.files
       /\ e # None => Precedes(e.files, s.files)
  /\ s.pc \in {"judge", "download", "write", "save"} /\ s.status = "hit" =>
       s.verdict = s.cached.classification
  /\ s.pc \in {"download", "write", "save", "row"} =>
       s.verdict = "passes" /\ s.skymap_file = choose_skymap_file(s.files)
  /\ s.pc = "write" => s.bytes >= s.files.skymap[s.skymap_file]
  /\ s.pc \in {"save", "row"} /\ ~gone =>
       /\ s.path = s.skymap_file
       /\ s.path # None => sk[s.path] >= s.files.skymap[s.path]
  /\ s.pc = "row" =>
       \/ gone /\ e = None
       \/ /\ e # None /\ e.fingerprint = s.seen
          /\ e.classification = "passes" /\ e.files = s.files

SerialInv ==
  /\ entry # None => Precedes(entry.files, remote)
  /\ ~disturbed => (entry # None => EntryHeld(entry, skymap)) /\ SkymapsListed
  /\ \A r \in Runs : Follows(run[r], entry, skymap, remote, disturbed)

-----------------------------------------------------------------------------
(* What serial scans keep.                                                 *)

LEMMA PrecedesIsOrder ==
  ASSUME NEW l \in Listing, NEW m \in Listing, NEW k \in Listing
  PROVE  /\ Precedes(l, l) /\ Precedes(Unlisted, l)
         /\ Precedes(l, m) /\ Precedes(m, k) => Precedes(l, k)
<1>1. \A n \in Skymaps : l.skymap[n] \in Nat /\ m.skymap[n] \in Nat /\ k.skymap[n] \in Nat
  BY DEF Listing
<1>2. \A n \in Skymaps : Unlisted.skymap[n] = 0
  BY DEF Unlisted
<1> QED BY <1>1, <1>2 DEF Precedes

(* The better skymap of a later listing was not in the earlier one.        *)
LEMMA BetterIsNew ==
  ASSUME NEW l \in Listing, NEW m \in Listing, Precedes(l, m),
         choose_skymap_file(l) # None, choose_skymap_file(m) # None,
         choose_skymap_file(m) # choose_skymap_file(l)
  PROVE  l.skymap[choose_skymap_file(m)] = 0
<1> DEFINE listed(k) == {n \in Skymaps : k.skymap[n] # 0}
           best(k) == CHOOSE n \in listed(k) :
                        \A x \in listed(k) : skymap_priority(n) <= skymap_priority(x)
<1>1. ASSUME NEW k \in Listing, choose_skymap_file(k) # None
      PROVE  /\ choose_skymap_file(k) \in listed(k)
             /\ \A x \in listed(k) : skymap_priority(choose_skymap_file(k)) <= skymap_priority(x)
  <2>1. listed(k) # {} /\ choose_skymap_file(k) = best(k)
    BY <1>1 DEF choose_skymap_file
  <2>2. \E n \in listed(k) : \A x \in listed(k) : skymap_priority(n) <= skymap_priority(x)
    BY <2>1, BestSkymap
  <2>3. best(k) \in listed(k) /\ \A x \in listed(k) : skymap_priority(best(k)) <= skymap_priority(x)
    BY <2>2
  <2> QED BY <2>1, <2>3
<1>2. listed(l) \subseteq listed(m)
  <2>1. \A n \in Skymaps : l.skymap[n] \in Nat /\ m.skymap[n] \in Nat
    BY DEF Listing
  <2> QED BY <2>1 DEF Precedes
<1> DEFINE a == choose_skymap_file(l)
           b == choose_skymap_file(m)
<1>3. a \in Skymaps /\ b \in Skymaps /\ a \in listed(l) /\ b \in listed(m)
  BY <1>1
<1>4. ASSUME b \in listed(l) PROVE FALSE
  <2>1. skymap_priority(a) <= skymap_priority(b) /\ skymap_priority(b) <= skymap_priority(a)
    BY <1>1, <1>2, <1>3, <1>4
  <2>2. skymap_priority(a) = skymap_priority(b)
    BY <1>3, <2>1, RankType
  <2> QED BY <1>3, <2>2, CacheAssumption
<1> QED BY <1>3, <1>4

(* A run that is not looking at the superevent follows whatever there is.  *)
LEMMA IdleFollows ==
  ASSUME NEW s, s.pc = "idle", NEW e, NEW sk, NEW rm, NEW gone, Follows(s, e, sk, rm, gone),
         NEW f, NEW ks, NEW also
  PROVE  Follows(s, f, ks, rm, also)
BY DEF Follows

LEMMA IdleItself ==
  ASSUME NEW e, NEW sk, NEW rm \in Listing, NEW gone
  PROVE  Follows(Idle, e, sk, rm, gone)
<1>1. /\ Idle.pc = "idle" /\ Idle.cached = None /\ Idle.status = "miss" /\ Idle.files = Unlisted
  BY DEF Idle
<1> QED BY <1>1, PrecedesIsOrder DEF Follows

(* GraceDB only adds, and an entry that is taken away counts as disturbed. *)
LEMMA FollowsOn ==
  ASSUME NEW s \in RunState, NEW e, NEW sk, NEW rm \in Listing, NEW gone,
         Follows(s, e, sk, rm, gone), NEW to \in Listing, Precedes(rm, to)
  PROVE  Follows(s, e, sk, to, gone)
<1>1. s.files \in Listing /\ (s.cached # None => s.cached.files \in Listing)
  BY DEF RunState, CacheEntry
<1>2. Precedes(s.files, to) /\ (s.cached # None => Precedes(s.cached.files, to))
  BY <1>1, PrecedesIsOrder DEF Follows
<1> QED BY <1>2 DEF Follows

LEMMA FollowsDamaged ==
  ASSUME NEW s, NEW e, NEW sk, NEW rm, NEW gone, Follows(s, e, sk, rm, gone)
  PROVE  Follows(s, None, sk, rm, TRUE)
BY DEF Follows

(* While a run looks at the superevent, no other does.                     *)
LEMMA Alone ==
  ASSUME CacheInv, OneAtATime, OneAtATime', NEW r \in Runs, NEW s,
         run' = [run EXCEPT ![r] = s], run[r].pc # "idle" \/ s.pc # "idle",
         NEW q \in Runs, q # r
  PROVE  run'[q] = run[q] /\ run[q].pc = "idle"
<1>1. run'[r] = s /\ run'[q] = run[q]
  BY DEF CacheInv, RemoteTypes
<1> QED BY <1>1 DEF OneAtATime

(* A step that takes a run to a state that follows what is on disk.        *)
LEMMA SerialStep ==
  ASSUME CacheInv, OneAtATime, OneAtATime', SerialInv, NEW r \in Runs, NEW s,
         run' = [run EXCEPT ![r] = s], run[r].pc # "idle" \/ s.pc # "idle",
         UNCHANGED remote,
         Follows(s, entry', skymap', remote, disturbed'),
         entry' # None => Precedes(entry'.files, remote),
         ~disturbed' => (entry' # None => EntryHeld(entry', skymap')) /\ SkymapsListed'
  PROVE  SerialInv'
<1>1. ASSUME NEW q \in Runs PROVE Follows(run'[q], entry', skymap', remote', disturbed')
  <2>1. CASE q = r
    BY <2>1 DEF CacheInv, RemoteTypes
  <2>2. CASE q # r
    <3>1. run'[q] = run[q] /\ run[q].pc = "idle"
      BY <2>2, Alone
    <3>2. Follows(run[q], entry, skymap, remote, disturbed)
      BY DEF SerialInv
    <3> QED BY <3>1, <3>2, IdleFollows
  <2> QED BY <2>1, <2>2
<1> QED BY <1>1 DEF SerialInv

(* The same of a step that leaves the disk alone: what the run was about   *)
(* to record it still is, or the disk is disturbed.                        *)
LEMMA SerialLocal ==
  ASSUME CacheInv, OneAtATime, OneAtATime', SerialInv, NEW r \in Runs, NEW s,
         run' = [run EXCEPT ![r] = s], run[r].pc # "idle" \/ s.pc # "idle",
         UNCHANGED <<remoteVars, cacheVars>>, disturbed' = disturbed \/ disturbed' = TRUE,
         run[r].pc # "save" \/ disturbed',
         Follows(s, entry, skymap, remote, disturbed')
  PROVE  SerialInv'
<1>1. UNCHANGED <<remote, entry, skymap>>
  BY DEF remoteVars, cacheVars
<1>2. entry' # None => Precedes(entry'.files, remote)
  BY <1>1 DEF SerialInv
<1>3. ASSUME ~disturbed' PROVE (entry' # None => EntryHeld(entry', skymap')) /\ SkymapsListed'
  <2>1. ~disturbed /\ run[r].pc # "save"
    BY <1>3
  <2>2. ASSUME NEW q \in Runs, run[q].pc = "save" PROVE run'[q] = run[q]
    BY <2>1, <2>2 DEF CacheInv, RemoteTypes
  <2> QED BY <1>1, <2>1, <2>2 DEF SerialInv, SkymapsListed
<1> QED BY <1>1, <1>2, <1>3, SerialStep

-----------------------------------------------------------------------------
(* The steps of serial scans.                                              *)

LEMMA SerialRead ==
  ASSUME CacheInv, OneAtATime, OneAtATime', SerialInv, NEW r \in Runs,
         \/ Scan(r) \/ ReadEntry(r) \/ ListFiles(r) \/ ListFails(r) \/ AppendRow(r) \/ Crash(r)
  PROVE  SerialInv'
<1>1. /\ run[r] \in RunState /\ remote \in Listing /\ disturbed \in BOOLEAN
      /\ run[r].status = "hit" => run[r].cached # None
      /\ Follows(run[r], entry, skymap, remote, disturbed)
      /\ entry # None => entry \in CacheEntry /\ entry.files \in Listing
  BY DEF CacheInv, RemoteTypes, RunsOK, RunOK, EntryOK, CacheEntry, SerialInv
<1>2. Idle \in RunState
  BY IdleOK DEF CacheInv, RemoteTypes, RunOK
<1>3. CASE Scan(r)
  <2> DEFINE s == [Idle EXCEPT !.pc = "entry", !.seen = superevent_fingerprint,
                               !.pipeline = preferred, !.old = settled]
  <2>1. /\ run' = [run EXCEPT ![r] = s] /\ run[r].pc = "idle"
        /\ UNCHANGED <<remoteVars, cacheVars>> /\ disturbed' = disturbed
    BY <1>3 DEF Scan, faultVars
  <2>2. s.pc = "entry" /\ s.status = "miss" /\ s.files = Unlisted /\ s.cached = None
    BY DEF Idle
  <2> HIDE DEF s
  <2>3. Follows(s, entry, skymap, remote, disturbed')
    BY <1>1, <2>2, PrecedesIsOrder DEF Follows
  <2> QED BY <2>1, <2>2, <2>3, SerialLocal
<1>4. CASE ReadEntry(r)
  <2>1. run[r].pc = "entry" /\ UNCHANGED <<remoteVars, cacheVars>> /\ disturbed' = disturbed
    BY <1>4 DEF ReadEntry, faultVars
  <2>2. CASE run' = [run EXCEPT ![r] = [run[r] EXCEPT !.pc = "files", !.cached = entry,
                                                      !.status = StatusOf(entry, r)]]
    <3> DEFINE status == StatusOf(entry, r)
               s == [run[r] EXCEPT !.pc = "files", !.cached = entry, !.status = status]
    <3>1. status = "hit" => entry.fingerprint = run[r].seen
      BY DEF StatusOf
    <3>2. run' = [run EXCEPT ![r] = s]
      BY <2>2
    <3> HIDE DEF status
    <3>3. /\ s.pc = "files" /\ s.cached = entry /\ s.status = status
          /\ s.files = run[r].files /\ s.seen = run[r].seen
      BY <1>1 DEF RunState
    <3> HIDE DEF s
    <3>4. Follows(s, entry, skymap, remote, disturbed')
      BY <1>1, <2>1, <3>1, <3>3 DEF Follows, SerialInv
    <3> QED BY <2>1, <3>2, <3>3, <3>4, SerialLocal
  <2>3. CASE run' = [run EXCEPT ![r] = [run[r] EXCEPT !.pc = "files", !.status = "forced"]]
    <3> DEFINE s == [run[r] EXCEPT !.pc = "files", !.status = "forced"]
    <3>1. /\ s.pc = "files" /\ s.status = "forced" /\ s.cached = run[r].cached
          /\ s.files = run[r].files
      BY <1>1 DEF RunState
    <3>2. run' = [run EXCEPT ![r] = s]
      BY <2>3
    <3> HIDE DEF s
    <3>3. Follows(s, entry, skymap, remote, disturbed')
      BY <1>1, <2>1, <3>1 DEF Follows
    <3> QED BY <2>1, <3>1, <3>2, <3>3, SerialLocal
  <2> QED BY <1>4, <2>2, <2>3 DEF ReadEntry
<1>5. CASE ListFiles(r)
  <2> DEFINE l == IF run[r].status = "hit" THEN run[r].cached.files ELSE remote
             s == [run[r] EXCEPT !.pc = "classify", !.files = l]
  <2>1. /\ run[r].pc = "files" /\ run' = [run EXCEPT ![r] = s]
        /\ UNCHANGED <<remoteVars, cacheVars>> /\ disturbed' = disturbed
    BY <1>5 DEF ListFiles, faultVars
  <2>2. Precedes(l, remote) /\ (entry # None => Precedes(entry.files, l))
    <3>1. CASE run[r].status = "hit"
      <4>1. run[r].cached # None /\ Precedes(run[r].cached.files, remote)
        BY <1>1, <3>1 DEF Follows
      <4>2. entry # None => run[r].cached = entry
        BY <1>1, <2>1, <3>1 DEF Follows
      <4> QED BY <1>1, <3>1, <4>1, <4>2, PrecedesIsOrder
    <3>2. CASE run[r].status # "hit"
      BY <1>1, <3>2, PrecedesIsOrder DEF SerialInv
    <3> QED BY <3>1, <3>2
  <2>3. /\ s.pc = "classify" /\ s.files = l /\ s.status = run[r].status
        /\ s.cached = run[r].cached /\ s.seen = run[r].seen
    BY <1>1 DEF RunState
  <2> HIDE DEF s
  <2>4. Follows(s, entry, skymap, remote, disturbed')
    <3>1. s.status = "hit" => s.files = s.cached.files
      BY <2>3
    <3> HIDE DEF l
    <3> QED BY <1>1, <2>1, <2>2, <2>3, <3>1 DEF Follows
  <2> QED BY <2>1, <2>3, <2>4, SerialLocal
<1>6. CASE ListFails(r) \/ AppendRow(r) \/ Crash(r)
  <2>1. /\ run' = [run EXCEPT ![r] = Idle] /\ run[r].pc # "idle"
        /\ UNCHANGED <<remoteVars, cacheVars>>
    BY <1>6 DEF ListFails, AppendRow, Crash
  <2>2. (disturbed' = disturbed \/ disturbed' = TRUE) /\ (run[r].pc # "save" \/ disturbed')
    BY <1>1, <1>6 DEF ListFails, AppendRow, Crash, Fault, faultVars
  <2>3. Follows(Idle, entry, skymap, remote, disturbed')
    BY <1>1, IdleItself
  <2> QED BY <2>1, <2>2, <2>3, SerialLocal
<1> QED BY <1>3, <1>4, <1>5, <1>6

LEMMA SerialClassify ==
  ASSUME CacheInv, OneAtATime, OneAtATime', SerialInv, NEW r \in Runs,
         Reuse(r) \/ Classify(r) \/ ClassifyFails(r)
  PROVE  SerialInv'
<1>1. /\ run[r] \in RunState /\ disturbed \in BOOLEAN
      /\ Follows(run[r], entry, skymap, remote, disturbed)
  BY DEF CacheInv, RemoteTypes, RunsOK, RunOK, SerialInv
<1>2. PICK verdict, file : /\ Classified(r, verdict, file)
                           /\ run[r].status = "hit" => verdict = run[r].cached.classification
  <2>1. CASE Reuse(r)
    BY <2>1 DEF Reuse
  <2>2. CASE Classify(r) \/ ClassifyFails(r)
    BY <2>2 DEF Classify, ClassifyFails, Reusable
  <2> QED BY <2>1, <2>2
<1>3. run[r].pc = "classify" /\ UNCHANGED <<remoteVars, cacheVars>> /\ disturbed' = disturbed
  BY <1>1 DEF Reuse, Classify, ClassifyFails, Fault, faultVars
<1> DEFINE s == [run[r] EXCEPT !.pc = "judge", !.verdict = verdict, !.judged = file]
<1>4. run' = [run EXCEPT ![r] = s]
  BY <1>2 DEF Classified
<1>5. /\ s.pc = "judge" /\ s.verdict = verdict /\ s.files = run[r].files /\ s.seen = run[r].seen
      /\ s.status = run[r].status /\ s.cached = run[r].cached
  BY <1>1 DEF RunState
<1> HIDE DEF s
<1>6. Follows(s, entry, skymap, remote, disturbed')
  BY <1>1, <1>2, <1>3, <1>5 DEF Follows
<1> QED BY <1>3, <1>4, <1>5, <1>6, SerialLocal

(* A copy that is kept is as new as the listing: when the map is another   *)
(* than the recorded one, it was not listed then, and is not on disk.      *)
LEMMA KeptIsHeld ==
  ASSUME CacheInv, OneAtATime, SerialInv, ~disturbed, NEW r \in Runs, run[r].pc = "judge",
         NEW file \in Skymaps, file = choose_skymap_file(run[r].files), ~MustDownload(r, file)
  PROVE  skymap[file] >= run[r].files.skymap[file]
<1>0. None \notin Skymaps
  BY CacheAssumption
<1>1. /\ run[r].files \in Listing /\ file # None /\ run[r].files.skymap[file] # 0
      /\ Follows(run[r], entry, skymap, remote, disturbed)
      /\ entry # None => entry.files \in Listing /\ EntryHeld(entry, skymap)
  BY <1>0, ChosenSkymap DEF CacheInv, RunsOK, RunOK, RunState, EntryOK, CacheEntry, SerialInv
<1>2. run[r].status # "forced" /\ ~Superseded(r, file) /\ skymap[file] # 0
  BY DEF MustDownload
<1>3. run[r].cached = entry
  BY <1>1, <1>2 DEF Follows
<1>4. entry # None /\ entry.files.skymap[file] # 0
  <2>1. ~ \E q \in Runs : run[q].pc = "save" /\ run[q].path = file
    BY DEF OneAtATime
  <2> QED BY <1>2, <2>1 DEF SerialInv, SkymapsListed
<1>5. entry.skymap_revision = run[r].files.skymap[file]
  BY <1>1, <1>2, <1>3, <1>4 DEF Superseded, latest_revision
<1>6. entry.skymap_file # None
  BY <1>1, <1>4, <1>5 DEF EntryHeld
<1>7. entry.skymap_file = file
  <2>1. Precedes(entry.files, run[r].files)
    BY <1>1, <1>4 DEF Follows
  <2>2. entry.skymap_file = choose_skymap_file(entry.files)
    BY <1>1, <1>4, <1>6 DEF EntryHeld
  <2> QED BY <1>1, <1>4, <1>6, <2>1, <2>2, BetterIsNew
<1> QED BY <1>1, <1>4, <1>5, <1>6, <1>7 DEF EntryHeld

LEMMA SerialSkymap ==
  ASSUME CacheInv, OneAtATime, OneAtATime', SerialInv, NEW r \in Runs,
         ChooseSkymap(r) \/ Download(r) \/ DownloadFails(r)
  PROVE  SerialInv'
<1>1. /\ run[r] \in RunState /\ remote \in Listing /\ disturbed \in BOOLEAN
      /\ Follows(run[r], entry, skymap, remote, disturbed)
  BY DEF CacheInv, RemoteTypes, RunsOK, RunOK, SerialInv
<1>2. CASE ChooseSkymap(r)
  <2> DEFINE file == choose_skymap_file(run[r].files)
             s(pc, path) == [run[r] EXCEPT !.pc = pc, !.skymap_file = file, !.path = path]
  <2>1. /\ file \in Skymaps \cup {None} /\ None \notin Skymaps
    BY <1>1, ChosenSkymap, CacheAssumption DEF RunState
  <2>2. \/ file = None /\ run' = [run EXCEPT ![r] = s("save", None)]
        \/ file # None /\ run' = [run EXCEPT ![r] = s("download", None)]
        \/ file # None /\ ~MustDownload(r, file) /\ run' = [run EXCEPT ![r] = s("save", file)]
    BY <1>2 DEF ChooseSkymap
  <2>3. /\ run[r].pc = "judge" /\ run[r].verdict = "passes"
        /\ UNCHANGED <<remoteVars, cacheVars>> /\ disturbed' = disturbed
    BY <1>2 DEF ChooseSkymap, faultVars
  <2>4. file # None /\ ~MustDownload(r, file) /\ ~disturbed => skymap[file] >= run[r].files.skymap[file]
    BY <2>1, <2>3, KeptIsHeld
  <2>5. ASSUME NEW pc \in {"save", "download"}, NEW path,
               pc = "save" => path = file,
               pc = "save" /\ path # None /\ ~disturbed =>
                 skymap[path] >= run[r].files.skymap[path]
        PROVE  Follows(s(pc, path), entry, skymap, remote, disturbed') /\ s(pc, path).pc # "idle"
    <3> DEFINE after == s(pc, path)
    <3>1. /\ after.pc = pc /\ after.path = path /\ after.skymap_file = file
          /\ after.files = run[r].files /\ after.seen = run[r].seen
          /\ after.status = run[r].status /\ after.cached = run[r].cached
          /\ after.verdict = run[r].verdict
      BY <1>1 DEF RunState
    <3>2. after.skymap_file = choose_skymap_file(after.files)
      BY <3>1
    <3> HIDE DEF after, file
    <3>3. Follows(after, entry, skymap, remote, disturbed') /\ after.pc # "idle"
      BY <1>1, <2>3, <2>5, <3>1, <3>2 DEF Follows
    <3> QED BY <3>3 DEF after, file
  <2> HIDE DEF file
  <2>6. PICK after : /\ run' = [run EXCEPT ![r] = after] /\ after.pc # "idle"
                     /\ Follows(after, entry, skymap, remote, disturbed')
    BY <2>2, <2>4, <2>5
  <2> QED BY <2>3, <2>6, SerialLocal
<1>3. CASE Download(r)
  <2> DEFINE bytes == remote.skymap[run[r].skymap_file]
             s == [run[r] EXCEPT !.pc = "write", !.bytes = bytes]
  <2>1. /\ run[r].pc = "download" /\ run' = [run EXCEPT ![r] = s]
        /\ UNCHANGED <<remoteVars, cacheVars>> /\ disturbed' = disturbed
    BY <1>3 DEF Download, faultVars
  <2>2. run[r].skymap_file \in Skymaps
    BY <2>1 DEF CacheInv, RunsOK, RunOK, RunState
  <2>3. bytes >= run[r].files.skymap[run[r].skymap_file]
    <3>1. Precedes(run[r].files, remote) /\ run[r].files \in Listing
      BY <1>1 DEF Follows, RunState
    <3> QED BY <1>1, <2>2, <3>1 DEF Precedes, Listing
  <2> HIDE DEF bytes
  <2>4. /\ s.pc = "write" /\ s.bytes = bytes /\ s.files = run[r].files /\ s.seen = run[r].seen
        /\ s.status = run[r].status /\ s.cached = run[r].cached
        /\ s.verdict = run[r].verdict /\ s.skymap_file = run[r].skymap_file
    BY <1>1 DEF RunState
  <2> HIDE DEF s
  <2>5. Follows(s, entry, skymap, remote, disturbed')
    BY <1>1, <2>1, <2>3, <2>4 DEF Follows
  <2> QED BY <2>1, <2>4, <2>5, SerialLocal
<1>4. CASE DownloadFails(r)
  <2> DEFINE s == [run[r] EXCEPT !.pc = "save", !.path = None]
  <2>1. /\ run[r].pc \in {"download", "write"} /\ run' = [run EXCEPT ![r] = s]
        /\ UNCHANGED <<remoteVars, cacheVars>> /\ disturbed' = TRUE
    BY <1>1, <1>4 DEF DownloadFails, Fault
  <2>2. /\ s.pc = "save" /\ s.files = run[r].files /\ s.seen = run[r].seen
        /\ s.status = run[r].status /\ s.cached = run[r].cached
        /\ s.verdict = run[r].verdict /\ s.skymap_file = run[r].skymap_file
    BY <1>1 DEF RunState
  <2> HIDE DEF s
  <2>3. Follows(s, entry, skymap, remote, disturbed')
    BY <1>1, <2>1, <2>2 DEF Follows
  <2> QED BY <2>1, <2>2, <2>3, SerialLocal
<1> QED BY <1>2, <1>3, <1>4

LEMMA SerialWrite ==
  ASSUME CacheInv, OneAtATime, OneAtATime', SerialInv, NEW r \in Runs, WriteSkymap(r)
  PROVE  SerialInv'
<1> DEFINE file == run[r].skymap_file
           s == [run[r] EXCEPT !.pc = "save", !.path = file]
<1>1. /\ run[r] \in RunState /\ run[r].pc = "write" /\ skymap \in [Skymaps -> Nat]
      /\ Follows(run[r], entry, skymap, remote, disturbed)
      /\ skymap' = [skymap EXCEPT ![file] = run[r].bytes]
      /\ run' = [run EXCEPT ![r] = s] /\ UNCHANGED <<remote, entry, disturbed>>
  BY DEF CacheInv, RemoteTypes, RunsOK, RunOK, SerialInv, WriteSkymap, remoteVars, faultVars
<1>2. /\ file \in Skymaps /\ run[r].bytes \in Nat /\ run[r].files \in Listing
      /\ run[r].bytes >= run[r].files.skymap[file] /\ None \notin Skymaps
      /\ entry # None => entry.files \in Listing
  BY <1>1, CacheAssumption DEF CacheInv, RunsOK, RunOK, RunState, EntryOK, CacheEntry, Follows
<1>3. skymap'[file] = run[r].bytes /\ \A n \in Skymaps \ {file} : skymap'[n] = skymap[n]
  BY <1>1, <1>2
<1>4. /\ s.pc = "save" /\ s.path = file /\ s.skymap_file = file /\ s.files = run[r].files
      /\ s.seen = run[r].seen /\ s.status = run[r].status /\ s.cached = run[r].cached
      /\ s.verdict = run[r].verdict
  BY <1>1 DEF RunState
<1> HIDE DEF s
<1>5. Follows(s, entry', skymap', remote, disturbed')
  BY <1>1, <1>2, <1>3, <1>4 DEF Follows
<1>6. ASSUME ~disturbed', entry' # None PROVE EntryHeld(entry', skymap')
  <2>1. EntryHeld(entry, skymap) /\ entry # None /\ entry.skymap_file \in Skymaps \cup {None}
    BY <1>1, <1>6 DEF SerialInv, CacheInv, EntryOK, CacheEntry
  <2>2. Precedes(entry.files, run[r].files)
    BY <1>1, <2>1 DEF Follows
  <2>3. entry.skymap_file = file => skymap'[file] >= entry.skymap_revision
    <3>1. /\ entry.skymap_file = file => entry.skymap_revision = entry.files.skymap[file]
          /\ entry.files.skymap[file] \in Nat /\ run[r].files.skymap[file] \in Nat
      BY <1>2, <2>1 DEF EntryHeld, Listing
    <3> QED BY <1>2, <1>3, <2>2, <3>1 DEF Precedes
  <2> QED BY <1>1, <1>3, <2>1, <2>3 DEF EntryHeld
<1>7. ASSUME ~disturbed' PROVE SkymapsListed'
  <2>1. run'[r].pc = "save" /\ run'[r].path = file
    BY <1>1, <1>4 DEF CacheInv, RemoteTypes
  <2>2. \A q \in Runs : run[q].pc # "save"
    BY <1>1 DEF OneAtATime
  <2>3. \A n \in Skymaps : skymap[n] # 0 => entry # None /\ entry.files.skymap[n] # 0
    BY <1>1, <1>7, <2>2 DEF SerialInv, SkymapsListed
  <2> QED BY <1>1, <1>3, <2>1, <2>3 DEF SkymapsListed
<1>8. entry' # None => Precedes(entry'.files, remote)
  BY <1>1 DEF SerialInv
<1> QED BY <1>1, <1>5, <1>6, <1>7, <1>8, SerialStep

LEMMA SerialRecord ==
  ASSUME CacheInv, OneAtATime, OneAtATime', SerialInv, NEW r \in Runs, Drop(r) \/ Save(r)
  PROVE  SerialInv'
<1>1. /\ run[r] \in RunState /\ remote \in Listing /\ disturbed \in BOOLEAN
      /\ run[r].status = "hit" => run[r].cached # None
      /\ Follows(run[r], entry, skymap, remote, disturbed)
      /\ run[r].files \in Listing /\ Precedes(run[r].files, remote)
      /\ entry # None => entry.files \in Listing
  BY DEF CacheInv, RemoteTypes, RunsOK, RunOK, RunState, EntryOK, CacheEntry, SerialInv, Follows
<1>2. /\ UNCHANGED <<remote, skymap, disturbed>> /\ run[r].pc \in {"judge", "save"}
  BY DEF Drop, Save, remoteVars, faultVars
<1>3. ASSUME NEW file \in Skymaps \cup {None}, NEW revision \in Nat,
             NEW path \in Skymaps \cup {None}, entry' = EntryOf(r, file, revision, path)
      PROVE  /\ entry' # None /\ entry'.files = run[r].files /\ entry'.fingerprint = run[r].seen
             /\ entry'.classification = run[r].verdict /\ entry'.skymap_file = file
             /\ entry'.skymap_revision = revision /\ entry'.skymap_relpath = path
  <2>1. EntryOf(r, file, revision, path) \in CacheEntry
    BY <1>1 DEF EntryOf, CacheEntry, RunState
  <2>2. entry' # None
    BY <1>3, <2>1, EntryAssumption
  <2> QED BY <1>3, <2>2 DEF EntryOf
<1>4. CASE Drop(r)
  <2>1. /\ run[r].pc = "judge" /\ run' = [run EXCEPT ![r] = Idle]
        /\ \/ run[r].status = "hit" /\ entry' = entry
           \/ run[r].status # "hit" /\ entry' = EntryOf(r, None, 0, None)
    BY <1>4 DEF Drop
  <2>2. Follows(Idle, entry', skymap', remote, disturbed')
    BY <1>1, IdleItself
  <2>3. \A q \in Runs : run[q].pc # "save"
    BY <2>1 DEF OneAtATime
  <2>4. CASE entry' = entry
    <3>1. ~disturbed' => (entry' # None => EntryHeld(entry', skymap')) /\ SkymapsListed'
      BY <1>2, <2>3, <2>4 DEF SerialInv, SkymapsListed
    <3>2. entry' # None => Precedes(entry'.files, remote)
      BY <2>4 DEF SerialInv
    <3> QED BY <1>2, <2>1, <2>2, <3>1, <3>2, SerialStep
  <2>5. CASE entry' = EntryOf(r, None, 0, None)
    <3>1. /\ entry' # None /\ entry'.files = run[r].files /\ entry'.skymap_file = None
          /\ entry'.skymap_revision = 0 /\ entry'.skymap_relpath = None
      BY <1>3, <2>5
    <3>2. ASSUME ~disturbed' PROVE EntryHeld(entry', skymap') /\ SkymapsListed'
      <4>1. ASSUME NEW n \in Skymaps, skymap[n] # 0 PROVE entry'.files.skymap[n] # 0
        <5>1. entry # None /\ entry.files.skymap[n] # 0
          BY <1>2, <2>3, <3>2, <4>1 DEF SerialInv, SkymapsListed
        <5>2. Precedes(entry.files, run[r].files)
          BY <1>1, <2>1, <5>1 DEF Follows
        <5> QED BY <1>1, <3>1, <5>1, <5>2 DEF Precedes, Listing
      <4> QED BY <1>2, <3>1, <4>1 DEF EntryHeld, SkymapsListed
    <3>3. entry' # None => Precedes(entry'.files, remote)
      BY <1>1, <3>1
    <3> QED BY <1>2, <2>1, <2>2, <3>2, <3>3, SerialStep
  <2> QED BY <2>1, <2>4, <2>5
<1>5. CASE Save(r)
  <2> DEFINE file == run[r].skymap_file
             revision == latest_revision(run[r].files, file)
             path == run[r].path
             s == [run[r] EXCEPT !.pc = "row"]
  <2>1. /\ run[r].pc = "save" /\ run' = [run EXCEPT ![r] = s]
        /\ \/ entry' = EntryOf(r, file, revision, path)
           \/ /\ entry' = entry /\ run[r].status = "hit"
              /\ path = run[r].cached.skymap_relpath
    BY <1>5 DEF Save
  <2>2. /\ file \in Skymaps \cup {None} /\ revision \in Nat /\ path \in Skymaps \cup {None}
        /\ None \notin Skymaps
    BY <1>1, RevisionType, CacheAssumption DEF RunState
  <2>3. /\ s.pc = "row" /\ s.path = path /\ s.skymap_file = file /\ s.files = run[r].files
        /\ s.seen = run[r].seen /\ s.status = run[r].status /\ s.cached = run[r].cached
        /\ s.verdict = run[r].verdict
    BY <1>1 DEF RunState
  <2>4. /\ run[r].verdict = "passes" /\ file = choose_skymap_file(run[r].files)
        /\ ~disturbed => /\ path = file
                         /\ path # None => skymap[path] >= run[r].files.skymap[path]
    BY <1>1, <2>1 DEF Follows
  <2>5. revision = IF file = None THEN 0 ELSE run[r].files.skymap[file]
    BY DEF latest_revision
  <2>6. ASSUME NEW n \in Skymaps, ~disturbed, skymap[n] # 0
        PROVE  run[r].files.skymap[n] # 0
    <3>1. CASE path = n
      <4>1. n = choose_skymap_file(run[r].files) /\ n # None
        BY <2>2, <2>4, <2>6, <3>1
      <4> QED BY <1>1, <4>1, ChosenSkymap
    <3>2. CASE path # n
      <4>1. ~ \E q \in Runs : run[q].pc = "save" /\ run[q].path = n
        BY <2>1, <3>2 DEF OneAtATime
      <4>2. entry # None /\ entry.files.skymap[n] # 0
        BY <2>6, <4>1 DEF SerialInv, SkymapsListed
      <4>3. Precedes(entry.files, run[r].files)
        BY <1>1, <2>1, <4>2 DEF Follows
      <4> QED BY <1>1, <4>2, <4>3 DEF Precedes, Listing
    <3> QED BY <3>1, <3>2
  <2> HIDE DEF s
  <2>7. CASE entry' = EntryOf(r, file, revision, path)
    <3>1. /\ entry' # None /\ entry'.files = run[r].files /\ entry'.fingerprint = run[r].seen
          /\ entry'.classification = run[r].verdict /\ entry'.skymap_file = file
          /\ entry'.skymap_revision = revision /\ entry'.skymap_relpath = path
      BY <1>3, <2>2, <2>7
    <3> HIDE DEF file, revision, path
    <3>2. ~disturbed' => EntryHeld(entry', skymap') /\ SkymapsListed'
      BY <1>2, <2>2, <2>4, <2>5, <2>6, <3>1 DEF EntryHeld, SkymapsListed
    <3>3. entry' # None => Precedes(entry'.files, remote)
      BY <1>1, <3>1
    <3>4. Follows(s, entry', skymap', remote, disturbed')
      <4>1. Precedes(entry'.files, s.files)
        BY <1>1, <2>3, <3>1, PrecedesIsOrder
      <4> QED BY <1>1, <1>2, <2>1, <2>3, <2>4, <3>1, <4>1 DEF Follows
    <3> QED BY <1>2, <2>1, <2>3, <3>2, <3>3, <3>4, SerialStep
  <2>8. CASE entry' = entry /\ run[r].status = "hit" /\ path = run[r].cached.skymap_relpath
    <3> HIDE DEF file, revision, path
    <3>1. /\ run[r].cached = entry \/ (disturbed /\ entry = None)
          /\ run[r].cached.fingerprint = run[r].seen /\ run[r].files = run[r].cached.files
          /\ run[r].verdict = run[r].cached.classification
      BY <1>1, <2>1, <2>8 DEF Follows
    <3>2. ASSUME ~disturbed' PROVE EntryHeld(entry', skymap') /\ SkymapsListed'
      <4>1. entry # None /\ entry.files = run[r].files /\ EntryHeld(entry, skymap)
        BY <1>1, <1>2, <2>8, <3>1, <3>2 DEF SerialInv
      <4> QED BY <1>2, <2>6, <2>8, <3>2, <4>1 DEF EntryHeld, SkymapsListed
    <3>3. entry' # None => Precedes(entry'.files, remote)
      BY <2>8 DEF SerialInv
    <3>4. Follows(s, entry', skymap', remote, disturbed')
      <4>1. (disturbed /\ entry = None) \/ (entry # None /\ entry.fingerprint = s.seen
               /\ entry.classification = "passes" /\ entry.files = s.files)
        BY <1>1, <2>3, <2>4, <2>8, <3>1
      <4> QED BY <1>1, <1>2, <2>1, <2>3, <2>4, <2>8, <4>1 DEF Follows
    <3> QED BY <1>2, <2>1, <2>3, <3>2, <3>3, <3>4, SerialStep
  <2> QED BY <2>1, <2>7, <2>8
<1> QED BY <1>4, <1>5

(* GraceDB moves on, or the entry is taken away.                           *)
LEMMA SerialOutside ==
  ASSUME CacheInv, CacheInv', SerialInv,
         \/ MoveField \/ Settle \/ DamageEntry
         \/ (\E n \in Skymaps : UploadSkymap(n)) \/ (\E n \in PAstros : UploadPAstro(n))
  PROVE  SerialInv'
<1>1. /\ remote \in Listing /\ remote' \in Listing /\ disturbed \in BOOLEAN
      /\ entry # None => entry.files \in Listing
      /\ \A r \in Runs : run[r] \in RunState
  BY DEF CacheInv, RemoteTypes, EntryOK, CacheEntry, RunsOK, RunOK
<1>2. CASE DamageEntry
  <2>1. entry' = None /\ disturbed' = TRUE /\ UNCHANGED <<remote, skymap, run>>
    BY <1>1, <1>2 DEF DamageEntry, Fault, remoteVars
  <2> QED BY <2>1, FollowsDamaged DEF SerialInv
<1>3. CASE ~DamageEntry
  <2>1. UNCHANGED <<entry, skymap, run, disturbed>>
    BY <1>3 DEF MoveField, Settle, UploadSkymap, UploadPAstro, cacheVars, faultVars
  <2>2. Precedes(remote, remote')
    <3>1. CASE UNCHANGED remote
      BY <1>1, <3>1, PrecedesIsOrder
    <3>2. ASSUME NEW n \in Skymaps, UploadSkymap(n) PROVE Precedes(remote, remote')
      <4>1. remote.skymap \in [Skymaps -> Nat]
        BY <1>1 DEF Listing
      <4>2. remote'.skymap = [remote.skymap EXCEPT ![n] = @ + 1]
        BY <1>1, <3>2 DEF UploadSkymap, Listing
      <4> QED BY <4>1, <4>2 DEF Precedes
    <3>3. ASSUME NEW n \in PAstros, UploadPAstro(n) PROVE Precedes(remote, remote')
      <4>1. remote'.skymap = remote.skymap /\ remote.skymap \in [Skymaps -> Nat]
        BY <1>1, <3>3 DEF UploadPAstro, Listing
      <4> QED BY <4>1 DEF Precedes
    <3> QED BY <1>3, <3>1, <3>2, <3>3 DEF MoveField, Settle
  <2>3. entry' # None => Precedes(entry'.files, remote')
    BY <1>1, <2>1, <2>2, PrecedesIsOrder DEF SerialInv
  <2>4. ASSUME NEW r \in Runs PROVE Follows(run[r], entry, skymap, remote', disturbed)
    BY <1>1, <2>2, FollowsOn DEF SerialInv
  <2> QED BY <2>1, <2>3, <2>4 DEF SerialInv, SkymapsListed
<1> QED BY <1>2, <1>3

LEMMA SerialInit == Init => SerialInv
<1> SUFFICES ASSUME Init PROVE SerialInv
  OBVIOUS
<1>1. remote \in Listing
  BY CacheInit DEF CacheInv, RemoteTypes
<1>2. \A r \in Runs : Follows(run[r], entry, skymap, remote, disturbed)
  BY <1>1, IdleItself DEF Init
<1> QED BY <1>2 DEF Init, SerialInv, SkymapsListed

LEMMA SerialInvariant == Spec /\ []OneAtATime => []SerialInv
<1>1. CacheInv /\ CacheInv' /\ OneAtATime /\ OneAtATime' /\ SerialInv /\ [Next]_vars => SerialInv'
  <2> SUFFICES ASSUME CacheInv, CacheInv', OneAtATime, OneAtATime', SerialInv, [Next]_vars
               PROVE  SerialInv'
    OBVIOUS
  <2>1. CASE UNCHANGED vars
    BY <2>1 DEF vars, remoteVars, cacheVars, faultVars, SerialInv, SkymapsListed
  <2>2. ASSUME NEW r \in Runs, Scan(r) \/ Step(r) \/ StepFails(r)
        PROVE  SerialInv'
    BY <2>2, SerialRead, SerialClassify, SerialSkymap, SerialWrite, SerialRecord DEF Step, StepFails
  <2> QED BY <2>1, <2>2, SerialOutside DEF Next
<1> QED BY <1>1, SerialInit, CacheInit, CacheStep, PTL DEF Spec

(* README.md:525, MustDownload: where one scan follows another and none is *)
(* cut short, the skymap at hand is never older than the entry records,    *)
(* also when GraceDB comes to prefer another map.                          *)
THEOREM CacheHoldsRecordedRevision ==
  Spec /\ []OneAtATime => []RecordedRevisionHeld
<1>1. SerialInv => RecordedRevisionHeld
  <2> SUFFICES ASSUME SerialInv, ~disturbed, Recorded
               PROVE  skymap[entry.skymap_relpath] >= entry.skymap_revision
    BY DEF RecordedRevisionHeld
  <2> QED BY DEF SerialInv, EntryHeld, Recorded
<1> QED BY <1>1, SerialInvariant, PTL

(* The row of such a scan that was not served from the cache leads to the  *)
(* skymap that its listing showed, or a newer one.                         *)
THEOREM CacheRowsHoldListedRevision ==
  Spec /\ []OneAtATime => []UndisturbedRowsHoldListedRevision
<1>1. SerialInv => UndisturbedRowsHoldListedRevision
  BY DEF SerialInv, Follows, UndisturbedRowsHoldListedRevision, RowsHoldListedRevision,
         latest_revision
<1> QED BY <1>1, SerialInvariant, PTL

(* README.md:511: whatever fails or crashes, after a row the entry is one  *)
(* for the fields and the files that the scan saw, unless it has been      *)
(* taken away.                                                             *)
THEOREM CacheEntryFollowsListing ==
  Spec /\ []OneAtATime => []EntryFollowsListing
<1>1. SerialInv => EntryFollowsListing
  BY DEF SerialInv, Follows, EntryFollowsListing
<1> QED BY <1>1, SerialInvariant, PTL
=============================================================================
