------------------------------- MODULE GcnStore -------------------------------
(***************************************************************************)
(* The notice store of src/desi_aap/gcn_store.py with the map writer it    *)
(* calls, src/desi_aap/gcn_skymaps.py.  One process stores one notice      *)
(* after another; every write to the disk is a step of its own, so a       *)
(* crash, a failed write or a reader can come between any two of them.     *)
(*                                                                         *)
(* Faults names what may go wrong: "crash" (the process is killed),        *)
(* "error" (a call raises), "torn" (an append that raises has left part of *)
(* its line in the file, as a full disk does); GcnListener adds "commit",  *)
(* "rebalance" and "broker".                                               *)
(***************************************************************************)
EXTENDS GcnNotices

CONSTANTS Faults,   \* which of these may happen
          MaxFaults,\* bound: how many of them do
          None      \* the absent value of a field that may be empty

ASSUME StoreAssumption ==
  /\ Faults \subseteq {"crash", "error", "torn", "commit", "rebalance", "broker"}
  /\ MaxFaults \in Nat

(* The path of a map: the notice and the label that its stem is made of,   *)
(* and whether its suffix marks the mission's own map or a synthesized one.*)
MapFile == [notice : ParsedNotices, label : Labels, source : {"real", "synthesized"}]

(* A path, and the object of the notice whose region is there: on disk, or *)
(* by the summary that stands beside the path in an entry.                 *)
Skymap == [path : MapFile, object : Nat \ {0}]

(* What the model keeps of one line of history.jsonl and of index.jsonl.   *)
Entry == [notice : ParsedNotices, skymaps : Seq(Skymap)]

Pointer == [notice : ParsedNotices, latest_skymap : MapFile \cup {None}]

ASSUME NoneAssumption ==
  /\ None \notin Notices /\ None \notin MapFile /\ None \notin Localization /\ None \notin Pointer
  /\ None \notin {"real", "synthesized", "raise"}

VARIABLES
  notice_files,  \* bodies under notices/
  skymap_files,  \* complete files under skymaps/, and what is in them
  torn_skymaps,  \* files under skymaps/ that were opened and not completed
  history,       \* per event, the readable lines of history.jsonl
  index,         \* the readable lines of index.jsonl
  fragments,     \* the JSON Lines files that end in part of a line
  latest,        \* per event, latest.json
  latest_fits,   \* per event, where the latest.fits link points
  quarantine,    \* bodies under _quarantine/
  pc,            \* what the process does next
  cur,           \* the notice in hand
  skymaps,       \* the maps written for it so far
  place,         \* the place of the localization that is resolved next
  target,        \* the path being written, or the one the link shall name
  faults         \* how many faults there have been

files == <<notice_files, skymap_files, torn_skymaps>>
lines == <<history, index, fragments>>
pointers == <<latest, latest_fits>>
disk == <<files, lines, pointers, quarantine>>
work == <<skymaps, place, target>>
storeVars == <<disk, work, pc, cur, faults>>

EventOf(n) == NoticeInfo[n].event
Localizations(n) == NoticeInfo[n].localizations

CompleteMaps == {f.path : f \in skymap_files}

INDEX == <<"index.jsonl">>

StoreInit ==
  /\ notice_files = {} /\ skymap_files = {} /\ torn_skymaps = {}
  /\ history = [e \in Events |-> <<>>] /\ index = <<>> /\ fragments = {}
  /\ latest = [e \in Events |-> None] /\ latest_fits = [e \in Events |-> None]
  /\ quarantine = {}
  /\ pc = "idle" /\ cur = None /\ skymaps = <<>> /\ place = 1 /\ target = None
  /\ faults = 0

-----------------------------------------------------------------------------
(* Which history entry is current.                                         *)

(* Mutant: the notice that arrived last is current.                        *)
ArrivedLastOf(h, S, i) == i \in S /\ \A j \in S : j <= i

(* max() by entry_sort_key: no entry of h has a greater key than entry i,  *)
(* and of those with its key it arrived last.                              *)
IsLatestOf(h, S, i) ==
  /\ i \in S
  /\ \A j \in S :
       \/ KeyLess(SortKey(h[j].notice), SortKey(h[i].notice))
       \/ SortKey(h[j].notice) = SortKey(h[i].notice) /\ j <= i

IsLatest(h, i) == IsLatestOf(h, DOMAIN h, i)

WithMaps(h) == {i \in DOMAIN h : h[i].skymaps # <<>>}

(* latest_skymap_entry: no map once the newest notice is a retraction, and *)
(* otherwise the first map of the newest notice that has any.              *)
IsLatestSkymap(h, newest, m) ==
  IF is_retraction(newest) \/ WithMaps(h) = {}
  THEN m = None
  ELSE \E i \in WithMaps(h) : IsLatestOf(h, WithMaps(h), i) /\ m = h[i].skymaps[1].path

FirstMaps(h) == {h[i].skymaps[1].path : i \in WithMaps(h)}

PointersOf(h) ==
  {p \in [notice : {h[i].notice : i \in DOMAIN h}, latest_skymap : FirstMaps(h) \cup {None}] :
     /\ \E i \in DOMAIN h : IsLatest(h, i) /\ p.notice = h[i].notice
     /\ IsLatestSkymap(h, p.notice, p.latest_skymap)}

-----------------------------------------------------------------------------
(* store_notice, one step per write.                                       *)

(* Mutant: a body that does not parse ends the process.                    *)
HandleMessageOrDie(n) ==
  /\ pc = "idle"
  /\ cur' = IF n \in Malformed THEN cur ELSE n
  /\ pc' = IF n \in Malformed THEN "down" ELSE "dedupe"
  /\ UNCHANGED <<disk, work, faults>>

(* handle_message: a body that does not parse goes to quarantine.          *)
HandleMessage(n) ==
  /\ pc = "idle"
  /\ cur' = n
  /\ pc' = IF n \in Malformed THEN "quarantine" ELSE "dedupe"
  /\ UNCHANGED <<disk, work, faults>>

(* Mutant: the redelivery check reads index.jsonl.                         *)
InIndex(n) == \E i \in DOMAIN index : index[i].notice = n

(* Mutant: there is no redelivery check.                                   *)
NeverInHistory(n) == n = None

(* A digest already in the event's history makes this a redelivery.        *)
InHistory(n) == \E i \in DOMAIN history[EventOf(n)] : history[EventOf(n)][i].notice = n

SkipRedelivery ==
  /\ pc = "dedupe" /\ InHistory(cur)
  /\ pc' = "handled"
  /\ UNCHANGED <<disk, work, cur, faults>>

WriteNotice ==
  /\ pc = "dedupe" /\ ~InHistory(cur)
  /\ notice_files' = notice_files \cup {cur}
  /\ skymaps' = <<>> /\ place' = 1
  /\ pc' = "resolve"
  /\ UNCHANGED <<skymap_files, torn_skymaps, lines, pointers, quarantine,
                 target, cur, faults>>

(* resolve_skymap: the inline map, else the linked one, else, when there   *)
(* is no link or the download fails, one made from the quoted region, of   *)
(* which synthesize_moc_table may make none.                               *)
Fallback(loc) ==
  CASE loc.region = "quoted"  -> {"synthesized"}
    [] loc.region = "none"    -> {None}
    [] loc.region = "refused" -> {"raise"}

MapSources(loc) ==
  CASE loc.remote = "inline" -> {"real"}
    [] loc.remote = "url"    -> {"real"} \cup Fallback(loc)
    [] loc.remote = "none"   -> Fallback(loc)

(* The localization in turn.                                               *)
Resolving == pc = "resolve" /\ place \in DOMAIN Localizations(cur)

InTurn == Localizations(cur)[place]

(* Mutant: the absent map is recorded with the others.                     *)
RecordNoMap ==
  /\ Resolving /\ None \in MapSources(InTurn)
  /\ place' = place + 1
  /\ skymaps' = Append(skymaps, [path |-> None, object |-> InTurn.object])
  /\ UNCHANGED <<disk, target, pc, cur, faults>>

LeaveWithoutMap ==
  /\ Resolving /\ None \in MapSources(InTurn)
  /\ place' = place + 1
  /\ UNCHANGED <<disk, skymaps, target, pc, cur, faults>>

(* Opening for writing truncates: until the write ends the file is torn.   *)
Truncate(m) ==
  /\ target' = m
  /\ skymap_files' = {f \in skymap_files : f.path # m}
  /\ torn_skymaps' = torn_skymaps \cup {m}

(* Mutant: the label is left out of the file name.                         *)
OpenUnlabelled(s) ==
  /\ Resolving /\ s \in MapSources(InTurn)
  /\ Truncate([notice |-> cur, label |-> None, source |-> s])
  /\ pc' = "write_skymap"
  /\ UNCHANGED <<notice_files, lines, pointers, quarantine, skymaps, place, cur, faults>>

(* A map goes by its label: one that an earlier localization of the notice *)
(* wrote under the same label is overwritten.                              *)
OpenSkymap(s) ==
  /\ Resolving /\ s \in MapSources(InTurn)
  /\ Truncate([notice |-> cur, label |-> InTurn.label, source |-> s])
  /\ pc' = "write_skymap"
  /\ UNCHANGED <<notice_files, lines, pointers, quarantine, skymaps, place, cur, faults>>

(* A region that is refused raises, and the whole notice is set aside.     *)
RefuseRegion ==
  /\ Resolving /\ "raise" \in MapSources(InTurn)
  /\ pc' = "quarantine"
  /\ UNCHANGED <<disk, work, cur, faults>>

WriteSkymap ==
  /\ pc = "write_skymap"
  /\ LET m == [path |-> target, object |-> InTurn.object]
     IN skymap_files' = skymap_files \cup {m} /\ skymaps' = Append(skymaps, m)
  /\ torn_skymaps' = torn_skymaps \ {target}
  /\ place' = place + 1 /\ target' = None
  /\ pc' = "resolve"
  /\ UNCHANGED <<notice_files, lines, pointers, quarantine, cur, faults>>

(* append_jsonl: a line appended to a file that ends in a fragment joins   *)
(* it, and read_jsonl then skips both as one malformed line.               *)
CurrentEntry == [notice |-> cur, skymaps |-> skymaps]

AppendHistory ==
  /\ pc = "resolve" /\ place \notin DOMAIN Localizations(cur)
  /\ LET e == EventOf(cur)
     IN /\ history' = IF e \in fragments THEN history
                      ELSE [history EXCEPT ![e] = Append(@, CurrentEntry)]
        /\ fragments' = fragments \ {e}
  /\ pc' = "index"
  /\ UNCHANGED <<files, index, pointers, quarantine, work, cur, faults>>

AppendIndex ==
  /\ pc = "index"
  /\ index' = IF INDEX \in fragments THEN index ELSE Append(index, CurrentEntry)
  /\ fragments' = fragments \ {INDEX}
  /\ pc' = "latest"
  /\ UNCHANGED <<files, history, pointers, quarantine, work, cur, faults>>

(* Mutant: the notice in hand becomes the current one.                     *)
WriteLatestFromHand ==
  /\ pc = "latest" /\ history[EventOf(cur)] # <<>>
  /\ LET m == IF skymaps = <<>> THEN None ELSE skymaps[1].path
     IN /\ latest' = [latest EXCEPT ![EventOf(cur)] = [notice |-> cur, latest_skymap |-> m]]
        /\ target' = m
  /\ pc' = "unlink"
  /\ UNCHANGED <<files, lines, latest_fits, quarantine, skymaps, place, cur, faults>>

(* update_latest_pointer reads the history back and ranks it.              *)
WriteLatest ==
  /\ pc = "latest" /\ history[EventOf(cur)] # <<>>
  /\ \E p \in PointersOf(history[EventOf(cur)]) :
       /\ latest' = [latest EXCEPT ![EventOf(cur)] = p]
       /\ target' = p.latest_skymap
  /\ pc' = "unlink"
  /\ UNCHANGED <<files, lines, latest_fits, quarantine, skymaps, place, cur, faults>>

NothingToPointAt ==
  /\ pc = "latest" /\ history[EventOf(cur)] = <<>>
  /\ pc' = "handled"
  /\ UNCHANGED <<disk, work, cur, faults>>

(* Mutant: the old link goes only when a new one follows.                  *)
UnlinkToRelink ==
  /\ pc = "unlink"
  /\ latest_fits' = IF target = None THEN latest_fits
                    ELSE [latest_fits EXCEPT ![EventOf(cur)] = None]
  /\ pc' = IF target = None THEN "handled" ELSE "link"
  /\ UNCHANGED <<files, lines, latest, quarantine, work, cur, faults>>

Unlink ==
  /\ pc = "unlink"
  /\ latest_fits' = [latest_fits EXCEPT ![EventOf(cur)] = None]
  /\ pc' = IF target = None THEN "handled" ELSE "link"
  /\ UNCHANGED <<files, lines, latest, quarantine, work, cur, faults>>

Link ==
  /\ pc = "link"
  /\ latest_fits' = [latest_fits EXCEPT ![EventOf(cur)] = target]
  /\ target' = None /\ pc' = "handled"
  /\ UNCHANGED <<files, lines, latest, quarantine, skymaps, place, cur, faults>>

(* quarantine_payload, the handler of every exception of the steps above.  *)
QuarantinePayload ==
  /\ pc = "quarantine"
  /\ quarantine' = quarantine \cup {cur}
  /\ pc' = "handled"
  /\ UNCHANGED <<files, lines, pointers, work, cur, faults>>

(* Nothing is in hand any more.                                            *)
PutDown == cur' = None /\ skymaps' = <<>> /\ place' = 1 /\ target' = None

-----------------------------------------------------------------------------
(* What can go wrong.                                                      *)

Fault(kind) == kind \in Faults /\ faults < MaxFaults /\ faults' = faults + 1

(* Mutant: the exception is logged and the message counts as handled.      *)
RaiseAndGoOn ==
  /\ Fault("error")
  /\ pc \in {"dedupe", "resolve", "write_skymap", "index", "latest", "unlink"}
  /\ pc' = "handled"
  /\ UNCHANGED <<disk, work, cur>>

(* A call of store_notice raises before its write has had any effect.      *)
Raise ==
  /\ Fault("error")
  /\ pc \in {"dedupe", "resolve", "write_skymap", "index", "latest", "unlink"}
  /\ pc' = "quarantine"
  /\ UNCHANGED <<disk, work, cur>>

(* The append to history.jsonl or index.jsonl raises halfway.              *)
TearAppend ==
  /\ Fault("torn")
  /\ \/ pc = "resolve" /\ place \notin DOMAIN Localizations(cur)
        /\ fragments' = fragments \cup {EventOf(cur)}
     \/ pc = "index" /\ fragments' = fragments \cup {INDEX}
  /\ pc' = "quarantine"
  /\ UNCHANGED <<files, history, index, pointers, quarantine, work, cur>>

(* symlink_to raises: suppressed, and the event is left without a link.    *)
LinkRefused ==
  /\ Fault("error") /\ pc = "link"
  /\ target' = None /\ pc' = "handled"
  /\ UNCHANGED <<disk, skymaps, place, cur>>

(* The process ends: what it held in memory is gone.                       *)
Forget == pc' = "down" /\ PutDown

(* quarantine_payload itself raises, before or after the payload is kept,  *)
(* and nothing catches it.                                                 *)
QuarantineFails ==
  /\ Fault("error") /\ pc = "quarantine"
  /\ quarantine' \in {quarantine, quarantine \cup {cur}}
  /\ Forget
  /\ UNCHANGED <<files, lines, pointers>>

Crash ==
  /\ Fault("crash") /\ pc # "down"
  /\ Forget
  /\ UNCHANGED disk

-----------------------------------------------------------------------------
StoreStep ==
  \/ SkipRedelivery \/ WriteNotice
  \/ LeaveWithoutMap \/ (\E s \in {"real", "synthesized"} : OpenSkymap(s)) \/ WriteSkymap
  \/ RefuseRegion
  \/ AppendHistory \/ AppendIndex
  \/ WriteLatest \/ NothingToPointAt \/ Unlink \/ Link
  \/ QuarantinePayload

StoreFault == Raise \/ TearAppend \/ LinkRefused

ProcessEnds == QuarantineFails \/ Crash

Restart ==
  /\ pc = "down" /\ pc' = "idle"
  /\ UNCHANGED <<disk, work, cur, faults>>

(* The caller is done with the notice in hand.                             *)
Return ==
  /\ pc = "handled" /\ pc' = "idle" /\ PutDown
  /\ UNCHANGED <<disk, faults>>

(* The store on its own, called with any notice at any time.               *)
StoreNext ==
  \/ (\E n \in Notices : HandleMessage(n))
  \/ StoreStep \/ Return
  \/ StoreFault \/ ProcessEnds \/ Restart

StoreSpec == StoreInit /\ [][StoreNext]_storeVars

-----------------------------------------------------------------------------
(* Properties.                                                             *)

(* Every variable has the type its declaration describes.                  *)
StoreTypeOK ==
  /\ notice_files \subseteq ParsedNotices
  /\ skymap_files \subseteq Skymap /\ torn_skymaps \subseteq MapFile
  /\ history \in [Events -> Seq(Entry)] /\ index \in Seq(Entry)
  /\ fragments \subseteq Events \cup {INDEX}
  /\ latest \in [Events -> Pointer \cup {None}]
  /\ latest_fits \in [Events -> MapFile \cup {None}]
  /\ quarantine \subseteq Notices
  /\ pc \in {"idle", "dedupe", "resolve", "write_skymap", "index", "latest", "unlink",
             "link", "quarantine", "handled", "down"}
  /\ cur \in Notices \cup {None}
  /\ skymaps \in Seq(Skymap) /\ place \in Nat \ {0}
  /\ target \in MapFile \cup {None}
  /\ faults \in Nat

(* Whatever fails and whenever the process dies, a notice that a history   *)
(* records has its body and every map the record lists complete on disk,   *)
(* and no reader of latest.json or latest.fits is led to a missing or torn *)
(* map: maps are written in place, and only a record makes them reachable. *)
RecordedFilesComplete ==
  \A e \in Events :
    /\ \A i \in DOMAIN history[e] :
         /\ history[e][i].notice \in notice_files
         /\ \A k \in DOMAIN history[e][i].skymaps : history[e][i].skymaps[k].path \in CompleteMaps
    /\ latest[e] # None => latest[e].latest_skymap \in CompleteMaps \cup {None}
    /\ latest_fits[e] \in CompleteMaps \cup {None}

(* However often a notice is redelivered, and wherever an earlier attempt  *)
(* at it was cut short, its event's history lists it once.                 *)
StoredOnce ==
  \A e \in Events : \A i, j \in DOMAIN history[e] :
    history[e][i].notice = history[e][j].notice => i = j

(* latest.json is never invented or mixed: it is what the history up to    *)
(* some earlier line of it called for, whatever interrupted the writes.    *)
LatestIsOfAPrefix ==
  \A e \in Events : latest[e] # None =>
    \E k \in DOMAIN history[e] : latest[e] \in PointersOf(SubSeq(history[e], 1, k))

(* A replayed old notice, or one that overtook its successor, does not     *)
(* demote the newer one that latest.json already shows.                    *)
NeverDemoted ==
  [][\A e \in Events : latest[e] # None =>
       /\ latest'[e] # None
       /\ ~ KeyLess(SortKey(latest'[e].notice), SortKey(latest[e].notice))]_storeVars

Settled == pc \in {"idle", "handled"}

(* While nothing has failed, each completed call leaves the store in       *)
(* agreement with itself: the index lists just what the histories list,    *)
(* once each, latest.json is the best of the whole history in whatever     *)
(* order the notices came, and latest.fits names the map it names.         *)
StoreAgrees ==
  faults = 0 /\ Settled =>
    /\ \A i, j \in DOMAIN index : index[i] = index[j] => i = j
    /\ {index[i] : i \in DOMAIN index}
         = UNION {{history[e][i] : i \in DOMAIN history[e]} : e \in Events}
    /\ \A e \in Events :
         IF history[e] = <<>> THEN latest[e] = None /\ latest_fits[e] = None
         ELSE /\ latest[e] \in PointersOf(history[e])
              /\ latest_fits[e] = latest[e].latest_skymap

(* As long as no append is torn, crashes and failures leave the index      *)
(* short but never wrong: it lists nothing twice and nothing that the      *)
(* event's history does not list with the same maps.                       *)
IndexWithinHistory ==
  /\ \A i, j \in DOMAIN index : index[i].notice = index[j].notice => i = j
  /\ \A i \in DOMAIN index :
       \E k \in DOMAIN history[EventOf(index[i].notice)] :
          history[EventOf(index[i].notice)][k] = index[i]

-----------------------------------------------------------------------------
(* What the documentation says and a crash breaks.                         *)

(* gcn_store.py:12: index.jsonl has one line per notice, across all        *)
(* events.                                                                 *)
IsIndexed(n) == \E i \in DOMAIN index : index[i].notice = n

(* gcn_store.py:20: latest.json is recomputed from the history on each     *)
(* write, so it stays correct; and latest.fits is the map it names.        *)
LatestIsCorrect(e) ==
  history[e] # <<>> => /\ latest[e] \in PointersOf(history[e])
                       /\ latest_fits[e] = latest[e].latest_skymap

(* gcn_store.py:449: that a redelivery is skipped is what makes an         *)
(* at-least-once consumer safe to restart.  Here: once a delivery of a     *)
(* notice has been handled without setting the notice aside, even if an    *)
(* earlier delivery was cut short, the notice is indexed and what is shown *)
(* of its event is right.                                                  *)
SafeToRestart ==
  pc = "handled" /\ cur \notin quarantine => IsIndexed(cur) /\ LatestIsCorrect(EventOf(cur))
===============================================================================
