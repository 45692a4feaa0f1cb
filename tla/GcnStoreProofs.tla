---------------------------- MODULE GcnStoreProofs ----------------------------
(***************************************************************************)
(* Proofs about GcnStore, for any notices, any number of events and any    *)
(* combination and number of faults.                                       *)
(***************************************************************************)
EXTENDS GcnStore, TLAPS

(* A parsed notice is in hand from the look at the history to the link.    *)
Storing == pc \in {"dedupe", "resolve", "write_skymap", "index", "latest", "unlink", "link"}

(* The notice in hand is one that the step at pc can work on.              *)
HandOK ==
  /\ Storing => cur \in ParsedNotices
  /\ pc \in {"quarantine", "handled"} => cur \in Notices
  /\ pc \in {"write_skymap", "link"} => target \in MapFile
  /\ pc = "write_skymap" => place \in DOMAIN Localizations(cur)

-----------------------------------------------------------------------------
(* The fields of a parsed notice.                                          *)
LEMMA ParsedFields ==
  ASSUME NEW n \in ParsedNotices
  PROVE  /\ n \in Notices /\ EventOf(n) \in Events
         /\ Localizations(n) \in Seq(Localization)
<1>1. NoticeInfo[n] \in NoticeRecord
  BY NoticesAssumption
<1> QED
  BY <1>1 DEF NoticeRecord, EventOf, Localizations, ParsedNotices

(* The localization in turn, while the notice in hand is one with types.   *)
LEMMA InTurnType ==
  ASSUME cur \in ParsedNotices, place \in DOMAIN Localizations(cur)
  PROVE  InTurn \in Localization
BY ParsedFields DEF InTurn

(* What a history calls for is a pointer to a notice and a map of its.     *)
LEMMA PointersType ==
  ASSUME NEW h \in Seq(Entry), NEW p \in PointersOf(h)
  PROVE  /\ p \in Pointer
         /\ \E i \in DOMAIN h : p.notice = h[i].notice
         /\ p.latest_skymap # None =>
              \E i \in DOMAIN h : /\ h[i].skymaps # <<>>
                                  /\ p.latest_skymap = h[i].skymaps[1].path
<1>1. p \in [notice : {h[i].notice : i \in DOMAIN h}, latest_skymap : FirstMaps(h) \cup {None}]
  BY DEF PointersOf
<1>2. \A i \in DOMAIN h : h[i] \in Entry
  OBVIOUS
<1>3. \A i \in WithMaps(h) : h[i].skymaps[1].path \in MapFile
  <2> SUFFICES ASSUME NEW i \in DOMAIN h, h[i].skymaps # <<>>
               PROVE  h[i].skymaps[1].path \in MapFile
    BY DEF WithMaps
  <2>1. h[i].skymaps \in Seq(Skymap)
    BY <1>2 DEF Entry
  <2>2. h[i].skymaps[1] \in Skymap
    BY <2>1
  <2> QED BY <2>2 DEF Skymap
<1>4. FirstMaps(h) \subseteq MapFile
  BY <1>3 DEF FirstMaps
<1>5. {h[i].notice : i \in DOMAIN h} \subseteq ParsedNotices
  BY <1>2 DEF Entry
<1>6. p \in Pointer
  BY <1>1, <1>4, <1>5 DEF Pointer
<1>7. \E i \in DOMAIN h : p.notice = h[i].notice
  BY <1>1
<1>8. p.latest_skymap # None =>
        \E i \in DOMAIN h : h[i].skymaps # <<>> /\ p.latest_skymap = h[i].skymaps[1].path
  BY <1>1 DEF FirstMaps, WithMaps
<1> QED BY <1>6, <1>7, <1>8

-----------------------------------------------------------------------------
(* Type correctness.                                                       *)
TypeInv == StoreTypeOK /\ HandOK

(* The store starts with nothing in it.                                    *)
LEMMA TypeInit == StoreInit => TypeInv
BY DEF StoreInit, TypeInv, StoreTypeOK, HandOK, Storing

(* Every step preserves the types, whatever faults it is or follows.       *)
LEMMA TypeStep ==
  ASSUME TypeInv, StoreNext
  PROVE  TypeInv'
<1> USE DEF TypeInv, storeVars, disk, files, lines, pointers, work
<1>1. CASE \E n \in Notices : HandleMessage(n)
  BY <1>1 DEF HandleMessage, ParsedNotices, StoreTypeOK, HandOK, Storing
<1>2. CASE SkipRedelivery
  BY <1>2, ParsedFields DEF SkipRedelivery, StoreTypeOK, HandOK, Storing
<1>3. CASE WriteNotice
  BY <1>3, ParsedFields DEF WriteNotice, StoreTypeOK, HandOK, Storing
<1>4. CASE LeaveWithoutMap
  BY <1>4, ParsedFields DEF LeaveWithoutMap, Resolving, StoreTypeOK, HandOK, Storing
<1>5. CASE NothingToPointAt
  BY <1>5, ParsedFields DEF NothingToPointAt, StoreTypeOK, HandOK, Storing
<1>6. CASE Unlink
  BY <1>6, ParsedFields DEF Unlink, StoreTypeOK, HandOK, Storing
<1>7. CASE Link
  BY <1>7, ParsedFields DEF Link, StoreTypeOK, HandOK, Storing
<1>8. CASE QuarantinePayload
  BY <1>8, ParsedFields DEF QuarantinePayload, StoreTypeOK, HandOK, Storing
<1>9. CASE Raise
  BY <1>9, ParsedFields DEF Raise, Fault, StoreTypeOK, HandOK, Storing
<1>10. CASE TearAppend
  BY <1>10, ParsedFields DEF TearAppend, Fault, StoreTypeOK, HandOK, Storing
<1>11. CASE LinkRefused
  BY <1>11, ParsedFields DEF LinkRefused, Fault, StoreTypeOK, HandOK, Storing
<1>12. CASE QuarantineFails
  BY <1>12, ParsedFields DEF QuarantineFails, Fault, Forget, PutDown, StoreTypeOK, HandOK, Storing
<1>13. CASE Crash
  BY <1>13, ParsedFields DEF Crash, Fault, Forget, PutDown, StoreTypeOK, HandOK, Storing
<1>14. CASE Restart
  BY <1>14, ParsedFields DEF Restart, StoreTypeOK, HandOK, Storing
<1>15. CASE Return
  BY <1>15, ParsedFields DEF Return, PutDown, StoreTypeOK, HandOK, Storing
<1>16. CASE \E s \in {"real", "synthesized"} : OpenSkymap(s)
  <2>1. PICK s \in {"real", "synthesized"} : OpenSkymap(s)
    BY <1>16
  <2> DEFINE m == [notice |-> cur, label |-> InTurn.label, source |-> s]
  <2>2. cur \in ParsedNotices /\ place \in DOMAIN Localizations(cur)
    BY <2>1 DEF OpenSkymap, Resolving, HandOK, Storing
  <2>3. m \in MapFile
    BY <2>2, InTurnType DEF MapFile, Localization
  <2>4. Truncate(m)
    BY <2>1 DEF OpenSkymap
  <2> HIDE DEF m
  <2> QED BY <2>1, <2>2, <2>3, <2>4 DEF OpenSkymap, Truncate, StoreTypeOK, HandOK, Storing
<1>17. CASE WriteSkymap
  <2> DEFINE m == [path |-> target, object |-> InTurn.object]
  <2>1. /\ pc = "write_skymap" /\ pc' = "resolve" /\ place' = place + 1 /\ target' = None
        /\ skymap_files' = skymap_files \cup {m} /\ skymaps' = Append(skymaps, m)
        /\ torn_skymaps' = torn_skymaps \ {target}
        /\ UNCHANGED <<notice_files, lines, pointers, quarantine, cur, faults>>
    BY <1>17 DEF WriteSkymap
  <2>2. cur \in ParsedNotices /\ place \in DOMAIN Localizations(cur) /\ target \in MapFile
    BY <2>1 DEF HandOK, Storing
  <2>3. m \in Skymap
    BY <2>2, InTurnType DEF Skymap, Localization
  <2> HIDE DEF m
  <2> QED BY <2>1, <2>2, <2>3 DEF StoreTypeOK, HandOK, Storing
<1>18. CASE AppendHistory
  <2>1. cur \in ParsedNotices /\ EventOf(cur) \in Events
    BY <1>18, ParsedFields DEF AppendHistory, StoreTypeOK, HandOK, Storing
  <2>2. CurrentEntry \in Entry
    BY <2>1 DEF CurrentEntry, Entry, StoreTypeOK, HandOK, Storing
  <2> QED BY <1>18, <2>1, <2>2 DEF AppendHistory, StoreTypeOK, HandOK, Storing
<1>19. CASE AppendIndex
  <2>1. CurrentEntry \in Entry
    BY <1>19 DEF AppendIndex, CurrentEntry, Entry, StoreTypeOK, HandOK, Storing
  <2> QED BY <1>19, <2>1 DEF AppendIndex, StoreTypeOK, HandOK, Storing
<1>20. CASE WriteLatest
  <2>1. EventOf(cur) \in Events
    BY <1>20, ParsedFields DEF WriteLatest, StoreTypeOK, HandOK, Storing
  <2>2. PICK p \in PointersOf(history[EventOf(cur)]) :
          /\ latest' = [latest EXCEPT ![EventOf(cur)] = p]
          /\ target' = p.latest_skymap
    BY <1>20 DEF WriteLatest
  <2>3. p \in Pointer /\ p.latest_skymap \in MapFile \cup {None}
    BY <2>1, PointersType DEF Pointer, StoreTypeOK
  <2> QED BY <1>20, <2>1, <2>2, <2>3 DEF WriteLatest, StoreTypeOK, HandOK, Storing
<1>21. CASE RefuseRegion
  BY <1>21, ParsedFields DEF RefuseRegion, Resolving, StoreTypeOK, HandOK, Storing
<1> QED
  BY <1>1, <1>2, <1>3, <1>4, <1>5, <1>6, <1>7, <1>8, <1>9, <1>10, <1>11, <1>12, <1>13, <1>14, <1>15, <1>16, <1>17, <1>18, <1>19, <1>20, <1>21 DEF StoreNext, StoreStep, StoreFault, ProcessEnds

(* Every variable keeps the type its declaration describes.                *)
THEOREM StoreTypeCorrect == StoreSpec => []StoreTypeOK
<1>1. TypeInv /\ UNCHANGED storeVars => TypeInv'
  BY DEF TypeInv, StoreTypeOK, HandOK, Storing, storeVars, disk, files, lines, pointers, work
<1>2. TypeInv /\ [StoreNext]_storeVars => TypeInv'
  BY <1>1, TypeStep
<1>3. TypeInv => StoreTypeOK
  BY DEF TypeInv
<1> QED BY <1>2, <1>3, TypeInit, PTL DEF StoreSpec

-----------------------------------------------------------------------------
(* Complete files and single entries.                                      *)

(* The maps that the history of an event lists.                            *)
Listed(e) ==
  {m \in MapFile : \E i \in DOMAIN history[e] :
                     \E k \in DOMAIN history[e][i].skymaps : m = history[e][i].skymaps[k].path}

(* An entry is in its own event's history, and its files are its own and   *)
(* complete.                                                               *)
EntriesOK ==
  \A e \in Events : \A i \in DOMAIN history[e] :
    /\ EventOf(history[e][i].notice) = e
    /\ history[e][i].notice \in notice_files
    /\ \A k \in DOMAIN history[e][i].skymaps :
         /\ history[e][i].skymaps[k].path \in CompleteMaps
         /\ history[e][i].skymaps[k].path.notice = history[e][i].notice

(* Only what a history lists is pointed at.                                *)
PointersOK ==
  /\ \A e \in Events :
       /\ latest[e] # None => latest[e].latest_skymap \in Listed(e) \cup {None}
       /\ latest_fits[e] \in Listed(e) \cup {None}
  /\ pc \in {"unlink", "link"} => target \in Listed(EventOf(cur)) \cup {None}

(* Until its entry is written the notice in hand is in no history, so that *)
(* no map of its is recorded yet, and the maps written for it so far are   *)
(* complete, but for one that is just being overwritten by another of the  *)
(* same label.                                                             *)
HandFiles ==
  /\ pc \in {"resolve", "write_skymap"} =>
       /\ ~InHistory(cur) /\ cur \in notice_files
       /\ \A k \in DOMAIN skymaps :
            /\ skymaps[k].path.notice = cur
            /\ \/ skymaps[k].path \in CompleteMaps
               \/ pc = "write_skymap" /\ skymaps[k].path = target
  /\ pc = "write_skymap" => target.notice = cur

(* The inductive invariant.                                                *)
FileInv == TypeInv /\ EntriesOK /\ PointersOK /\ HandFiles /\ StoredOnce

(* Of an empty store it holds.                                             *)
LEMMA FileInit == StoreInit => FileInv
<1> SUFFICES ASSUME StoreInit PROVE FileInv
  OBVIOUS
<1>1. TypeInv
  BY TypeInit
<1>2. EntriesOK /\ PointersOK /\ HandFiles /\ StoredOnce
  BY DEF StoreInit, EntriesOK, PointersOK, HandFiles, StoredOnce
<1> QED BY <1>1, <1>2 DEF FileInv

(* Truncating a file leaves the others as they are.                        *)
LEMMA TruncatesOne ==
  ASSUME NEW m, Truncate(m)
  PROVE  CompleteMaps' = CompleteMaps \ {m}
BY DEF Truncate, CompleteMaps

(* A step that leaves the recorded files alone and does not end in the     *)
(* middle of storing a map or a pointer.                                   *)
LEMMA FileQuiet ==
  ASSUME FileInv, TypeInv',
         UNCHANGED <<notice_files, skymap_files, history, latest, latest_fits>>,
         pc' \notin {"resolve", "write_skymap", "unlink", "link"}
  PROVE  FileInv'
BY DEF FileInv, EntriesOK, PointersOK, HandFiles, StoredOnce, Listed, CompleteMaps

(* Every step preserves it: store_notice writes the body and the maps      *)
(* before the entry that lists them, and points only at what is listed.    *)
LEMMA FileStep ==
  ASSUME FileInv, StoreNext
  PROVE  FileInv'
<1> USE DEF FileInv
<1>T. TypeInv'
  BY TypeStep
<1>H. /\ history \in [Events -> Seq(Entry)] /\ skymaps \in Seq(Skymap)
      /\ place \in Nat \ {0}
      /\ pc \in {"resolve", "write_skymap", "latest", "unlink", "link"} =>
           cur \in ParsedNotices /\ EventOf(cur) \in Events
  BY ParsedFields DEF TypeInv, StoreTypeOK, HandOK, Storing
<1> USE DEF files, lines, pointers, disk, work
<1>1. CASE \/ \E n \in Notices : HandleMessage(n)
           \/ SkipRedelivery \/ RefuseRegion \/ AppendIndex \/ NothingToPointAt
           \/ QuarantinePayload \/ StoreFault \/ ProcessEnds \/ Restart \/ Return
  BY <1>1, <1>T, FileQuiet
     DEF HandleMessage, SkipRedelivery, RefuseRegion, AppendIndex, NothingToPointAt,
         QuarantinePayload,
         StoreFault, Raise, TearAppend, LinkRefused, ProcessEnds, QuarantineFails, Crash,
         Forget, Restart, Return
<1>2. CASE WriteNotice
  <2>1. EntriesOK' /\ StoredOnce'
    BY <1>2 DEF WriteNotice, EntriesOK, StoredOnce, CompleteMaps
  <2>2. PointersOK'
    BY <1>2 DEF WriteNotice, PointersOK, Listed
  <2>3. HandFiles'
    BY <1>2 DEF WriteNotice, HandFiles, InHistory
  <2> QED BY <1>T, <2>1, <2>2, <2>3
<1>3. CASE LeaveWithoutMap
  <2>1. EntriesOK' /\ StoredOnce' /\ PointersOK'
    BY <1>3 DEF LeaveWithoutMap, Resolving, EntriesOK, StoredOnce, PointersOK, Listed,
                CompleteMaps
  <2>2. HandFiles'
    BY <1>3 DEF LeaveWithoutMap, Resolving, HandFiles, InHistory, CompleteMaps
  <2> QED BY <1>T, <2>1, <2>2
<1>4. CASE \E s \in {"real", "synthesized"} : OpenSkymap(s)
  <2>1. PICK s \in {"real", "synthesized"} : OpenSkymap(s)
    BY <1>4
  <2> DEFINE m == [notice |-> cur, label |-> InTurn.label, source |-> s]
  <2>2. /\ pc = "resolve" /\ pc' = "write_skymap" /\ target' = m
        /\ CompleteMaps' = CompleteMaps \ {m} /\ m.notice = cur
        /\ UNCHANGED <<notice_files, history, latest, latest_fits, skymaps, place, cur>>
    BY <2>1, TruncatesOne DEF OpenSkymap, Truncate, Resolving
  <2> HIDE DEF m
  <2>3. ASSUME NEW e \in Events, NEW i \in DOMAIN history[e],
               NEW k \in DOMAIN history[e][i].skymaps
        PROVE  history[e][i].skymaps[k].path # m
    <3>1. history[e][i].notice # cur
      BY <2>2 DEF EntriesOK, HandFiles, InHistory
    <3> QED BY <2>2, <3>1 DEF EntriesOK
  <2>4. EntriesOK' /\ StoredOnce'
    BY <2>2, <2>3 DEF EntriesOK, StoredOnce
  <2>5. PointersOK'
    BY <2>2 DEF PointersOK, Listed
  <2>6. HandFiles'
    BY <2>2 DEF HandFiles, InHistory
  <2> QED BY <1>T, <2>4, <2>5, <2>6
<1>5. CASE WriteSkymap
  <2> DEFINE m == [path |-> target, object |-> InTurn.object]
  <2>1. /\ pc = "write_skymap" /\ pc' = "resolve"
        /\ CompleteMaps' = CompleteMaps \cup {target}
        /\ skymaps' = Append(skymaps, m) /\ m.path = target
        /\ UNCHANGED <<notice_files, history, latest, latest_fits, cur>>
    BY <1>5 DEF WriteSkymap, CompleteMaps
  <2> HIDE DEF m
  <2>2. EntriesOK' /\ StoredOnce' /\ PointersOK'
    BY <2>1 DEF EntriesOK, StoredOnce, PointersOK, Listed
  <2>3. m \in Skymap
    <3>1. target \in MapFile /\ cur \in ParsedNotices /\ place \in DOMAIN Localizations(cur)
      BY <1>H, <2>1 DEF TypeInv, HandOK
    <3> QED BY <3>1, InTurnType DEF m, Skymap, Localization
  <2>4. \A k \in DOMAIN skymaps' :
          skymaps'[k] = m \/ (k \in DOMAIN skymaps /\ skymaps'[k] = skymaps[k])
    BY <1>H, <2>1, <2>3
  <2>5. \A k \in DOMAIN skymaps' : /\ skymaps'[k].path.notice = cur
                                  /\ skymaps'[k].path \in CompleteMaps'
    BY <2>1, <2>4 DEF HandFiles
  <2>6. HandFiles'
    BY <2>1, <2>5 DEF HandFiles, InHistory
  <2> QED BY <1>T, <2>2, <2>6
<1>6. CASE AppendHistory
  <2> DEFINE e0 == EventOf(cur)
             n == Len(history[e0]) + 1
  <2>1. /\ pc = "resolve" /\ pc' = "index"
        /\ UNCHANGED <<notice_files, skymap_files, latest, latest_fits, cur>>
        /\ CompleteMaps' = CompleteMaps
    BY <1>6 DEF AppendHistory, CompleteMaps
  <2>2. cur \in ParsedNotices /\ e0 \in Events
    BY <1>H, <2>1
  <2>3. CASE e0 \in fragments
    BY <1>6, <1>T, <2>1, <2>3, FileQuiet DEF AppendHistory
  <2>4. CASE e0 \notin fragments
    <3>1. history' = [history EXCEPT ![e0] = Append(@, CurrentEntry)]
      BY <1>6, <2>4 DEF AppendHistory
    <3>2. CurrentEntry \in Entry
      BY <1>H, <2>2 DEF CurrentEntry, Entry
    <3>3. /\ DOMAIN history'[e0] = DOMAIN history[e0] \cup {n}
          /\ n \notin DOMAIN history[e0] /\ history'[e0][n] = CurrentEntry
          /\ \A i \in DOMAIN history[e0] : history'[e0][i] = history[e0][i]
      BY <1>H, <2>2, <3>1, <3>2
    <3>4. \A e \in Events : e # e0 => history'[e] = history[e]
      BY <1>H, <2>2, <3>1
    <3>5. EntriesOK'
      BY <2>1, <2>2, <3>3, <3>4 DEF EntriesOK, HandFiles, CurrentEntry
    <3>6. \A e \in Events : Listed(e) \subseteq Listed(e)'
      BY <2>2, <3>3, <3>4 DEF Listed
    <3>7. PointersOK'
      BY <2>1, <3>6 DEF PointersOK
    <3>8. StoredOnce'
      <4> SUFFICES ASSUME NEW e \in Events, NEW i \in DOMAIN history'[e],
                          NEW j \in DOMAIN history'[e],
                          history'[e][i].notice = history'[e][j].notice
                   PROVE  i = j
        BY DEF StoredOnce
      <4>1. CASE e # e0
        BY <3>4, <4>1 DEF StoredOnce
      <4>2. CASE e = e0
        <5>1. \A l \in DOMAIN history[e0] : history[e0][l].notice # cur
          BY <2>1 DEF HandFiles, InHistory
        <5> QED BY <3>3, <4>2, <5>1 DEF StoredOnce, CurrentEntry
      <4> QED BY <4>1, <4>2
    <3>9. HandFiles'
      BY <2>1 DEF HandFiles
    <3> QED BY <1>T, <3>5, <3>7, <3>8, <3>9
  <2> QED BY <2>3, <2>4
<1>7. CASE WriteLatest
  <2> DEFINE e0 == EventOf(cur)
  <2>1. PICK p \in PointersOf(history[e0]) :
          /\ latest' = [latest EXCEPT ![e0] = p] /\ target' = p.latest_skymap
    BY <1>7 DEF WriteLatest
  <2>2. /\ pc = "latest" /\ pc' = "unlink"
        /\ UNCHANGED <<notice_files, skymap_files, history, latest_fits, cur>>
        /\ CompleteMaps' = CompleteMaps
    BY <1>7 DEF WriteLatest, CompleteMaps
  <2>3. e0 \in Events /\ latest \in [Events -> Pointer \cup {None}]
    BY <1>H, <2>2 DEF TypeInv, StoreTypeOK
  <2>4. p.latest_skymap \in Listed(e0) \cup {None}
    <3> SUFFICES ASSUME p.latest_skymap # None
                 PROVE  p.latest_skymap \in Listed(e0)
      OBVIOUS
    <3>1. PICK i \in DOMAIN history[e0] :
             /\ history[e0][i].skymaps # <<>>
             /\ p.latest_skymap = history[e0][i].skymaps[1].path
      BY <1>H, <2>3, PointersType
    <3>2. history[e0][i].skymaps \in Seq(Skymap)
      <4>1. history[e0] \in Seq(Entry)
        BY <1>H, <2>3
      <4>2. history[e0][i] \in Entry
        BY <4>1
      <4> QED BY <4>2 DEF Entry
    <3>3. 1 \in DOMAIN history[e0][i].skymaps /\ history[e0][i].skymaps[1] \in Skymap
      BY <3>1, <3>2
    <3>4. p.latest_skymap \in MapFile
      BY <3>1, <3>3 DEF Skymap
    <3> QED BY <3>1, <3>3, <3>4 DEF Listed
  <2>5. PointersOK'
    BY <2>1, <2>2, <2>3, <2>4 DEF PointersOK, Listed
  <2>6. EntriesOK' /\ StoredOnce' /\ HandFiles'
    BY <2>2 DEF EntriesOK, StoredOnce, HandFiles
  <2> QED BY <1>T, <2>5, <2>6
<1>8. CASE Unlink \/ Link
  <2>1. EntriesOK' /\ StoredOnce' /\ HandFiles'
    BY <1>8 DEF Unlink, Link, EntriesOK, StoredOnce, HandFiles, CompleteMaps
  <2>2. latest_fits \in [Events -> MapFile \cup {None}]
    BY DEF TypeInv, StoreTypeOK
  <2>3. PointersOK'
    BY <1>8, <2>2 DEF Unlink, Link, PointersOK, Listed
  <2> QED BY <1>T, <2>1, <2>3
<1> QED
  BY <1>1, <1>2, <1>3, <1>4, <1>5, <1>6, <1>7, <1>8 DEF StoreNext, StoreStep

(* A step of anything but the store leaves it as it is.                    *)
LEMMA FileStutter ==
  ASSUME FileInv, UNCHANGED storeVars
  PROVE  FileInv'
<1>1. TypeInv'
  BY DEF FileInv, TypeInv, StoreTypeOK, HandOK, Storing,
         storeVars, disk, files, lines, pointers, work
<1>2. (EntriesOK /\ PointersOK /\ HandFiles /\ StoredOnce)'
  BY DEF FileInv, EntriesOK, PointersOK, HandFiles, InHistory, StoredOnce, Listed,
         CompleteMaps, storeVars, disk, files, lines, pointers, work
<1> QED BY <1>1, <1>2 DEF FileInv

(* It is an invariant of the store.                                        *)
LEMMA FileInvariant == StoreSpec => []FileInv
<1>1. FileInv /\ [StoreNext]_storeVars => FileInv'
  BY FileStep, FileStutter
<1> QED BY <1>1, FileInit, PTL DEF StoreSpec

(* What a history records, and what a pointer leads to, is complete.       *)
THEOREM StoreFilesComplete == StoreSpec => []RecordedFilesComplete
<1>1. FileInv => RecordedFilesComplete
  <2> SUFFICES ASSUME FileInv, NEW e \in Events
               PROVE  /\ \A i \in DOMAIN history[e] :
                           /\ history[e][i].notice \in notice_files
                           /\ \A k \in DOMAIN history[e][i].skymaps :
                                history[e][i].skymaps[k].path \in CompleteMaps
                      /\ latest[e] # None =>
                           latest[e].latest_skymap \in CompleteMaps \cup {None}
                      /\ latest_fits[e] \in CompleteMaps \cup {None}
    BY DEF RecordedFilesComplete
  <2>1. Listed(e) \subseteq CompleteMaps
    BY DEF FileInv, EntriesOK, Listed
  <2> QED BY <2>1 DEF FileInv, EntriesOK, PointersOK
<1> QED BY <1>1, FileInvariant, PTL

(* However deliveries repeat and attempts are cut short, a history lists a *)
(* notice once.                                                            *)
THEOREM StoreStoresOnce == StoreSpec => []StoredOnce
<1>1. FileInv => StoredOnce
  BY DEF FileInv
<1> QED BY <1>1, FileInvariant, PTL
===============================================================================
