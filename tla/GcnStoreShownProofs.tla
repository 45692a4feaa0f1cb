-------------------------- MODULE GcnStoreShownProofs --------------------------
(***************************************************************************)
(* Proofs about what GcnStore shows a reader: how index.jsonl and          *)
(* latest.json relate to the histories, for any notices, events and        *)
(* faults.                                                                 *)
(***************************************************************************)
EXTENDS GcnStoreProofs, SequenceTheorems

-----------------------------------------------------------------------------
(* entry_sort_key.                                                         *)

(* A sort key is a triple of numbers, also of an unknown alert type.       *)
LEMMA SortKeyType ==
  ASSUME NEW n \in ParsedNotices
  PROVE  SortKey(n) \in Int \X Int \X Int
<1>1. NoticeInfo[n] \in NoticeRecord
  BY NoticesAssumption
<1>2. NoticeInfo[n].record_number \in Int /\ NoticeInfo[n].notice_time \in Int
  BY <1>1 DEF NoticeRecord, MISSING_RECORD_NUMBER
<1>3. \A t : alert_type_rank(t) \in Int
  BY DEF alert_type_rank, ALERT_TYPE_RANK, UNKNOWN_ALERT_TYPE_RANK
<1> QED BY <1>2, <1>3 DEF SortKey

(* Two notices do not each outrank the other.                              *)
LEMMA KeyAsymmetric ==
  ASSUME NEW m \in ParsedNotices, NEW n \in ParsedNotices,
         KeyLess(SortKey(m), SortKey(n)) \/ SortKey(m) = SortKey(n)
  PROVE  ~ KeyLess(SortKey(n), SortKey(m))
BY SortKeyType DEF KeyLess

(* None of the notices of a history outranks the one it calls for.         *)
LEMMA PointerIsBest ==
  ASSUME NEW h \in Seq(Entry), NEW p \in PointersOf(h), NEW j \in DOMAIN h
  PROVE  ~ KeyLess(SortKey(p.notice), SortKey(h[j].notice))
<1>1. PICK i \in DOMAIN h : IsLatest(h, i) /\ p.notice = h[i].notice
  BY DEF PointersOf
<1>2. h[i] \in Entry /\ h[j] \in Entry
  OBVIOUS
<1>3. h[i].notice \in ParsedNotices /\ h[j].notice \in ParsedNotices
  BY <1>2 DEF Entry
<1>4. \/ KeyLess(SortKey(h[j].notice), SortKey(h[i].notice))
      \/ SortKey(h[j].notice) = SortKey(h[i].notice)
  BY <1>1 DEF IsLatest, IsLatestOf
<1> QED BY <1>1, <1>3, <1>4, KeyAsymmetric

-----------------------------------------------------------------------------
(* latest.json.                                                            *)

(* A history only grows, and latest.json is as it was or what the whole    *)
(* history calls for.                                                      *)
LEMMA ShownStep ==
  ASSUME TypeInv, StoreNext
  PROVE  /\ \A e \in Events : \/ history'[e] = history[e]
                             \/ \E x \in Entry : history'[e] = Append(history[e], x)
         /\ \/ latest' = latest
            \/ /\ history' = history
               /\ \A e \in Events : \/ latest'[e] = latest[e]
                                   \/ /\ history[e] # <<>>
                                      /\ latest'[e] \in PointersOf(history[e])
<1> USE DEF disk, files, lines, pointers
<1>H. /\ history \in [Events -> Seq(Entry)] /\ latest \in [Events -> Pointer \cup {None}]
      /\ Storing => cur \in ParsedNotices /\ EventOf(cur) \in Events
  BY ParsedFields DEF TypeInv, StoreTypeOK, HandOK
<1>1. CASE AppendHistory
  <2>1. EventOf(cur) \in Events /\ CurrentEntry \in Entry
    BY <1>1, <1>H DEF AppendHistory, Storing, CurrentEntry, Entry, TypeInv, StoreTypeOK
  <2>2. /\ latest' = latest
        /\ \/ history' = history
           \/ history' = [history EXCEPT ![EventOf(cur)] = Append(@, CurrentEntry)]
    BY <1>1 DEF AppendHistory
  <2>3. ASSUME NEW e \in Events
        PROVE  \/ history'[e] = history[e]
               \/ history'[e] = Append(history[e], CurrentEntry)
    BY <1>H, <2>2
  <2> QED BY <2>1, <2>2, <2>3, Zenon
<1>2. CASE WriteLatest
  <2>1. EventOf(cur) \in Events
    BY <1>2, <1>H DEF WriteLatest, Storing
  <2> QED BY <1>2, <1>H, <2>1 DEF WriteLatest
<1>3. CASE UNCHANGED <<history, latest>>
  BY <1>3
<1> QED
  BY <1>1, <1>2, <1>3
     DEF StoreNext, StoreStep, StoreFault, ProcessEnds, HandleMessage, SkipRedelivery,
         WriteNotice, LeaveWithoutMap, OpenSkymap, WriteSkymap, RefuseRegion, AppendIndex,
         NothingToPointAt, Unlink, Link, QuarantinePayload, Raise, TearAppend, LinkRefused,
         QuarantineFails, Crash, Forget, Restart, Return

(* What a line more leaves of the prefixes of a history.                   *)
LEMMA PrefixStays ==
  ASSUME NEW h \in Seq(Entry), NEW x \in Entry, NEW k \in DOMAIN h
  PROVE  k \in DOMAIN Append(h, x) /\ SubSeq(Append(h, x), 1, k) = SubSeq(h, 1, k)
<1>1. k \in 1 .. Len(h) /\ Append(h, x) \in Seq(Entry) /\ Len(Append(h, x)) = Len(h) + 1
  OBVIOUS
<1>2. /\ SubSeq(h, 1, k) \in Seq(Entry) /\ Len(SubSeq(h, 1, k)) = k
      /\ \A i \in 1 .. k : SubSeq(h, 1, k)[i] = h[i]
  BY <1>1
<1>3. /\ SubSeq(Append(h, x), 1, k) \in Seq(Entry) /\ Len(SubSeq(Append(h, x), 1, k)) = k
      /\ \A i \in 1 .. k : SubSeq(Append(h, x), 1, k)[i] = h[i]
  BY <1>1
<1>4. SubSeq(Append(h, x), 1, k) = SubSeq(h, 1, k)
  BY <1>2, <1>3, SeqEqual
<1> QED BY <1>1, <1>4

(* The inductive invariant.                                                *)
ShownInv == TypeInv /\ LatestIsOfAPrefix

LEMMA ShownInvStep ==
  ASSUME ShownInv, StoreNext
  PROVE  ShownInv'
<1>1. TypeInv'
  BY TypeStep DEF ShownInv
<1>2. LatestIsOfAPrefix'
  <2> SUFFICES ASSUME NEW e \in Events, latest'[e] # None
               PROVE  \E k \in DOMAIN history'[e] :
                        latest'[e] \in PointersOf(SubSeq(history'[e], 1, k))
    BY DEF LatestIsOfAPrefix
  <2>1. history[e] \in Seq(Entry)
    BY DEF ShownInv, TypeInv, StoreTypeOK
  <2>2. CASE latest'[e] = latest[e]
    <3>1. PICK k \in DOMAIN history[e] : latest[e] \in PointersOf(SubSeq(history[e], 1, k))
      BY <2>2 DEF ShownInv, LatestIsOfAPrefix
    <3>2. k \in DOMAIN history'[e] /\ SubSeq(history'[e], 1, k) = SubSeq(history[e], 1, k)
      BY <2>1, ShownStep, PrefixStays DEF ShownInv
    <3> QED BY <2>2, <3>1, <3>2
  <2>3. CASE /\ history' = history /\ history[e] # <<>>
             /\ latest'[e] \in PointersOf(history[e])
    <3>1. Len(history[e]) \in DOMAIN history[e]
      BY <2>1, <2>3
    <3>2. SubSeq(history[e], 1, Len(history[e])) = history[e]
      BY <2>1, SubSeqFull
    <3> QED BY <2>3, <3>1, <3>2
  <2> QED BY <2>2, <2>3, ShownStep DEF ShownInv
<1> QED BY <1>1, <1>2 DEF ShownInv

(* It is an invariant of the store.                                        *)
LEMMA ShownInvariant == StoreSpec => []ShownInv
<1>1. StoreInit => ShownInv
  BY TypeInit DEF StoreInit, ShownInv, LatestIsOfAPrefix
<1>2. ShownInv /\ UNCHANGED storeVars => ShownInv'
  BY DEF ShownInv, LatestIsOfAPrefix, TypeInv, StoreTypeOK, HandOK, Storing,
         storeVars, disk, files, lines, pointers, work
<1>3. ShownInv /\ [StoreNext]_storeVars => ShownInv'
  BY <1>2, ShownInvStep
<1> QED BY <1>1, <1>3, PTL DEF StoreSpec

(* latest.json is what some prefix of the history called for, whatever     *)
(* interrupted the writes.                                                 *)
THEOREM StoreShowsAPrefix == StoreSpec => []LatestIsOfAPrefix
<1>1. ShownInv => LatestIsOfAPrefix
  BY DEF ShownInv
<1> QED BY <1>1, ShownInvariant, PTL

(* A notice that latest.json shows gives way to none that it outranks.     *)
LEMMA ShownIsNotDemoted ==
  ASSUME ShownInv, StoreNext, NEW e \in Events, latest[e] # None
  PROVE  /\ latest'[e] # None
         /\ ~ KeyLess(SortKey(latest'[e].notice), SortKey(latest[e].notice))
<1>H. history[e] \in Seq(Entry)
  BY DEF ShownInv, TypeInv, StoreTypeOK
<1>1. PICK k \in DOMAIN history[e] : latest[e] \in PointersOf(SubSeq(history[e], 1, k))
  BY DEF ShownInv, LatestIsOfAPrefix
<1>2. /\ SubSeq(history[e], 1, k) \in Seq(Entry)
      /\ Len(SubSeq(history[e], 1, k)) = k
      /\ \A i \in 1 .. k : SubSeq(history[e], 1, k)[i] = history[e][i]
  BY <1>H
<1>3. latest[e] \in Pointer
      /\ \E i \in DOMAIN SubSeq(history[e], 1, k) :
            latest[e].notice = SubSeq(history[e], 1, k)[i].notice
  BY <1>1, <1>2, PointersType
<1>4. PICK j \in DOMAIN history[e] : latest[e].notice = history[e][j].notice
  <2>1. PICK i \in 1 .. k : latest[e].notice = SubSeq(history[e], 1, k)[i].notice
    BY <1>2, <1>3
  <2>2. i \in DOMAIN history[e]
    BY <1>H
  <2> QED BY <1>2, <2>1, <2>2
<1>5. CASE latest'[e] = latest[e]
  <2>1. latest[e].notice \in ParsedNotices
    BY <1>3 DEF Pointer
  <2> QED BY <1>5, <2>1, KeyAsymmetric
<1>6. CASE latest'[e] \in PointersOf(history[e])
  <2>1. latest'[e] # None
    BY <1>H, <1>6, PointersType, NoneAssumption
  <2>2. ~ KeyLess(SortKey(latest'[e].notice), SortKey(history[e][j].notice))
    BY <1>H, <1>6, PointerIsBest
  <2> QED BY <1>4, <2>1, <2>2
<1> QED BY <1>5, <1>6, ShownStep DEF ShownInv

(* Neither a replayed notice nor one that was overtaken demotes the notice *)
(* that latest.json shows.                                                 *)
THEOREM StoreNeverDemotes == StoreSpec => NeverDemoted
<1>1. ShownInv /\ UNCHANGED storeVars =>
        \A e \in Events : latest[e] # None =>
          /\ latest'[e] # None
          /\ ~ KeyLess(SortKey(latest'[e].notice), SortKey(latest[e].notice))
  <2> SUFFICES ASSUME ShownInv, UNCHANGED storeVars, NEW e \in Events, latest[e] # None
               PROVE  ~ KeyLess(SortKey(latest[e].notice), SortKey(latest[e].notice))
    BY DEF storeVars, disk, pointers
  <2>1. latest[e].notice \in ParsedNotices
    BY DEF ShownInv, TypeInv, StoreTypeOK, Pointer
  <2> QED BY <2>1, KeyAsymmetric
<1>2. ShownInv /\ [StoreNext]_storeVars =>
        [\A e \in Events : latest[e] # None =>
          /\ latest'[e] # None
          /\ ~ KeyLess(SortKey(latest'[e].notice), SortKey(latest[e].notice))]_storeVars
  BY ShownIsNotDemoted
<1> QED BY <1>2, ShownInvariant, PTL DEF StoreSpec, NeverDemoted

-----------------------------------------------------------------------------
(* index.jsonl.                                                            *)

(* No append has been torn, so none has been lost in a fragment.           *)
NoneTorn == faults = 0 \/ "torn" \notin Faults

(* Between the two appends the history has the entry in hand and the index *)
(* does not.                                                               *)
IndexLags ==
  pc = "index" =>
    /\ \E k \in DOMAIN history[EventOf(cur)] : history[EventOf(cur)][k] = CurrentEntry
    /\ \A i \in DOMAIN index : index[i].notice # cur

(* The inductive invariant.                                                *)
IndexInv ==
  /\ FileInv
  /\ NoneTorn => fragments = {} /\ IndexWithinHistory /\ IndexLags

(* As long as none is torn, every append leaves the index within the       *)
(* histories: the history is appended to first.                            *)
LEMMA IndexStep ==
  ASSUME IndexInv, StoreNext
  PROVE  IndexInv'
<1>F. FileInv'
  BY FileStep DEF IndexInv
<1>H. /\ history \in [Events -> Seq(Entry)] /\ index \in Seq(Entry) /\ faults \in Nat
      /\ Storing => cur \in ParsedNotices /\ EventOf(cur) \in Events
  BY ParsedFields DEF IndexInv, FileInv, TypeInv, StoreTypeOK, HandOK
<1> SUFFICES ASSUME NoneTorn'
             PROVE  (fragments = {} /\ IndexWithinHistory /\ IndexLags)'
  BY <1>F DEF IndexInv
<1> USE DEF disk, files, lines, pointers, work
<1>1. NoneTorn /\ ~ TearAppend
  BY <1>H DEF NoneTorn, StoreNext, StoreStep, StoreFault, ProcessEnds, HandleMessage,
       SkipRedelivery, WriteNotice, LeaveWithoutMap, OpenSkymap, WriteSkymap, RefuseRegion,
       AppendHistory, AppendIndex, WriteLatest, NothingToPointAt, Unlink, Link,
       QuarantinePayload, Raise, TearAppend, LinkRefused, QuarantineFails, Crash, Restart,
       Return, Fault
<1>2. fragments = {} /\ IndexWithinHistory /\ IndexLags
  BY <1>1 DEF IndexInv
<1>3. CASE AppendHistory
  <2> DEFINE e0 == EventOf(cur)
             n == Len(history[e0]) + 1
  <2>1. /\ pc = "resolve" /\ pc' = "index"
        /\ history' = [history EXCEPT ![e0] = Append(@, CurrentEntry)]
        /\ fragments' = {} /\ UNCHANGED <<index, cur, skymaps>>
    BY <1>2, <1>3 DEF AppendHistory
  <2>2. cur \in ParsedNotices /\ e0 \in Events /\ ~InHistory(cur)
    BY <1>H, <2>1 DEF Storing, IndexInv, FileInv, HandFiles
  <2>3. history[e0] \in Seq(Entry) /\ CurrentEntry \in Entry /\ CurrentEntry.notice = cur
    BY <1>H, <2>2 DEF CurrentEntry, Entry, IndexInv, FileInv, TypeInv, StoreTypeOK
  <2>4. /\ n \in DOMAIN history'[e0] /\ history'[e0][n] = CurrentEntry
        /\ \A k \in DOMAIN history[e0] :
             k \in DOMAIN history'[e0] /\ history'[e0][k] = history[e0][k]
    BY <1>H, <2>1, <2>2, <2>3
  <2>5. \A e \in Events : e # e0 => history'[e] = history[e]
    BY <1>H, <2>1, <2>2
  <2>6. \A i \in DOMAIN index : EventOf(index[i].notice) \in Events
    <3>1. \A i \in DOMAIN index : index[i] \in Entry
      BY <1>H
    <3> QED BY <3>1, ParsedFields DEF Entry
  <2>7. IndexWithinHistory'
    BY <1>2, <2>1, <2>4, <2>5, <2>6 DEF IndexWithinHistory
  <2>8. \A i \in DOMAIN index : index[i].notice # cur
    BY <1>2, <2>2 DEF IndexWithinHistory, InHistory
  <2>9. CurrentEntry' = CurrentEntry
    BY <2>1 DEF CurrentEntry
  <2> QED BY <2>1, <2>4, <2>7, <2>8, <2>9 DEF IndexLags
<1>4. CASE AppendIndex
  <2> DEFINE n == Len(index) + 1
  <2>1. /\ pc = "index" /\ pc' = "latest"
        /\ index' = Append(index, CurrentEntry)
        /\ fragments' = {} /\ history' = history
    BY <1>2, <1>4 DEF AppendIndex
  <2>2. CurrentEntry \in Entry /\ CurrentEntry.notice = cur
    BY <1>H, <2>1 DEF Storing, CurrentEntry, Entry, IndexInv, FileInv, TypeInv, StoreTypeOK
  <2>3. /\ DOMAIN index' = DOMAIN index \cup {n} /\ index'[n] = CurrentEntry
        /\ \A i \in DOMAIN index : index'[i] = index[i]
    BY <1>H, <2>1, <2>2
  <2>4. IndexWithinHistory'
    BY <1>2, <2>1, <2>2, <2>3 DEF IndexWithinHistory, IndexLags
  <2> QED BY <2>1, <2>4 DEF IndexLags
<1>5. CASE UNCHANGED <<history, index, fragments>> /\ pc' # "index"
  BY <1>2, <1>5 DEF IndexWithinHistory, IndexLags
<1>6. \/ AppendHistory \/ AppendIndex
      \/ UNCHANGED <<history, index, fragments>> /\ pc' # "index"
  BY <1>1 DEF StoreNext, StoreStep, StoreFault, ProcessEnds, HandleMessage, SkipRedelivery,
         WriteNotice, LeaveWithoutMap, Resolving, OpenSkymap, WriteSkymap, RefuseRegion,
         WriteLatest, NothingToPointAt, Unlink, Link, QuarantinePayload, Raise,
         LinkRefused, QuarantineFails, Crash, Forget, Restart, Return
<1> QED BY <1>3, <1>4, <1>5, <1>6

(* A step of anything but the store, or one that only puts a handled       *)
(* notice down or counts a fault.                                          *)
LEMMA IndexQuiet ==
  ASSUME IndexInv, FileInv', UNCHANGED lines, faults' >= faults,
         \/ pc' = pc /\ UNCHANGED <<cur, skymaps>>
         \/ pc' # "index"
  PROVE  IndexInv'
<1>1. faults \in Nat /\ faults' \in Nat
  BY DEF IndexInv, FileInv, TypeInv, StoreTypeOK
<1>2. NoneTorn' => NoneTorn
  BY <1>1 DEF NoneTorn
<1> QED
  BY <1>2 DEF IndexInv, IndexWithinHistory, IndexLags, CurrentEntry, lines

(* It is an invariant of the store.                                        *)
LEMMA IndexInvariant == StoreSpec => []IndexInv
<1>1. StoreInit => IndexInv
  BY FileInit DEF StoreInit, IndexInv, IndexWithinHistory, IndexLags
<1>2. IndexInv /\ UNCHANGED storeVars => IndexInv'
  <2> SUFFICES ASSUME IndexInv, UNCHANGED storeVars PROVE IndexInv'
    OBVIOUS
  <2>1. FileInv'
    BY FileStutter DEF IndexInv
  <2>2. faults' = faults /\ faults \in Nat
    BY DEF storeVars, IndexInv, FileInv, TypeInv, StoreTypeOK
  <2> QED BY <2>1, <2>2, IndexQuiet DEF storeVars, disk, work
<1>3. IndexInv /\ [StoreNext]_storeVars => IndexInv'
  BY <1>2, IndexStep
<1> QED BY <1>1, <1>3, PTL DEF StoreSpec

(* If no append is ever torn the index lists nothing twice and nothing     *)
(* that the event's history does not list with the same maps.              *)
THEOREM StoreIndexIsOfHistory ==
  ASSUME "torn" \notin Faults
  PROVE  StoreSpec => []IndexWithinHistory
<1>1. IndexInv => IndexWithinHistory
  BY DEF IndexInv, NoneTorn
<1> QED BY <1>1, IndexInvariant, PTL

-----------------------------------------------------------------------------
(* Agreement of the store with itself.                                     *)

Indexed == {index[i] : i \in DOMAIN index}

HistoryEntries == UNION {{history[e][i] : i \in DOMAIN history[e]} : e \in Events}

(* What is shown of an event is what its history calls for.                *)
ShownAgrees(e) ==
  IF history[e] = <<>> THEN latest[e] = None /\ latest_fits[e] = None
  ELSE latest[e] \in PointersOf(history[e]) /\ latest_fits[e] = latest[e].latest_skymap

Pointing == {"index", "latest", "unlink", "link"}

(* Neither depends on anything but the lines.                              *)
LEMMA SameEntries ==
  ASSUME UNCHANGED <<history, index>>
  PROVE  Indexed' = Indexed /\ HistoryEntries' = HistoryEntries
BY DEF Indexed, HistoryEntries

(* While nothing has failed, only the event in hand can be behind, and how *)
(* far is a matter of pc.                                                  *)
Agreement ==
  /\ pc # "down"
  /\ Indexed = HistoryEntries \ (IF pc = "index" THEN {CurrentEntry} ELSE {})
  /\ \A e \in Events : (pc \in Pointing => e # EventOf(cur)) => ShownAgrees(e)
  /\ pc \in Pointing => history[EventOf(cur)] # <<>>
  /\ pc \in {"unlink", "link"} =>
       /\ latest[EventOf(cur)] \in PointersOf(history[EventOf(cur)])
       /\ target = latest[EventOf(cur)].latest_skymap

(* The inductive invariant.                                                *)
AgreeInv == IndexInv /\ (faults = 0 => Agreement)

(* No step breaks it: a call leaves its event behind only until it is      *)
(* done, and leaves every other event alone.                               *)
LEMMA AgreeStep ==
  ASSUME AgreeInv, StoreNext
  PROVE  AgreeInv'
<1>I. IndexInv'
  BY IndexStep DEF AgreeInv
<1>H. /\ history \in [Events -> Seq(Entry)] /\ index \in Seq(Entry) /\ faults \in Nat
      /\ latest \in [Events -> Pointer \cup {None}]
      /\ latest_fits \in [Events -> MapFile \cup {None}]
      /\ Storing => cur \in ParsedNotices /\ EventOf(cur) \in Events
  BY ParsedFields DEF AgreeInv, IndexInv, FileInv, TypeInv, StoreTypeOK, HandOK
<1> SUFFICES ASSUME faults' = 0
             PROVE  Agreement'
  BY <1>I DEF AgreeInv
<1>1. faults = 0 /\ ~ StoreFault /\ ~ ProcessEnds
  BY <1>H DEF StoreNext, StoreStep, StoreFault, ProcessEnds, HandleMessage, SkipRedelivery,
       WriteNotice, LeaveWithoutMap, OpenSkymap, WriteSkymap, RefuseRegion,
       AppendHistory, AppendIndex, WriteLatest, NothingToPointAt, Unlink, Link,
       QuarantinePayload, Raise, TearAppend, LinkRefused, QuarantineFails, Crash, Restart,
       Return, Fault
<1>2. Agreement /\ fragments = {} /\ IndexLags
  BY <1>1 DEF AgreeInv, IndexInv, NoneTorn
<1> DEFINE e0 == EventOf(cur)
<1> USE DEF disk, files, lines, pointers, work
<1>3. CASE AppendHistory
  <2> DEFINE n == Len(history[e0]) + 1
  <2>1. /\ pc = "resolve" /\ pc' = "index"
        /\ history' = [history EXCEPT ![e0] = Append(@, CurrentEntry)]
        /\ UNCHANGED <<index, latest, latest_fits, cur, skymaps>>
    BY <1>2, <1>3 DEF AppendHistory
  <2>2. cur \in ParsedNotices /\ e0 \in Events /\ ~InHistory(cur)
    BY <1>H, <2>1 DEF Storing, AgreeInv, IndexInv, FileInv, HandFiles
  <2>3. history[e0] \in Seq(Entry) /\ CurrentEntry \in Entry /\ CurrentEntry.notice = cur
    BY <1>H, <2>2 DEF CurrentEntry, Entry, AgreeInv, IndexInv, FileInv, TypeInv, StoreTypeOK
  <2>4. /\ DOMAIN history'[e0] = DOMAIN history[e0] \cup {n} /\ history'[e0] # <<>>
        /\ history'[e0][n] = CurrentEntry
        /\ \A k \in DOMAIN history[e0] : history'[e0][k] = history[e0][k]
    BY <1>H, <2>1, <2>2, <2>3
  <2>5. \A e \in Events : e # e0 => history'[e] = history[e]
    BY <1>H, <2>1, <2>2
  <2>6. HistoryEntries' = HistoryEntries \cup {CurrentEntry}
    BY <2>2, <2>4, <2>5 DEF HistoryEntries
  <2>7. CurrentEntry \notin HistoryEntries
    <3> SUFFICES ASSUME NEW e \in Events, NEW k \in DOMAIN history[e]
                 PROVE  history[e][k].notice # cur
      BY <2>3 DEF HistoryEntries
    <3>1. EventOf(history[e][k].notice) = e
      BY DEF AgreeInv, IndexInv, FileInv, EntriesOK
    <3> QED BY <2>2, <3>1 DEF InHistory
  <2>8. Indexed' = HistoryEntries' \ {CurrentEntry'}
    BY <1>2, <2>1, <2>6, <2>7 DEF Agreement, Indexed, CurrentEntry
  <2>9. ASSUME NEW e \in Events, e # e0
        PROVE  ShownAgrees(e)'
    BY <1>2, <2>1, <2>5, <2>9 DEF Agreement, Pointing, ShownAgrees
  <2> QED BY <2>1, <2>4, <2>8, <2>9 DEF Agreement, Pointing
<1>4. CASE AppendIndex
  <2> DEFINE n == Len(index) + 1
  <2>1. /\ pc = "index" /\ pc' = "latest"
        /\ index' = Append(index, CurrentEntry)
        /\ UNCHANGED <<history, latest, latest_fits, cur>>
    BY <1>2, <1>4 DEF AppendIndex
  <2>2. e0 \in Events /\ CurrentEntry \in Entry
    BY <1>H, <2>1 DEF Storing, CurrentEntry, Entry, AgreeInv, IndexInv, FileInv, TypeInv, StoreTypeOK
  <2>3. /\ DOMAIN index' = DOMAIN index \cup {n} /\ index'[n] = CurrentEntry
        /\ \A i \in DOMAIN index : index'[i] = index[i]
    BY <1>H, <2>1, <2>2
  <2>4. Indexed' = Indexed \cup {CurrentEntry}
    BY <2>3 DEF Indexed
  <2>5. CurrentEntry \in HistoryEntries
    BY <1>2, <2>1, <2>2 DEF IndexLags, HistoryEntries
  <2>6. Indexed' = HistoryEntries'
    BY <1>2, <2>1, <2>4, <2>5 DEF Agreement, HistoryEntries
  <2>7. \A e \in Events : e # e0 => ShownAgrees(e)'
    BY <1>2, <2>1 DEF Agreement, Pointing, ShownAgrees
  <2> QED BY <1>2, <2>1, <2>6, <2>7 DEF Agreement, Pointing
<1>5. CASE WriteLatest
  <2>1. PICK p \in PointersOf(history[e0]) :
          latest' = [latest EXCEPT ![e0] = p] /\ target' = p.latest_skymap
    BY <1>5 DEF WriteLatest
  <2>2. /\ pc = "latest" /\ pc' = "unlink" /\ history[e0] # <<>>
        /\ UNCHANGED <<history, index, latest_fits, cur>>
    BY <1>5 DEF WriteLatest
  <2>3. e0 \in Events /\ latest'[e0] = p
    BY <1>H, <2>1, <2>2 DEF Storing
  <2>4. Indexed' = HistoryEntries'
    BY <1>2, <2>2, SameEntries DEF Agreement
  <2>5. \A e \in Events : e # e0 => latest'[e] = latest[e]
    BY <1>H, <2>1
  <2>6. \A e \in Events : e # e0 => ShownAgrees(e)'
    BY <1>2, <2>2, <2>5 DEF Agreement, Pointing, ShownAgrees
  <2> QED BY <2>1, <2>2, <2>3, <2>4, <2>6 DEF Agreement, Pointing
<1>6. CASE Unlink \/ Link
  <2>1. /\ pc \in {"unlink", "link"} /\ e0 \in Events
        /\ latest[e0] \in PointersOf(history[e0]) /\ target = latest[e0].latest_skymap
        /\ history[e0] # <<>>
        /\ UNCHANGED <<history, index, latest, cur>>
    BY <1>H, <1>2, <1>6 DEF Unlink, Link, Storing, Agreement, Pointing
  <2>2. /\ \A e \in Events : e # e0 => latest_fits'[e] = latest_fits[e]
        /\ \/ pc' = "handled" /\ latest_fits'[e0] = target
           \/ pc' = "link" /\ target' = target
    BY <1>H, <1>6, <2>1 DEF Unlink, Link
  <2>3. Indexed' = HistoryEntries'
    BY <1>2, <2>1, SameEntries DEF Agreement
  <2>4. \A e \in Events : e # e0 => ShownAgrees(e)'
    BY <1>2, <2>1, <2>2 DEF Agreement, Pointing, ShownAgrees
  <2>5. CASE pc' = "handled" /\ latest_fits'[e0] = target
    <3>1. ShownAgrees(e0)'
      BY <2>1, <2>5 DEF ShownAgrees
    <3> QED BY <2>1, <2>3, <2>4, <2>5, <3>1 DEF Agreement, Pointing
  <2>6. CASE pc' = "link" /\ target' = target
    BY <2>1, <2>3, <2>4, <2>6 DEF Agreement, Pointing
  <2> QED BY <2>2, <2>5, <2>6
<1>7. CASE /\ UNCHANGED <<history, index, latest, latest_fits>>
           /\ pc \notin Pointing /\ pc' \notin Pointing /\ pc' # "down"
  BY <1>2, <1>7, SameEntries DEF Agreement, Pointing, ShownAgrees
<1>8. \/ AppendHistory \/ AppendIndex \/ WriteLatest \/ Unlink \/ Link
      \/ /\ UNCHANGED <<history, index, latest, latest_fits>>
         /\ pc \notin Pointing /\ pc' \notin Pointing /\ pc' # "down"
  BY <1>1, <1>2
     DEF StoreNext, StoreStep, HandleMessage, SkipRedelivery, WriteNotice, LeaveWithoutMap,
         Resolving, OpenSkymap, WriteSkymap, RefuseRegion, NothingToPointAt,
         QuarantinePayload, Restart, Return, Agreement, Pointing
<1> QED BY <1>3, <1>4, <1>5, <1>6, <1>7, <1>8

(* While nothing has failed a store at rest agrees with itself: the index  *)
(* lists what the histories list, latest.json is the best of the whole     *)
(* history and latest.fits names its map.                                  *)
THEOREM StoreAgreesWithItself == StoreSpec => []StoreAgrees
<1>1. StoreInit => AgreeInv
  BY FileInit
     DEF StoreInit, AgreeInv, IndexInv, IndexWithinHistory, IndexLags, Agreement, Indexed,
         HistoryEntries, ShownAgrees, Pointing
<1>2. AgreeInv /\ UNCHANGED storeVars => AgreeInv'
  <2> SUFFICES ASSUME AgreeInv, UNCHANGED storeVars PROVE AgreeInv'
    OBVIOUS
  <2>1. FileInv'
    BY FileStutter DEF AgreeInv, IndexInv
  <2>2. faults' = faults /\ faults \in Nat
    BY DEF storeVars, AgreeInv, IndexInv, FileInv, TypeInv, StoreTypeOK
  <2>3. IndexInv'
    BY <2>1, <2>2, IndexQuiet DEF AgreeInv, storeVars, disk, work
  <2>4. UNCHANGED <<history, index, latest, latest_fits, pc, cur, skymaps, target>>
    BY DEF storeVars, disk, files, lines, pointers, work
  <2>5. \A e \in Events : ShownAgrees(e) => ShownAgrees(e)'
    BY <2>4 DEF ShownAgrees
  <2>6. Agreement => Agreement'
    BY <2>4, <2>5, SameEntries DEF Agreement, CurrentEntry
  <2> QED BY <2>2, <2>3, <2>6 DEF AgreeInv
<1>3. AgreeInv /\ [StoreNext]_storeVars => AgreeInv'
  BY <1>2, AgreeStep
<1>4. AgreeInv => StoreAgrees
  <2> SUFFICES ASSUME AgreeInv, faults = 0, Settled
               PROVE  /\ \A i, j \in DOMAIN index : index[i] = index[j] => i = j
                      /\ Indexed = HistoryEntries
                      /\ \A e \in Events : ShownAgrees(e)
    BY DEF StoreAgrees, Indexed, HistoryEntries, ShownAgrees
  <2>1. IndexWithinHistory /\ Agreement
    BY DEF AgreeInv, IndexInv, NoneTorn
  <2> QED BY <2>1 DEF IndexWithinHistory, Agreement, Settled, Pointing
<1> QED BY <1>1, <1>3, <1>4, PTL DEF StoreSpec
-----------------------------------------------------------------------------
(* The maps of an entry.                                                   *)

(* Map m is the one of a localization: of its object, under its label and  *)
(* made in one of its ways.                                                *)
MadeOf(m, loc) ==
  m.object = loc.object /\ m.path.label = loc.label /\ m.path.source \in MapSources(loc)

(* Of the localizations of n up to a place, each from which resolve_skymap *)
(* makes a map in any case has its own among maps.                         *)
MappedUpTo(n, maps, upto) ==
  \A l \in 1 .. upto :
    None \notin MapSources(Localizations(n)[l]) =>
      \E k \in DOMAIN maps : MadeOf(maps[k], Localizations(n)[l])

(* Map m is of a localization of n.                                        *)
OfSome(n, m) == \E l \in DOMAIN Localizations(n) : MadeOf(m, Localizations(n)[l])

(* Under the path of m is what was written there for one of maps.          *)
InPlace(maps, m) == \E j \in DOMAIN maps : maps[j].path = m.path /\ maps[j] \in skymap_files

Mapped(entry) ==
  /\ MappedUpTo(entry.notice, entry.skymaps, Len(Localizations(entry.notice)))
  /\ \A k \in DOMAIN entry.skymaps :
       OfSome(entry.notice, entry.skymaps[k]) /\ InPlace(entry.skymaps, entry.skymaps[k])

(* So it is, as far as the loop has come, of the notice in hand, but for   *)
(* the maps whose file is being overwritten; and the file being written is *)
(* that of the localization in turn.                                       *)
HandMapped ==
  /\ pc \in {"resolve", "write_skymap"} =>
       /\ place <= Len(Localizations(cur)) + 1
       /\ MappedUpTo(cur, skymaps, place - 1)
       /\ \A k \in DOMAIN skymaps :
            /\ OfSome(cur, skymaps[k])
            /\ \/ InPlace(skymaps, skymaps[k])
               \/ pc = "write_skymap" /\ skymaps[k].path = target
  /\ pc = "write_skymap" =>
       target.label = InTurn.label /\ target.source \in MapSources(InTurn)

RecordsMapped == \A e \in Events : \A i \in DOMAIN history[e] : Mapped(history[e][i])

(* The inductive invariant.                                                *)
MapsInv == FileInv /\ HandMapped /\ RecordsMapped

(* A step that leaves the histories and the complete maps alone and does   *)
(* not end among the maps.                                                 *)
LEMMA MapsQuiet ==
  ASSUME MapsInv, FileInv', UNCHANGED <<history, skymap_files>>,
         \/ pc' = pc /\ UNCHANGED <<cur, work>>
         \/ pc' \notin {"resolve", "write_skymap"}
  PROVE  MapsInv'
<1>1. RecordsMapped'
  BY DEF MapsInv, RecordsMapped, Mapped, InPlace
<1>2. HandMapped'
  BY DEF MapsInv, HandMapped, InPlace, InTurn, work
<1> QED BY <1>1, <1>2 DEF MapsInv

(* One more localization of the notice in hand is dealt with.              *)
LEMMA MappedNext ==
  ASSUME NEW n, NEW maps, NEW more, NEW l \in Nat \ {0},
         MappedUpTo(n, maps, l - 1),
         \A k \in DOMAIN maps : k \in DOMAIN more /\ more[k] = maps[k],
         None \notin MapSources(Localizations(n)[l]) =>
           \E k \in DOMAIN more : MadeOf(more[k], Localizations(n)[l])
  PROVE  MappedUpTo(n, more, l)
<1> SUFFICES ASSUME NEW i \in 1 .. l, None \notin MapSources(Localizations(n)[i])
             PROVE  \E k \in DOMAIN more : MadeOf(more[k], Localizations(n)[i])
  BY DEF MappedUpTo
<1>1. CASE i = l
  BY <1>1
<1>2. CASE i # l
  <2>1. i \in 1 .. l - 1
    BY <1>2
  <2>2. PICK k \in DOMAIN maps : MadeOf(maps[k], Localizations(n)[i])
    BY <2>1 DEF MappedUpTo
  <2> QED BY <2>2
<1> QED BY <1>1, <1>2

(* Every step preserves it: the loop over the localizations leaves one     *)
(* behind only with its map, or if it may have none, and what it writes is *)
(* under no path that an entry on record lists.                            *)
LEMMA MapsStep ==
  ASSUME MapsInv, StoreNext
  PROVE  MapsInv'
<1>F. FileInv'
  BY FileStep DEF MapsInv
<1>H. /\ history \in [Events -> Seq(Entry)] /\ skymaps \in Seq(Skymap) /\ place \in Nat \ {0}
      /\ Storing => /\ cur \in ParsedNotices /\ EventOf(cur) \in Events
                    /\ Localizations(cur) \in Seq(Localization)
  BY ParsedFields DEF MapsInv, FileInv, TypeInv, StoreTypeOK, HandOK
<1> USE DEF files, lines, pointers, disk, work
<1>1. CASE /\ UNCHANGED <<history, skymap_files>>
           /\ \/ pc' = pc /\ UNCHANGED <<cur, work>>
              \/ pc' \notin {"resolve", "write_skymap"}
  BY <1>F, <1>1, MapsQuiet
<1>2. CASE WriteNotice
  <2>1. /\ pc' = "resolve" /\ skymaps' = <<>> /\ place' = 1 /\ cur' = cur
        /\ UNCHANGED <<history, skymap_files>> /\ Localizations(cur) \in Seq(Localization)
    BY <1>2, <1>H DEF WriteNotice, Storing
  <2>2. MappedUpTo(cur, <<>>, 0)
    BY DEF MappedUpTo
  <2>3. HandMapped'
    BY <2>1, <2>2 DEF HandMapped
  <2>4. RecordsMapped'
    BY <2>1 DEF MapsInv, RecordsMapped, Mapped, InPlace
  <2> QED BY <1>F, <2>3, <2>4 DEF MapsInv
<1>3. CASE LeaveWithoutMap
  <2>1. /\ pc = "resolve" /\ pc' = "resolve" /\ place' = place + 1
        /\ place \in DOMAIN Localizations(cur)
        /\ None \in MapSources(Localizations(cur)[place])
        /\ UNCHANGED <<history, skymap_files, cur, skymaps>>
        /\ Localizations(cur) \in Seq(Localization)
    BY <1>3, <1>H DEF LeaveWithoutMap, Resolving, InTurn, Storing
  <2>2. MappedUpTo(cur, skymaps, place)
    BY <1>H, <2>1, MappedNext DEF MapsInv, HandMapped
  <2>3. place' - 1 = place /\ place' <= Len(Localizations(cur)) + 1
    BY <1>H, <2>1
  <2>4. \A k \in DOMAIN skymaps : OfSome(cur, skymaps[k]) /\ InPlace(skymaps, skymaps[k])
    BY <2>1 DEF MapsInv, HandMapped
  <2>5. HandMapped'
    BY <2>1, <2>2, <2>3, <2>4 DEF HandMapped, InPlace
  <2>6. RecordsMapped'
    BY <2>1 DEF MapsInv, RecordsMapped, Mapped, InPlace
  <2> QED BY <1>F, <2>5, <2>6 DEF MapsInv
<1>4. CASE \E s \in {"real", "synthesized"} : OpenSkymap(s)
  <2>1. PICK s \in {"real", "synthesized"} : OpenSkymap(s)
    BY <1>4
  <2> DEFINE m == [notice |-> cur, label |-> InTurn.label, source |-> s]
  <2>2. /\ pc = "resolve" /\ pc' = "write_skymap"
        /\ target' = m /\ m.notice = cur /\ m.label = InTurn.label /\ m.source = s
        /\ skymap_files' = {f \in skymap_files : f.path # m}
        /\ s \in MapSources(InTurn) /\ InTurn' = InTurn
        /\ UNCHANGED <<history, cur, skymaps, place>>
    BY <2>1 DEF OpenSkymap, Truncate, Resolving, InTurn
  <2> HIDE DEF m
  <2>3. ASSUME NEW maps, NEW k \in DOMAIN maps, InPlace(maps, maps[k]), maps[k].path # m
        PROVE  InPlace(maps, maps[k])'
    BY <2>2, <2>3 DEF InPlace
  <2>4. \A k \in DOMAIN skymaps :
          OfSome(cur, skymaps[k]) /\ (InPlace(skymaps, skymaps[k])' \/ skymaps[k].path = m)
    BY <2>2, <2>3 DEF MapsInv, HandMapped
  <2>5. HandMapped'
    BY <2>2, <2>4 DEF MapsInv, HandMapped
  <2>6. ASSUME NEW e \in Events, NEW i \in DOMAIN history[e]
        PROVE  Mapped(history[e][i])'
    <3>1. history[e][i].notice # cur
      BY <2>2 DEF MapsInv, FileInv, EntriesOK, HandFiles, InHistory
    <3>2. \A k \in DOMAIN history[e][i].skymaps : history[e][i].skymaps[k].path # m
      BY <2>2, <3>1 DEF MapsInv, FileInv, EntriesOK
    <3>3. Mapped(history[e][i])
      BY DEF MapsInv, RecordsMapped
    <3> DEFINE maps == history[e][i].skymaps
    <3>4. \A k \in DOMAIN maps : InPlace(maps, maps[k])'
      BY <2>2, <2>3, <3>2, <3>3 DEF Mapped
    <3> QED BY <2>2, <3>3, <3>4 DEF Mapped
  <2>7. RecordsMapped'
    BY <2>2, <2>6 DEF RecordsMapped
  <2> QED BY <1>F, <2>5, <2>7 DEF MapsInv
<1>5. CASE WriteSkymap
  <2> DEFINE m == [path |-> target, object |-> InTurn.object]
             more == Append(skymaps, m)
  <2>1. /\ pc = "write_skymap" /\ pc' = "resolve" /\ place' = place + 1
        /\ skymaps' = more /\ skymap_files' = skymap_files \cup {m}
        /\ m.path = target /\ m.object = InTurn.object
        /\ UNCHANGED <<history, cur>> /\ Localizations(cur) \in Seq(Localization)
        /\ place \in DOMAIN Localizations(cur) /\ target \in MapFile
    BY <1>5, <1>H DEF WriteSkymap, Storing, MapsInv, FileInv, TypeInv, HandOK
  <2>2. m \in Skymap
    BY <1>H, <2>1, InTurnType DEF Storing, Skymap, Localization
  <2> HIDE DEF m
  <2>3. /\ \A k \in DOMAIN skymaps : k \in DOMAIN more /\ more[k] = skymaps[k]
        /\ Len(skymaps) + 1 \in DOMAIN more /\ more[Len(skymaps) + 1] = m
        /\ \A k \in DOMAIN more : more[k] = m \/ (k \in DOMAIN skymaps /\ more[k] = skymaps[k])
    BY <1>H, <2>2
  <2> HIDE DEF more
  <2>4. MadeOf(m, Localizations(cur)[place])
    BY <2>1 DEF MapsInv, HandMapped, MadeOf, InTurn
  <2>5. MappedUpTo(cur, more, place)
    <3>1. MappedUpTo(cur, skymaps, place - 1)
      BY <2>1 DEF MapsInv, HandMapped
    <3>2. \E k \in DOMAIN more : MadeOf(more[k], Localizations(cur)[place])
      BY <2>3, <2>4
    <3> QED BY <1>H, <2>3, <3>1, <3>2, MappedNext
  <2>6. place' - 1 = place /\ place' <= Len(Localizations(cur)) + 1
    BY <1>H, <2>1
  <2>7. \A k \in DOMAIN more : OfSome(cur, more[k])
    BY <2>1, <2>3, <2>4 DEF MapsInv, HandMapped, OfSome
  <2>8. ASSUME NEW k \in DOMAIN skymaps' PROVE InPlace(skymaps, skymaps[k])'
    <3>1. CASE more[k].path = target
      BY <2>1, <2>3, <3>1 DEF InPlace
    <3>2. CASE k \in DOMAIN skymaps /\ more[k] = skymaps[k] /\ InPlace(skymaps, skymaps[k])
      BY <2>1, <2>3, <3>2 DEF InPlace
    <3> QED BY <2>1, <2>3, <3>1, <3>2 DEF MapsInv, HandMapped
  <2>9. HandMapped'
    BY <2>1, <2>5, <2>6, <2>7, <2>8 DEF HandMapped
  <2>10. RecordsMapped'
    BY <2>1 DEF MapsInv, RecordsMapped, Mapped, InPlace
  <2> QED BY <1>F, <2>9, <2>10 DEF MapsInv
<1>6. CASE AppendHistory
  <2> DEFINE e0 == EventOf(cur)
  <2>1. /\ pc = "resolve" /\ pc' = "index" /\ place \notin DOMAIN Localizations(cur)
        /\ history' = IF e0 \in fragments THEN history
                      ELSE [history EXCEPT ![e0] = Append(@, CurrentEntry)]
        /\ UNCHANGED skymap_files
    BY <1>6 DEF AppendHistory
  <2>2. /\ cur \in ParsedNotices /\ e0 \in Events /\ Localizations(cur) \in Seq(Localization)
    BY <1>H, <2>1 DEF Storing
  <2>3. place - 1 = Len(Localizations(cur))
    BY <1>H, <2>1, <2>2 DEF MapsInv, HandMapped
  <2>4. Mapped(CurrentEntry) /\ CurrentEntry \in Entry
    BY <1>H, <2>1, <2>2, <2>3 DEF MapsInv, HandMapped, Mapped, CurrentEntry, Entry
  <2>5. \A e \in Events : \A i \in DOMAIN history'[e] :
          \/ history'[e][i] = CurrentEntry
          \/ i \in DOMAIN history[e] /\ history'[e][i] = history[e][i]
    <3>1. CASE e0 \in fragments
      BY <2>1, <3>1
    <3>2. CASE e0 \notin fragments
      <4>1. history[e0] \in Seq(Entry) /\ history'[e0] = Append(history[e0], CurrentEntry)
        BY <1>H, <2>1, <2>2, <3>2
      <4>2. \A i \in DOMAIN history'[e0] :
              \/ history'[e0][i] = CurrentEntry
              \/ i \in DOMAIN history[e0] /\ history'[e0][i] = history[e0][i]
        BY <2>4, <4>1
      <4>3. \A e \in Events : e # e0 => history'[e] = history[e]
        BY <1>H, <2>1, <2>2
      <4> QED BY <4>2, <4>3
    <3> QED BY <3>1, <3>2
  <2>6. \A e \in Events : \A i \in DOMAIN history'[e] : Mapped(history'[e][i])
    BY <2>4, <2>5 DEF MapsInv, RecordsMapped
  <2>7. RecordsMapped'
    BY <2>1, <2>6 DEF RecordsMapped, Mapped, InPlace
  <2>8. HandMapped'
    BY <2>1 DEF HandMapped
  <2> QED BY <1>F, <2>7, <2>8 DEF MapsInv
<1>7. \/ WriteNotice \/ LeaveWithoutMap \/ WriteSkymap \/ AppendHistory
      \/ \E s \in {"real", "synthesized"} : OpenSkymap(s)
      \/ /\ UNCHANGED <<history, skymap_files>>
         /\ \/ pc' = pc /\ UNCHANGED <<cur, work>>
            \/ pc' \notin {"resolve", "write_skymap"}
  BY DEF StoreNext, StoreStep, StoreFault, ProcessEnds, HandleMessage, SkipRedelivery,
         RefuseRegion, AppendIndex, WriteLatest, NothingToPointAt, Unlink, Link,
         QuarantinePayload, Raise, TearAppend, LinkRefused, QuarantineFails, Crash, Forget,
         Restart, Return
<1> QED BY <1>1, <1>2, <1>3, <1>4, <1>5, <1>6, <1>7

(* It is an invariant of the store.                                        *)
LEMMA MapsInvariant == StoreSpec => []MapsInv
<1>1. StoreInit => MapsInv
  BY FileInit DEF StoreInit, MapsInv, HandMapped, RecordsMapped
<1>2. MapsInv /\ UNCHANGED storeVars => MapsInv'
  <2> SUFFICES ASSUME MapsInv, UNCHANGED storeVars PROVE MapsInv'
    OBVIOUS
  <2>1. FileInv'
    BY FileStutter DEF MapsInv
  <2> QED BY <2>1, MapsQuiet DEF storeVars, disk, lines, files
<1>3. MapsInv /\ [StoreNext]_storeVars => MapsInv'
  BY <1>2, MapsStep
<1> QED BY <1>1, <1>3, PTL DEF StoreSpec
=============================================================================
