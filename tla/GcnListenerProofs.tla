-------------------------- MODULE GcnListenerProofs --------------------------
(***************************************************************************)
(* Proofs about GcnListener, for any partitions, batch size, number of     *)
(* messages and combination and number of faults; and that the listener    *)
(* over the store implements NoticeArchive.                                *)
(***************************************************************************)
EXTENDS GcnListener, GcnStoreShownProofs

ListenerTypes ==
  /\ log \in [Partitions -> Seq(Notices)]
  /\ committed \in [Partitions -> Nat] /\ fetch \in [Partitions -> Nat]
  /\ next \in [Partitions -> Nat] /\ end \in [Partitions -> Nat]
  /\ part \in Partitions
  /\ loop \in {"top", "batch", "exited"} /\ once \in BOOLEAN /\ stop \in BOOLEAN
  /\ empties \in 0 .. DRAIN_EMPTY_BATCHES

(* No offset runs ahead of the log.                                        *)
OffsetsOK ==
  \A p \in Partitions : /\ committed[p] <= Len(log[p]) /\ fetch[p] <= Len(log[p])
                        /\ next[p] <= Len(log[p]) /\ end[p] <= Len(log[p])

(* The notice in hand is the next message of its partition.                *)
InHand == pc \notin {"idle", "down"}

MessageInHand ==
  InHand => /\ loop = "batch" /\ next[part] < end[part]
            /\ cur = log[part][next[part] + 1]

(* The part of the inductive invariants that says where the listener is.   *)
ControlInv == FileInv /\ ListenerTypes /\ OffsetsOK /\ MessageInHand

-----------------------------------------------------------------------------
(* What the store does under the listener.                                 *)

(* A step of the listener is a step of the store, or leaves the store as   *)
(* it is but for the count of faults, or puts a handled message down.      *)
Counted == UNCHANGED <<disk, work, pc, cur>> /\ faults' \in {faults, faults + 1}

PutsDown ==
  pc = "handled" /\ pc' = "idle" /\ PutDown /\ UNCHANGED disk /\ faults' = faults + 1

LEMMA StoreMoves ==
  ASSUME ControlInv, Next
  PROVE  StoreNext \/ Counted \/ PutsDown
<1>1. \A p \in Partitions : /\ log[p] \in Seq(Notices) /\ next[p] \in Nat /\ end[p] \in Nat
                           /\ end[p] <= Len(log[p])
  BY DEF ControlInv, ListenerTypes, OffsetsOK
<1>2. ASSUME NEW p \in Partitions, Take(p)
      PROVE  StoreNext
  <2>1. log[p][next[p] + 1] \in Notices
    BY <1>1, <1>2 DEF Take
  <2> QED BY <1>2, <2>1 DEF Take, StoreNext
<1>3. CASE \/ \E p \in Partitions : \E n \in Feed[p] : Publish(p, n)
           \/ EndBatch \/ StopAtTop \/ Signal \/ StartAgain
  BY <1>3 DEF Publish, EndBatch, StopAtTop, Signal, StartAgain, Counted, storeVars
<1>4. CASE \/ Rebalance
           \/ \E upto \in [Partitions -> 0 .. MaxLog], errors \in BOOLEAN : Consume(upto, errors)
  BY <1>4 DEF Rebalance, Consume, Fault, Counted
<1>5. CASE WithinMessage \/ Commit \/ Dies \/ RestartAfterEnd
  BY <1>5 DEF WithinMessage, Commit, Dies, RestartAfterEnd, StoreNext
<1>6. CASE CommitLost
  BY <1>6 DEF CommitLost, PutsDown, Fault
<1> QED BY <1>2, <1>3, <1>4, <1>5, <1>6 DEF Next

(* The files of the store stay in order.                                   *)
LEMMA ListenerFiles ==
  ASSUME ControlInv, Next \/ UNCHANGED vars
  PROVE  FileInv'
<1>1. FileInv /\ faults \in Nat
  BY DEF ControlInv, FileInv, TypeInv, StoreTypeOK
<1>2. CASE StoreNext
  BY <1>1, <1>2, FileStep
<1>3. CASE Counted
  <2> USE DEF disk, files, lines, pointers, work
  <2>1. TypeInv'
    BY <1>1, <1>3 DEF Counted, FileInv, TypeInv, StoreTypeOK, HandOK, Storing
  <2>2. (EntriesOK /\ PointersOK /\ HandFiles /\ StoredOnce)'
    BY <1>1, <1>3 DEF Counted, FileInv, EntriesOK, PointersOK, HandFiles, InHistory, StoredOnce,
                      Listed, CompleteMaps
  <2> QED BY <2>1, <2>2 DEF FileInv
<1>4. CASE PutsDown
  <2> USE DEF disk, files, lines, pointers, work
  <2>1. TypeInv'
    BY <1>1, <1>4 DEF PutsDown, FileInv, TypeInv, StoreTypeOK, HandOK, Storing, PutDown
  <2> QED BY <1>1, <1>4, <2>1, FileQuiet DEF PutsDown
<1>5. CASE UNCHANGED vars
  BY <1>1, <1>5, FileStutter DEF vars
<1> QED BY <1>2, <1>3, <1>4, <1>5, StoreMoves

(* Within a message the store keeps to that message.                       *)
LEMMA StoreWithin ==
  ASSUME StoreStep \/ StoreFault
  PROVE  InHand /\ InHand' /\ cur' = cur
BY DEF InHand, StoreStep, StoreFault, SkipRedelivery, WriteNotice, LeaveWithoutMap, Resolving,
       WriteSkymap, OpenSkymap, AppendHistory, RefuseRegion, AppendIndex, WriteLatest,
       NothingToPointAt, Unlink, Link, QuarantinePayload, Raise, TearAppend, LinkRefused, Fault

-----------------------------------------------------------------------------
(* Where the listener is.                                                  *)

(* Before anything is published it holds.                                  *)
LEMMA ControlInit == Init => ControlInv
<1> SUFFICES ASSUME Init PROVE ControlInv
  OBVIOUS
<1>1. FileInv
  BY FileInit DEF Init
<1>2. ListenerTypes
  <2>1. <<>> \in Seq(Notices)
    OBVIOUS
  <2>2. log \in [Partitions -> Seq(Notices)]
    BY <2>1 DEF Init
  <2>3. empties \in 0 .. DRAIN_EMPTY_BATCHES
    BY ListenerAssumption DEF Init
  <2>4. once \in BOOLEAN
    BY ListenerAssumption DEF Init
  <2> QED BY <2>2, <2>3, <2>4 DEF Init, Zero, ListenerTypes
<1>3. OffsetsOK
  <2>1. \A p \in Partitions : log[p] = <<>> /\ Len(log[p]) = 0
    BY DEF Init
  <2> QED BY <2>1 DEF Init, Zero, OffsetsOK
<1>4. MessageInHand
  BY DEF Init, StoreInit, MessageInHand, InHand
<1> QED BY <1>1, <1>2, <1>3, <1>4 DEF ControlInv

(* Every step of broker, listener and store preserves it.                  *)
LEMMA ControlStep ==
  ASSUME ControlInv, Next \/ UNCHANGED vars
  PROVE  ControlInv'
<1>F. FileInv'
  BY ListenerFiles
<1> USE DEF ControlInv, offsets, control
<1>T. /\ \A p \in Partitions : log[p] \in Seq(Notices)
      /\ \A p \in Partitions : /\ committed[p] \in Nat /\ fetch[p] \in Nat
                              /\ next[p] \in Nat /\ end[p] \in Nat
  BY DEF ListenerTypes
<1>1. ASSUME NEW p \in Partitions, NEW n \in Feed[p], Publish(p, n)
      PROVE  ControlInv'
  <2>1. n \in Notices
    BY ListenerAssumption
  <2>2. /\ UNCHANGED storeVars /\ log' = [log EXCEPT ![p] = Append(@, n)]
        /\ UNCHANGED <<committed, offsets, control>>
    BY <1>1 DEF Publish
  <2>3. ListenerTypes'
    BY <2>1, <2>2 DEF ListenerTypes
  <2>4. \A q \in Partitions :
          /\ log[q] \in Seq(Notices) /\ Len(log[q]) <= Len(log'[q])
          /\ \A i \in 1 .. Len(log[q]) : log'[q][i] = log[q][i]
    <3>1. ASSUME NEW l \in Seq(Notices)
          PROVE  /\ Len(l) \in Nat /\ Len(Append(l, n)) = Len(l) + 1
                 /\ \A i \in 1 .. Len(l) : Append(l, n)[i] = l[i]
      BY <2>1
    <3>2. \A q \in Partitions : log'[q] = IF q = p THEN Append(log[q], n) ELSE log[q]
      BY <2>2 DEF ListenerTypes
    <3> SUFFICES ASSUME NEW q \in Partitions
                 PROVE  /\ log[q] \in Seq(Notices) /\ Len(log[q]) <= Len(log'[q])
                        /\ \A i \in 1 .. Len(log[q]) : log'[q][i] = log[q][i]
      OBVIOUS
    <3>3. log[q] \in Seq(Notices) /\ Len(log[q]) \in Nat
      BY <1>T
    <3>4. CASE q = p
      <4>1. log'[q] = Append(log[q], n)
        BY <3>2, <3>4
      <4> QED BY <3>1, <3>3, <4>1
    <3>5. CASE q # p
      BY <3>2, <3>3, <3>5
    <3> QED BY <3>4, <3>5
  <2>5. OffsetsOK'
    BY <1>T, <2>2, <2>3, <2>4 DEF OffsetsOK, ListenerTypes
  <2>6. MessageInHand'
    <3> SUFFICES ASSUME InHand'
                 PROVE  /\ loop' = "batch" /\ next'[part'] < end'[part']
                        /\ cur' = log'[part'][next'[part'] + 1]
      BY DEF MessageInHand
    <3>1. /\ loop = "batch" /\ next[part] < end[part]
          /\ cur = log[part][next[part] + 1]
      BY <2>2 DEF storeVars, InHand, MessageInHand
    <3>2. next[part] + 1 \in 1 .. Len(log[part])
      BY <1>T, <3>1 DEF ListenerTypes, OffsetsOK
    <3> QED BY <2>2, <2>4, <3>1, <3>2 DEF storeVars, ListenerTypes
  <2> QED BY <1>F, <2>3, <2>5, <2>6
<1>2. CASE Rebalance
  <2>1. ListenerTypes' /\ OffsetsOK' /\ MessageInHand'
    BY <1>2 DEF Rebalance, ListenerTypes, OffsetsOK, MessageInHand, InHand
  <2> QED BY <1>F, <2>1
<1>3. ASSUME NEW upto \in [Partitions -> 0 .. MaxLog], NEW errors \in BOOLEAN,
             Consume(upto, errors)
      PROVE  ControlInv'
  <2>1. /\ loop = "top" /\ pc = "idle"
        /\ \A p \in Partitions : upto[p] \in fetch[p] .. Len(log[p])
        /\ next' = fetch /\ end' = upto /\ fetch' = upto /\ loop' = "batch"
        /\ UNCHANGED <<disk, work, pc, cur, log, committed, part, once, stop>>
    BY <1>3 DEF Consume
  <2>2. empties' \in 0 .. DRAIN_EMPTY_BATCHES
    <3>1. \/ empties' = 0
          \/ empties' = empties
          \/ empties < DRAIN_EMPTY_BATCHES /\ empties' = empties + 1
      BY <1>3 DEF Consume, EmptiesAfter
    <3>2. empties \in 0 .. DRAIN_EMPTY_BATCHES /\ DRAIN_EMPTY_BATCHES \in Nat
      BY ListenerAssumption DEF ListenerTypes
    <3> QED BY <3>1, <3>2
  <2>3. upto \in [Partitions -> Nat]
    BY ListenerAssumption
  <2>4. ListenerTypes'
    BY <2>1, <2>2, <2>3 DEF ListenerTypes
  <2>5. OffsetsOK'
    BY <1>T, <2>1 DEF OffsetsOK
  <2>6. MessageInHand'
    BY <2>1 DEF MessageInHand, InHand
  <2> QED BY <1>F, <2>4, <2>5, <2>6
<1>4. ASSUME NEW p \in Partitions, Take(p)
      PROVE  ControlInv'
  <2>1. ListenerTypes' /\ OffsetsOK' /\ MessageInHand'
    BY <1>4 DEF Take, HandleMessage, ListenerTypes, OffsetsOK, MessageInHand
  <2> QED BY <1>F, <2>1
<1>5. CASE WithinMessage
  <2>1. InHand /\ InHand' /\ cur' = cur /\ UNCHANGED listenerVars
    BY <1>5, StoreWithin DEF WithinMessage
  <2>2. ListenerTypes' /\ OffsetsOK' /\ MessageInHand'
    BY <2>1 DEF listenerVars, ListenerTypes, OffsetsOK, MessageInHand
  <2> QED BY <1>F, <2>2
<1>6. CASE Commit \/ CommitLost
  <2>1. /\ pc = "handled" /\ pc' = "idle"
        /\ committed' \in {committed, [committed EXCEPT ![part] = next[part] + 1]}
        /\ next' = [next EXCEPT ![part] = @ + 1]
        /\ UNCHANGED <<log, fetch, end, part, control>>
    BY <1>6 DEF Commit, CommitLost, Return
  <2>2. part \in Partitions /\ next[part] < end[part]
    BY <2>1 DEF MessageInHand, InHand, ListenerTypes
  <2>3. next[part] + 1 \in Nat /\ next[part] + 1 <= Len(log[part])
    BY <1>T, <2>2 DEF OffsetsOK
  <2>4. ListenerTypes'
    BY <2>1, <2>2, <2>3 DEF ListenerTypes
  <2>5. OffsetsOK'
    BY <2>1, <2>2, <2>3 DEF OffsetsOK, ListenerTypes
  <2>6. MessageInHand'
    BY <2>1 DEF MessageInHand, InHand
  <2> QED BY <1>F, <2>4, <2>5, <2>6
<1>7. CASE EndBatch \/ StopAtTop \/ Signal
  <2>1. ListenerTypes' /\ OffsetsOK' /\ MessageInHand'
    BY <1>7 DEF EndBatch, StopAtTop, Signal, storeVars, ListenerTypes, OffsetsOK,
                MessageInHand, InHand
  <2> QED BY <1>F, <2>1
<1>8. CASE Dies
  <2>1. UNCHANGED listenerVars /\ pc' = "down"
    BY <1>8 DEF Dies, ProcessEnds, QuarantineFails, Crash, Forget
  <2>2. ListenerTypes' /\ OffsetsOK' /\ MessageInHand'
    BY <2>1 DEF listenerVars, ListenerTypes, OffsetsOK, MessageInHand, InHand
  <2> QED BY <1>F, <2>2
<1>9. CASE RestartAfterEnd \/ StartAgain
  <2>1. /\ fetch' = committed /\ next' = committed /\ end' = committed
        /\ loop' = "top" /\ stop' = FALSE /\ empties' = 0
        /\ UNCHANGED <<log, committed, part, once>>
    BY <1>9 DEF RestartAfterEnd, StartAgain, StartOver
  <2>2. ~InHand'
    BY <1>9 DEF RestartAfterEnd, StartAgain, Restart, MessageInHand, InHand, storeVars
  <2>3. 0 \in 0 .. DRAIN_EMPTY_BATCHES
    BY ListenerAssumption
  <2>4. ListenerTypes' /\ OffsetsOK' /\ MessageInHand'
    BY <2>1, <2>2, <2>3 DEF ListenerTypes, OffsetsOK, MessageInHand
  <2> QED BY <1>F, <2>4
<1>10. CASE UNCHANGED vars
  <2>1. ListenerTypes' /\ OffsetsOK' /\ MessageInHand'
    BY <1>10 DEF vars, storeVars, listenerVars, ListenerTypes, OffsetsOK, MessageInHand, InHand
  <2> QED BY <1>F, <2>1
<1> QED
  BY <1>1, <1>2, <1>3, <1>4, <1>5, <1>6, <1>7, <1>8, <1>9, <1>10 DEF Next

(* It is an invariant of the listener.                                     *)
LEMMA ControlInvariant == Spec => []ControlInv
<1>1. ControlInv /\ [Next]_vars => ControlInv'
  BY ControlStep
<1> QED BY <1>1, ControlInit, PTL DEF Spec

(* Every variable keeps the type its declaration describes.                *)
THEOREM ListenerTypeCorrect == Spec => []TypeOK
<1>1. ControlInv => TypeOK
  BY DEF ControlInv, FileInv, TypeInv, ListenerTypes, TypeOK
<1> QED BY <1>1, ControlInvariant, PTL

-----------------------------------------------------------------------------
(* What is done with the messages below an offset.                         *)

(* Each message of l below the offsets o is in S.                          *)
Below(S, l, o) == \A p \in Partitions : \A i \in 1 .. o[p] : l[p][i] \in S

(* So it is below every offset from which reading may go on: the broker    *)
(* gives back committed, the batch goes on at next, and fetch is either    *)
(* the end of the batch in hand or was committed before.                   *)
DoneBelow(S, l, com, nxt, fet, upto, at) ==
  /\ Below(S, l, com) /\ Below(S, l, nxt)
  /\ fet = upto \/ Below(S, l, fet)
  /\ at = "top" => Below(S, l, fet)

(* A message passes next when it is handled and in no other way, so if S   *)
(* takes in each message that is handled, and only grows, it holds all     *)
(* messages below each of these offsets.                                   *)
LEMMA DoneStep ==
  ASSUME ControlInv, Next, NEW S, NEW T, S \subseteq T,
         DoneBelow(S, log, committed, next, fetch, end, loop),
         pc = "handled" => cur \in S
  PROVE  DoneBelow(T, log', committed', next', fetch', end', loop')
<1> USE DEF ControlInv, offsets, control
<1>1. DoneBelow(T, log, committed, next, fetch, end, loop)
  BY DEF DoneBelow, Below
<1>2. ASSUME NEW p \in Partitions, NEW n \in Feed[p], Publish(p, n)
      PROVE  DoneBelow(T, log', committed', next', fetch', end', loop')
  <2>1. n \in Notices
    BY ListenerAssumption
  <2>2. /\ log' = [log EXCEPT ![p] = Append(@, n)]
        /\ UNCHANGED <<committed, offsets, control>>
    BY <1>2 DEF Publish
  <2>3. \A q \in Partitions : \A i \in 1 .. Len(log[q]) : log'[q][i] = log[q][i]
    BY <2>1, <2>2 DEF ListenerTypes
  <2>4. ASSUME NEW o \in [Partitions -> Nat], \A q \in Partitions : o[q] <= Len(log[q]),
               Below(T, log, o)
        PROVE  Below(T, log', o)
    <3> SUFFICES ASSUME NEW q \in Partitions, NEW i \in 1 .. o[q]
                 PROVE  log'[q][i] \in T
      BY DEF Below
    <3>1. log[q] \in Seq(Notices) /\ o[q] \in Nat /\ o[q] <= Len(log[q])
      BY <2>4 DEF ListenerTypes
    <3>2. i \in 1 .. Len(log[q])
      BY <3>1
    <3> QED BY <2>3, <2>4, <3>2 DEF Below
  <2>5. /\ committed \in [Partitions -> Nat] /\ next \in [Partitions -> Nat]
        /\ fetch \in [Partitions -> Nat]
        /\ \A q \in Partitions : /\ committed[q] <= Len(log[q]) /\ next[q] <= Len(log[q])
                                 /\ fetch[q] <= Len(log[q])
    BY DEF ListenerTypes, OffsetsOK
  <2>6. /\ Below(T, log', committed) /\ Below(T, log', next)
        /\ Below(T, log, fetch) => Below(T, log', fetch)
    BY <1>1, <2>4, <2>5 DEF DoneBelow
  <2> QED BY <1>1, <2>2, <2>6 DEF DoneBelow
<1>3. CASE Commit \/ CommitLost
  <2>1. /\ pc = "handled"
        /\ committed' \in {committed, [committed EXCEPT ![part] = next[part] + 1]}
        /\ next' = [next EXCEPT ![part] = @ + 1]
        /\ UNCHANGED <<log, fetch, end, loop>>
    BY <1>3 DEF Commit, CommitLost, Return
  <2>2. part \in Partitions /\ log[part][next[part] + 1] \in T
    BY <2>1 DEF MessageInHand, InHand, ListenerTypes
  <2>3. \A i \in 1 .. next[part] + 1 : log[part][i] \in T
    <3> SUFFICES ASSUME NEW i \in 1 .. next[part] + 1
                 PROVE  log[part][i] \in T
      OBVIOUS
    <3>1. next[part] \in Nat
      BY <2>2 DEF ListenerTypes
    <3>2. i \in 1 .. next[part] \/ i = next[part] + 1
      BY <3>1
    <3> QED BY <1>1, <2>2, <3>2 DEF DoneBelow, Below
  <2>4. Below(T, log, committed') /\ Below(T, log, next')
    BY <1>1, <2>1, <2>2, <2>3 DEF DoneBelow, Below, ListenerTypes
  <2> QED BY <1>1, <2>1, <2>4 DEF DoneBelow
<1>4. CASE EndBatch
  BY <1>1, <1>4 DEF EndBatch, DoneBelow
<1>5. CASE \/ Rebalance \/ RestartAfterEnd \/ StartAgain
           \/ \E upto \in [Partitions -> 0 .. MaxLog], errors \in BOOLEAN : Consume(upto, errors)
  BY <1>1, <1>5 DEF Rebalance, RestartAfterEnd, StartAgain, StartOver, Consume, DoneBelow
<1>6. CASE \/ WithinMessage \/ Dies \/ StopAtTop \/ Signal
           \/ \E p \in Partitions : Take(p)
  BY <1>1, <1>6 DEF WithinMessage, Dies, listenerVars, StopAtTop, Signal, Take, DoneBelow
<1> QED BY <1>2, <1>3, <1>4, <1>5, <1>6 DEF Next

-----------------------------------------------------------------------------
(* Kept.                                                                   *)

Kept == notice_files \cup quarantine

(* The notice in hand is kept from the write of its body, or of the        *)
(* payload, until its offset is committed.                                 *)
HandKept ==
  /\ pc \in {"index", "latest", "unlink", "link"} => cur \in notice_files
  /\ pc = "handled" => cur \in Kept

(* The inductive invariant.                                                *)
KeptInv ==
  ControlInv /\ HandKept /\ DoneBelow(Kept, log, committed, next, fetch, end, loop)

(* The store never gives up a body or a payload it has written, and deals  *)
(* with no notice whose body or payload it has not kept.                   *)
LEMMA StoreKeeps ==
  ASSUME FileInv, HandKept, StoreNext
  PROVE  Kept \subseteq Kept' /\ HandKept'
<1> USE DEF Kept, HandKept
<1>1. CASE SkipRedelivery
  <2>1. cur \in ParsedNotices /\ EventOf(cur) \in Events
    BY <1>1, ParsedFields DEF SkipRedelivery, FileInv, TypeInv, HandOK, Storing
  <2>2. cur \in notice_files
    BY <1>1, <2>1 DEF SkipRedelivery, InHistory, FileInv, EntriesOK
  <2> QED BY <1>1, <2>2 DEF SkipRedelivery, disk, files
<1>2. CASE \/ WriteNotice \/ LeaveWithoutMap \/ WriteSkymap \/ AppendHistory
           \/ \E s \in {"real", "synthesized"} : OpenSkymap(s)
  BY <1>2 DEF WriteNotice, LeaveWithoutMap, Resolving, WriteSkymap, AppendHistory,
              OpenSkymap, FileInv, HandFiles, disk, files
<1>3. CASE \/ RefuseRegion \/ AppendIndex \/ WriteLatest \/ NothingToPointAt \/ Unlink \/ Link
           \/ QuarantinePayload
  BY <1>3 DEF RefuseRegion, Resolving, AppendIndex, WriteLatest, NothingToPointAt, Unlink,
              Link, QuarantinePayload, disk, files
<1>4. CASE \/ StoreFault \/ ProcessEnds \/ Restart \/ Return
           \/ \E n \in Notices : HandleMessage(n)
  BY <1>4 DEF StoreFault, Raise, TearAppend, LinkRefused, ProcessEnds, QuarantineFails, Crash,
              Forget, Restart, Return, HandleMessage, disk, files
<1> QED BY <1>1, <1>2, <1>3, <1>4 DEF StoreStep, StoreNext

(* It is an invariant of the listener.                                     *)
LEMMA KeptInvariant == Spec => []KeptInv
<1>1. Init => KeptInv
  BY ControlInit
     DEF Init, StoreInit, Zero, KeptInv, HandKept, DoneBelow, Below
<1>2. ASSUME KeptInv, Next
      PROVE  KeptInv'
  <2>1. ControlInv'
    BY <1>2, ControlStep DEF KeptInv
  <2>2. Kept \subseteq Kept' /\ HandKept'
    <3>1. CASE StoreNext
      BY <1>2, <3>1, StoreKeeps DEF KeptInv, ControlInv
    <3>2. CASE Counted \/ PutsDown
      BY <1>2, <3>2 DEF KeptInv, Counted, PutsDown, HandKept, Kept, disk, files
    <3> QED BY <1>2, <3>1, <3>2, StoreMoves DEF KeptInv
  <2>3. DoneBelow(Kept', log', committed', next', fetch', end', loop')
    BY <1>2, <2>2, DoneStep DEF KeptInv, HandKept
  <2> QED BY <2>1, <2>2, <2>3 DEF KeptInv
<1>3. KeptInv /\ UNCHANGED vars => KeptInv'
  <2> SUFFICES ASSUME KeptInv, UNCHANGED vars PROVE KeptInv'
    OBVIOUS
  <2>1. ControlInv'
    BY ControlStep DEF KeptInv
  <2> QED
    BY <2>1 DEF KeptInv, HandKept, Kept, DoneBelow, Below, vars, storeVars, listenerVars,
                offsets, control, disk, files
<1>4. KeptInv /\ [Next]_vars => KeptInv'
  BY <1>2, <1>3
<1> QED BY <1>1, <1>4, PTL DEF Spec

(* No message below a committed offset is lost: at-least-once delivery     *)
(* with commits after the store's write keeps a body of each.              *)
THEOREM ListenerKeeps == Spec => []CommittedIsKept
<1>1. KeptInv => CommittedIsKept
  BY DEF KeptInv, DoneBelow, Below, Kept, CommittedIsKept
<1> QED BY <1>1, KeptInvariant, PTL

-----------------------------------------------------------------------------
(* Recorded.                                                               *)

OnRecord == quarantine \cup {n \in ParsedNotices : InHistory(n)}

(* The notice in hand is in its event's history from the append on, and    *)
(* has been recorded one way or the other when it is handled.              *)
HandRecorded ==
  /\ pc \in {"index", "latest", "unlink", "link"} => InHistory(cur)
  /\ pc = "handled" => cur \in OnRecord

(* The inductive invariant.                                                *)
RecordedInv ==
  /\ ControlInv /\ IndexInv
  /\ NoneTorn => /\ HandRecorded
                 /\ DoneBelow(OnRecord, log, committed, next, fetch, end, loop)

(* A history loses no notice.                                              *)
LEMMA HistoryGrows ==
  ASSUME TypeInv, StoreNext, NEW n \in ParsedNotices, InHistory(n)
  PROVE  InHistory(n)'
<1> DEFINE e == EventOf(n)
<1>1. e \in Events /\ history[e] \in Seq(Entry)
  BY ParsedFields DEF TypeInv, StoreTypeOK
<1>2. PICK i \in DOMAIN history[e] : history[e][i].notice = n
  BY DEF InHistory
<1>3. i \in DOMAIN history'[e] /\ history'[e][i] = history[e][i]
  BY <1>1, ShownStep
<1> QED BY <1>2, <1>3 DEF InHistory

(* As long as none is torn, what is handled is recorded, and stays so.     *)
LEMMA StoreRecords ==
  ASSUME IndexInv, HandRecorded, NoneTorn, NoneTorn', StoreNext
  PROVE  OnRecord \subseteq OnRecord' /\ HandRecorded'
<1>T. TypeInv
  BY DEF IndexInv, FileInv
<1>H. Storing => cur \in ParsedNotices /\ EventOf(cur) \in Events
  BY <1>T, ParsedFields DEF TypeInv, HandOK
<1>1. quarantine \subseteq quarantine'
  BY DEF StoreNext, StoreStep, StoreFault, ProcessEnds, HandleMessage, SkipRedelivery,
         WriteNotice, LeaveWithoutMap, OpenSkymap, WriteSkymap, RefuseRegion, AppendHistory,
         AppendIndex, WriteLatest, NothingToPointAt, Unlink, Link, QuarantinePayload, Raise,
         TearAppend, LinkRefused, QuarantineFails, Crash, Restart, Return, disk
<1>2. OnRecord \subseteq OnRecord'
  BY <1>1, <1>T, HistoryGrows DEF OnRecord
<1> SUFFICES HandRecorded'
  BY <1>2
<1>3. CASE AppendHistory
  <2>1. /\ pc' = "index" /\ cur' = cur /\ fragments = {}
        /\ cur \in ParsedNotices /\ EventOf(cur) \in Events
    BY <1>3, <1>H DEF AppendHistory, Storing, IndexInv
  <2>2. history' = [history EXCEPT ![EventOf(cur)] = Append(@, CurrentEntry)]
    BY <1>3, <2>1 DEF AppendHistory
  <2>3. history[EventOf(cur)] \in Seq(Entry) /\ CurrentEntry \in Entry
    BY <1>T, <2>1 DEF TypeInv, StoreTypeOK, CurrentEntry, Entry
  <2>4. /\ Len(history[EventOf(cur)]) + 1 \in DOMAIN history'[EventOf(cur)]
        /\ history'[EventOf(cur)][Len(history[EventOf(cur)]) + 1] = CurrentEntry
    BY <1>T, <2>1, <2>2, <2>3 DEF TypeInv, StoreTypeOK
  <2>5. InHistory(cur)'
    BY <2>1, <2>4 DEF InHistory, CurrentEntry
  <2> QED BY <2>1, <2>5 DEF HandRecorded
<1>4. CASE SkipRedelivery \/ NothingToPointAt \/ LinkRefused
  <2>1. cur \in OnRecord /\ cur' = cur /\ pc' = "handled"
    BY <1>4, <1>H DEF SkipRedelivery, NothingToPointAt, LinkRefused, Storing, HandRecorded,
                      OnRecord
  <2> QED BY <1>2, <2>1 DEF HandRecorded
<1>5. CASE AppendIndex \/ WriteLatest \/ Unlink \/ Link
  <2>1. /\ InHistory(cur) /\ cur \in ParsedNotices /\ cur' = cur
        /\ pc' \in {"latest", "unlink", "link", "handled"}
    BY <1>5, <1>H DEF AppendIndex, WriteLatest, Unlink, Link, Storing, HandRecorded
  <2>2. InHistory(cur)'
    BY <1>T, <2>1, HistoryGrows DEF InHistory
  <2> QED BY <2>1, <2>2, <1>H DEF HandRecorded, OnRecord
<1>6. CASE QuarantinePayload
  BY <1>6 DEF QuarantinePayload, HandRecorded, OnRecord
<1>7. CASE pc' \notin {"index", "latest", "unlink", "link", "handled"}
  BY <1>7 DEF HandRecorded
<1>8. \/ AppendHistory \/ SkipRedelivery \/ NothingToPointAt \/ LinkRefused
      \/ AppendIndex \/ WriteLatest \/ Unlink \/ Link \/ QuarantinePayload
      \/ pc' \notin {"index", "latest", "unlink", "link", "handled"}
  BY DEF StoreNext, StoreStep, StoreFault, ProcessEnds, HandleMessage, WriteNotice,
         LeaveWithoutMap, Resolving, OpenSkymap, WriteSkymap, RefuseRegion, Raise, TearAppend,
         QuarantineFails, Crash, Forget, Restart, Return
<1> QED BY <1>3, <1>4, <1>5, <1>6, <1>7, <1>8

(* Every step of the listener preserves it.                                *)
LEMMA RecordedStep ==
  ASSUME RecordedInv, Next \/ UNCHANGED vars
  PROVE  RecordedInv'
<1>C. ControlInv' /\ FileInv' /\ faults \in Nat
  BY ControlStep DEF RecordedInv, ControlInv, FileInv, TypeInv, StoreTypeOK
<1>I. IndexInv'
  <2>1. CASE StoreNext
    BY <2>1, IndexStep DEF RecordedInv
  <2>2. CASE Counted \/ UNCHANGED vars
    <3>1. UNCHANGED <<lines, pc, cur, skymaps>> /\ faults' >= faults
      BY <1>C, <2>2 DEF Counted, vars, storeVars, disk, work
    <3> QED BY <1>C, <3>1, IndexQuiet DEF RecordedInv
  <2>3. CASE PutsDown
    BY <1>C, <2>3, IndexQuiet DEF PutsDown, RecordedInv, disk
  <2> QED BY <2>1, <2>2, <2>3, StoreMoves DEF RecordedInv
<1> SUFFICES ASSUME NoneTorn'
             PROVE  /\ HandRecorded'
                    /\ DoneBelow(OnRecord', log', committed', next', fetch', end', loop')
  BY <1>C, <1>I DEF RecordedInv
<1>1. faults' >= faults /\ faults' \in Nat
  <2>1. CASE StoreNext
    BY <1>C, <2>1
       DEF StoreNext, StoreStep, StoreFault, ProcessEnds, HandleMessage, SkipRedelivery,
         WriteNotice, LeaveWithoutMap, OpenSkymap, WriteSkymap, RefuseRegion, AppendHistory,
         AppendIndex, WriteLatest, NothingToPointAt, Unlink, Link, QuarantinePayload, Raise,
         TearAppend, LinkRefused, QuarantineFails, Crash, Restart, Return, Fault
  <2>2. CASE Counted \/ PutsDown \/ UNCHANGED vars
    BY <1>C, <2>2 DEF Counted, PutsDown, vars, storeVars
  <2> QED BY <2>1, <2>2, StoreMoves DEF RecordedInv
<1>2. /\ NoneTorn /\ HandRecorded
      /\ DoneBelow(OnRecord, log, committed, next, fetch, end, loop)
  BY <1>C, <1>1 DEF NoneTorn, RecordedInv
<1>3. OnRecord \subseteq OnRecord' /\ HandRecorded'
  <2>1. CASE StoreNext
    BY <1>2, <2>1, StoreRecords DEF RecordedInv
  <2>2. CASE Counted \/ UNCHANGED vars
    BY <1>2, <2>2
       DEF Counted, HandRecorded, OnRecord, InHistory, vars, storeVars, disk, lines
  <2>3. CASE PutsDown
    BY <1>2, <2>3 DEF PutsDown, HandRecorded, OnRecord, InHistory, disk, lines
  <2> QED BY <2>1, <2>2, <2>3, StoreMoves DEF RecordedInv
<1>4. CASE Next
  BY <1>2, <1>3, <1>4, DoneStep DEF RecordedInv, HandRecorded
<1>5. CASE UNCHANGED vars
  BY <1>2, <1>3, <1>5 DEF DoneBelow, Below, vars, listenerVars, offsets, control
<1> QED BY <1>3, <1>4, <1>5

(* It is an invariant of the listener.                                     *)
LEMMA RecordedInvariant == Spec => []RecordedInv
<1>1. Init => RecordedInv
  BY ControlInit
     DEF Init, StoreInit, Zero, RecordedInv, ControlInv, IndexInv, IndexWithinHistory,
         IndexLags, HandRecorded, DoneBelow, Below
<1>2. RecordedInv /\ [Next]_vars => RecordedInv'
  BY RecordedStep
<1> QED BY <1>1, <1>2, PTL DEF Spec

(* Unless an append is torn, every message below a committed offset is     *)
(* listed in its event's history or set aside.                             *)
THEOREM ListenerRecords ==
  ASSUME "torn" \notin Faults
  PROVE  Spec => []CommittedIsRecorded
<1>1. RecordedInv => CommittedIsRecorded
  BY DEF RecordedInv, NoneTorn, DoneBelow, Below, OnRecord, ParsedNotices, Recorded,
         CommittedIsRecorded
<1> QED BY <1>1, RecordedInvariant, PTL

(* Unless an append is torn, the index of a store that the listener fills  *)
(* lists nothing twice and nothing that the histories do not list.         *)
THEOREM ListenerIndexIsOfHistory ==
  ASSUME "torn" \notin Faults
  PROVE  Spec => []IndexWithinHistory
<1>1. RecordedInv => IndexWithinHistory
  BY DEF RecordedInv, IndexInv, NoneTorn
<1> QED BY <1>1, RecordedInvariant, PTL

-----------------------------------------------------------------------------
(* The refinement: every step of listener and store is one of the archive, *)
(* or changes nothing that it shows.                                       *)

(* The state of the archive that a state of store and listener stands for. *)
Filed == [e \in Events |-> [i \in DOMAIN history[e] |-> history[e][i].notice]]

Shown == [e \in Events |-> IF latest[e] = None THEN None ELSE latest[e].notice]

Acknowledged == UNION {{log[p][o] : o \in 1 .. committed[p]} : p \in Partitions}

FiledOf(e) == {Filed[e][i] : i \in DOMAIN Filed[e]}

AllOnRecord == quarantine \cup UNION {FiledOf(e) : e \in Events}

(* Its actions, on that state.                                             *)
LEMMA ArchiveActions ==
  /\ \A n : Archive!File(n) <=>
       /\ n \in notice_files /\ n \notin FiledOf(NoticeInfo[n].event)
       /\ Filed' = [Filed EXCEPT ![NoticeInfo[n].event] = Append(@, n)]
       /\ UNCHANGED <<notice_files, quarantine, Shown, Acknowledged>>
  /\ \A n : Archive!Keep(n) <=>
       /\ notice_files' = notice_files \cup {n}
       /\ UNCHANGED <<Filed, quarantine, Shown, Acknowledged>>
  /\ \A n : Archive!SetAside(n) <=>
       /\ quarantine' = quarantine \cup {n}
       /\ UNCHANGED <<notice_files, Filed, Shown, Acknowledged>>
  /\ \A e : Archive!Show(e) <=>
       /\ \E n \in FiledOf(e) :
            /\ \A m \in FiledOf(e) : ~ KeyLess(SortKey(n), SortKey(m))
            /\ Shown' = [Shown EXCEPT ![e] = n]
       /\ UNCHANGED <<notice_files, Filed, quarantine, Acknowledged>>
  /\ Archive!Acknowledge <=>
       /\ Acknowledged' \subseteq IF "torn" \in Faults THEN Kept ELSE AllOnRecord
       /\ UNCHANGED <<notice_files, Filed, quarantine, Shown>>
  /\ UNCHANGED Archive!archiveVars
       <=> UNCHANGED <<notice_files, Filed, quarantine, Shown, Acknowledged>>
<1> USE DEF Archive!FiledOf, FiledOf, Filed, Shown, Acknowledged
<1>1. \A n : Archive!File(n) <=>
        /\ n \in notice_files /\ n \notin FiledOf(NoticeInfo[n].event)
        /\ Filed' = [Filed EXCEPT ![NoticeInfo[n].event] = Append(@, n)]
        /\ UNCHANGED <<notice_files, quarantine, Shown, Acknowledged>>
  BY DEF Archive!File
<1>2. /\ \A n : Archive!Keep(n) <=>
            /\ notice_files' = notice_files \cup {n}
            /\ UNCHANGED <<Filed, quarantine, Shown, Acknowledged>>
      /\ \A n : Archive!SetAside(n) <=>
            /\ quarantine' = quarantine \cup {n}
            /\ UNCHANGED <<notice_files, Filed, Shown, Acknowledged>>
  BY DEF Archive!Keep, Archive!SetAside
<1>3. \A m, n : Archive!KeyLess(Archive!SortKey(m), Archive!SortKey(n))
                  <=> KeyLess(SortKey(m), SortKey(n))
  BY DEF Archive!KeyLess, Archive!SortKey, Archive!alert_type_rank, Archive!ALERT_TYPE_RANK,
         Archive!UNKNOWN_ALERT_TYPE_RANK, KeyLess, SortKey, alert_type_rank,
         ALERT_TYPE_RANK, UNKNOWN_ALERT_TYPE_RANK
<1>4. \A e : Archive!Show(e) <=>
        /\ \E n \in FiledOf(e) :
             /\ \A m \in FiledOf(e) : ~ KeyLess(SortKey(n), SortKey(m))
             /\ Shown' = [Shown EXCEPT ![e] = n]
        /\ UNCHANGED <<notice_files, Filed, quarantine, Acknowledged>>
  BY <1>3 DEF Archive!Show
<1>5. Archive!Acknowledge <=>
        /\ Acknowledged' \subseteq IF "torn" \in Faults THEN Kept ELSE AllOnRecord
        /\ UNCHANGED <<notice_files, Filed, quarantine, Shown>>
  BY DEF Archive!Acknowledge, Archive!OnRecord, Kept, AllOnRecord
<1>6. UNCHANGED Archive!archiveVars
        <=> UNCHANGED <<notice_files, Filed, quarantine, Shown, Acknowledged>>
  BY DEF Archive!archiveVars
<1> QED BY <1>1, <1>2, <1>4, <1>5, <1>6

-----------------------------------------------------------------------------
(* One step.                                                               *)

(* The notices of a history that has grown by a line.                      *)
LEMMA NoticesOfAppend ==
  ASSUME NEW h \in Seq(Entry), NEW x \in Entry
  PROVE  [i \in DOMAIN Append(h, x) |-> Append(h, x)[i].notice]
           = Append([i \in DOMAIN h |-> h[i].notice], x.notice)
<1> DEFINE g == [i \in DOMAIN h |-> h[i].notice]
           k == [i \in DOMAIN Append(h, x) |-> Append(h, x)[i].notice]
           N == ParsedNotices
<1>1. \A y \in Entry : y.notice \in N
  BY DEF Entry
<1>2. /\ Len(h) \in Nat /\ DOMAIN h = 1 .. Len(h) /\ Append(h, x) \in Seq(Entry)
      /\ Len(Append(h, x)) = Len(h) + 1 /\ DOMAIN Append(h, x) = 1 .. Len(h) + 1
      /\ \A i \in 1 .. Len(h) : Append(h, x)[i] = h[i]
      /\ Append(h, x)[Len(h) + 1] = x
  OBVIOUS
<1>3. \A i \in 1 .. Len(h) : h[i] \in Entry
  OBVIOUS
<1>4. g \in [1 .. Len(h) -> N]
  BY <1>1, <1>2, <1>3
<1>5. g \in Seq(N) /\ Len(g) = Len(h)
  BY <1>2, <1>4, IsASeq, LenProperties
<1>6. /\ Append(g, x.notice) \in Seq(N) /\ Len(Append(g, x.notice)) = Len(h) + 1
      /\ \A i \in 1 .. Len(h) : Append(g, x.notice)[i] = g[i]
      /\ Append(g, x.notice)[Len(h) + 1] = x.notice
  BY <1>1, <1>5, AppendProperties
<1>7. \A i \in 1 .. Len(h) + 1 : Append(h, x)[i] \in Entry
  BY <1>2
<1>8. k \in [1 .. Len(h) + 1 -> N]
  BY <1>1, <1>2, <1>7
<1>9. k \in Seq(N) /\ Len(k) = Len(h) + 1
  BY <1>2, <1>8, IsASeq, LenProperties
<1>10. \A i \in 1 .. Len(h) + 1 : k[i] = Append(g, x.notice)[i]
  <2> SUFFICES ASSUME NEW i \in 1 .. Len(h) + 1
               PROVE  k[i] = Append(g, x.notice)[i]
    OBVIOUS
  <2>1. CASE i \in 1 .. Len(h)
    BY <1>2, <1>6, <2>1
  <2>2. CASE i = Len(h) + 1
    BY <1>2, <1>6, <2>2
  <2> QED BY <1>2, <2>1, <2>2
<1> QED BY <1>6, <1>9, <1>10, SeqEqual

(* What the archive has on record is what the store has.                   *)
LEMMA SameRecord ==
  ASSUME ControlInv
  PROVE  OnRecord \subseteq AllOnRecord
<1> SUFFICES ASSUME NEW n \in ParsedNotices, InHistory(n)
             PROVE  n \in UNION {FiledOf(e) : e \in Events}
  BY DEF OnRecord, AllOnRecord
<1>1. EventOf(n) \in Events
  BY ParsedFields
<1>2. n \in FiledOf(EventOf(n))
  BY <1>1 DEF InHistory, FiledOf, Filed
<1> QED BY <1>1, <1>2

(* The append of a whole line to the history is the step that files a      *)
(* notice.                                                                 *)
LEMMA AppendFiles ==
  ASSUME FileInv, AppendHistory, EventOf(cur) \notin fragments, UNCHANGED Acknowledged,
         NEW n, n = cur
  PROVE  Archive!File(n)
<1> DEFINE e0 == EventOf(n)
<1>1. cur \in ParsedNotices /\ e0 \in Events /\ ~InHistory(cur) /\ cur \in notice_files
  BY ParsedFields DEF AppendHistory, FileInv, HandFiles, TypeInv, HandOK, Storing
<1>2. /\ history \in [Events -> Seq(Entry)] /\ history[e0] \in Seq(Entry)
      /\ CurrentEntry \in Entry /\ CurrentEntry.notice = cur
  BY <1>1 DEF CurrentEntry, Entry, FileInv, TypeInv, StoreTypeOK
<1>3. /\ history' = [history EXCEPT ![e0] = Append(@, CurrentEntry)]
      /\ UNCHANGED <<notice_files, latest, quarantine>>
  BY DEF AppendHistory, files, pointers
<1>4. n \notin FiledOf(e0)
  BY <1>1 DEF FiledOf, Filed, InHistory
<1>5. Filed' = [Filed EXCEPT ![e0] = Append(@, n)]
  <2>1. [i \in DOMAIN history'[e0] |-> history'[e0][i].notice] = Append(Filed[e0], n)
    BY <1>1, <1>2, <1>3, NoticesOfAppend DEF Filed
  <2>2. \A e \in Events : e # e0 => history'[e] = history[e]
    BY <1>2, <1>3
  <2>3. Filed' = [e \in Events |-> IF e = e0 THEN Append(Filed[e0], n) ELSE Filed[e]]
    BY <2>1, <2>2 DEF Filed
  <2>4. Filed = [e \in Events |-> Filed[e]]
    BY DEF Filed
  <2> QED BY <2>3, <2>4
<1>6. Shown' = Shown
  BY <1>3 DEF Shown
<1>7. Archive!File(n) <=>
        /\ n \in notice_files /\ n \notin FiledOf(NoticeInfo[n].event)
        /\ Filed' = [Filed EXCEPT ![NoticeInfo[n].event] = Append(@, n)]
        /\ UNCHANGED <<notice_files, quarantine, Shown, Acknowledged>>
  BY ArchiveActions
<1> QED BY <1>1, <1>3, <1>4, <1>5, <1>6, <1>7 DEF EventOf

(* The write of latest.json is the step that shows a notice.               *)
LEMMA WriteShows ==
  ASSUME TypeInv, WriteLatest, UNCHANGED Acknowledged
  PROVE  \E e \in Events : Archive!Show(e)
<1> DEFINE e0 == EventOf(cur)
<1>1. e0 \in Events
  BY ParsedFields DEF WriteLatest, TypeInv, HandOK, Storing
<1>2. /\ history[e0] \in Seq(Entry) /\ latest \in [Events -> Pointer \cup {None}]
  BY <1>1 DEF TypeInv, StoreTypeOK
<1>3. PICK p \in PointersOf(history[e0]) : latest' = [latest EXCEPT ![e0] = p]
  BY DEF WriteLatest
<1>4. UNCHANGED <<notice_files, history, quarantine>>
  BY DEF WriteLatest, files, lines
<1>5. p \in Pointer /\ p # None /\ \E i \in DOMAIN history[e0] : p.notice = history[e0][i].notice
  BY <1>2, PointersType, NoneAssumption
<1>6. p.notice \in FiledOf(e0)
  BY <1>1, <1>5 DEF FiledOf, Filed
<1>7. \A m \in FiledOf(e0) : ~ KeyLess(SortKey(p.notice), SortKey(m))
  BY <1>1, <1>2, PointerIsBest DEF FiledOf, Filed
<1>8. Shown' = [Shown EXCEPT ![e0] = p.notice]
  BY <1>1, <1>2, <1>3, <1>5 DEF Shown
<1>9. Filed' = Filed
  BY <1>4 DEF Filed
<1> QED BY <1>1, <1>4, <1>6, <1>7, <1>8, <1>9, ArchiveActions

(* A step that leaves the store's records alone acknowledges at most what  *)
(* is kept, and on record if none is torn.                                 *)
LEMMA OthersAcknowledge ==
  ASSUME RecordedInv, RecordedInv', KeptInv',
         UNCHANGED <<notice_files, history, latest, quarantine>>
  PROVE  Archive!Acknowledge
<1>1. UNCHANGED <<Filed, Shown, OnRecord, Kept>>
  BY DEF Filed, Shown, OnRecord, InHistory, Kept
<1>2. Acknowledged' \subseteq Kept'
  BY DEF KeptInv, DoneBelow, Below, Acknowledged
<1>3. "torn" \notin Faults => Acknowledged' \subseteq OnRecord'
  BY DEF RecordedInv, NoneTorn, DoneBelow, Below, Acknowledged
<1>4. OnRecord \subseteq AllOnRecord
  BY SameRecord DEF RecordedInv
<1> QED BY <1>1, <1>2, <1>3, <1>4, ArchiveActions

(* Every step is one of the archive's, or leaves what it shows unchanged.  *)
LEMMA ArchiveStep ==
  ASSUME RecordedInv, RecordedInv', KeptInv', Next
  PROVE  Archive!Next \/ UNCHANGED Archive!archiveVars
<1>1. CASE UNCHANGED <<notice_files, history, latest, quarantine>>
  BY <1>1, OthersAcknowledge DEF Archive!Next
<1>2. CASE WithinMessage \/ Dies
  <2>1. UNCHANGED Acknowledged
    BY <1>2 DEF WithinMessage, Dies, listenerVars, Acknowledged
  <2>2. FileInv /\ TypeInv
    BY DEF RecordedInv, IndexInv, FileInv
  <2>3. CASE AppendHistory /\ EventOf(cur) \notin fragments
    <3>1. cur \in ParsedNotices
      BY <2>2, <2>3 DEF AppendHistory, TypeInv, HandOK, Storing
    <3>2. PICK n \in Archive!ParsedNotices : n = cur
      BY <3>1 DEF Archive!ParsedNotices, ParsedNotices
    <3>3. Archive!File(n)
      BY <2>1, <2>2, <2>3, <3>2, AppendFiles
    <3> QED BY <3>3 DEF Archive!Next
  <2>4. CASE WriteLatest
    BY <2>1, <2>2, <2>4, WriteShows DEF Archive!Next
  <2>5. CASE WriteNotice
    <3>1. PICK n \in Archive!ParsedNotices : n = cur
      BY <2>2, <2>5 DEF WriteNotice, TypeInv, HandOK, Storing, Archive!ParsedNotices, ParsedNotices
    <3>2. UNCHANGED <<Filed, Shown>>
      BY <2>5 DEF WriteNotice, Filed, Shown, lines, pointers
    <3>3. Archive!Keep(n)
      BY <2>1, <2>5, <3>1, <3>2, ArchiveActions DEF WriteNotice
    <3> QED BY <3>3 DEF Archive!Next
  <2>6. CASE /\ UNCHANGED <<notice_files, history, latest>> /\ cur \in Notices
             /\ quarantine' \in {quarantine, quarantine \cup {cur}}
    <3>1. UNCHANGED <<Filed, Shown>>
      BY <2>6 DEF Filed, Shown
    <3> QED BY <2>1, <2>6, <3>1, ArchiveActions DEF Archive!Next
  <2>7. \/ AppendHistory \/ WriteLatest \/ WriteNotice
        \/ /\ UNCHANGED <<notice_files, history, latest>> /\ cur \in Notices
           /\ quarantine' \in {quarantine, quarantine \cup {cur}}
        \/ UNCHANGED <<notice_files, history, latest, quarantine>>
    BY <1>2, <2>2
       DEF WithinMessage, Dies, StoreStep, StoreFault, ProcessEnds, SkipRedelivery,
           LeaveWithoutMap, OpenSkymap, WriteSkymap, RefuseRegion, AppendIndex,
           NothingToPointAt, Unlink, Link, QuarantinePayload, Raise, TearAppend, LinkRefused,
           QuarantineFails, Crash, TypeInv, HandOK, disk, files, lines, pointers
  <2>8. CASE AppendHistory /\ EventOf(cur) \in fragments
    BY <1>1, <2>8 DEF AppendHistory, files, pointers
  <2> QED BY <1>1, <2>3, <2>4, <2>5, <2>6, <2>7, <2>8
<1>3. WithinMessage \/ Dies \/ UNCHANGED <<notice_files, history, latest, quarantine>>
  BY DEF Next, Publish, Rebalance, Consume, Take, HandleMessage, Commit, Return, CommitLost,
         EndBatch, StopAtTop, Signal, RestartAfterEnd, Restart, StartAgain, StartOver,
         storeVars, disk, files, lines, pointers
<1> QED BY <1>1, <1>2, <1>3

-----------------------------------------------------------------------------
(* Store and listener keep the promise of NoticeArchive: a notice is kept, *)
(* filed once or set aside, what is shown is the best of what is filed,    *)
(* and no message is acknowledged before it is kept, nor, unless an append *)
(* may be torn, before it is on record.                                    *)
THEOREM ListenerImplementsArchive == Spec => ImplementsArchive
<1>1. Init => Archive!Init
  BY DEF Init, StoreInit, Zero, Archive!Init
<1>2. RecordedInv /\ RecordedInv' /\ KeptInv' /\ [Next]_vars
        => [Archive!Next]_(Archive!archiveVars)
  <2> SUFFICES ASSUME RecordedInv, RecordedInv', KeptInv', [Next]_vars
               PROVE  Archive!Next \/ UNCHANGED Archive!archiveVars
    OBVIOUS
  <2>1. CASE Next
    BY <2>1, ArchiveStep
  <2>2. CASE UNCHANGED vars
    <3>1. UNCHANGED <<notice_files, Filed, Shown, quarantine, Acknowledged>>
      BY <2>2 DEF Filed, Shown, Acknowledged, vars, storeVars, disk, files, lines, pointers,
                  listenerVars
    <3> QED BY <3>1, ArchiveActions
  <2> QED BY <2>1, <2>2
<1> QED BY <1>1, <1>2, RecordedInvariant, KeptInvariant, PTL
        DEF Spec, ImplementsArchive, Archive!Spec
=============================================================================
