----------------------------- MODULE GcnListener -----------------------------
(***************************************************************************)
(* The Kafka listener of src/desi_aap/gcn_listener.py over the store of    *)
(* GcnStore: it consumes a batch, hands each message to the store, commits *)
(* its offset, and looks at the stop request between batches.              *)
(*                                                                         *)
(* A partition is an append-only log; offsets count from 0, so offset o is *)
(* log[p][o + 1].  The messages of a batch that are still to be handled    *)
(* are those from next[p] up to end[p], and the batch may interleave its   *)
(* partitions in any way.  More faults: "commit" (an offset commit is      *)
(* lost), "rebalance" (the broker reassigns the partitions, and fetching   *)
(* goes on from the committed offsets), "broker" (the broker reports an    *)
(* error as a message of the batch).                                       *)
(***************************************************************************)
EXTENDS GcnStore, Functions

CONSTANTS Partitions,          \* the partitions of the subscribed topics
          Feed,                \* per partition, the bodies its topic carries
          MaxLog,              \* bound: messages published on a partition
          CONSUME_BATCH_SIZE,  \* messages a batch may hold
          DRAIN_EMPTY_BATCHES, \* empty batches --once takes for a drained buffer
          OnceModes,           \* whether the listener may run with --once, without, or either
          Signals              \* whether it may be asked to stop

ASSUME ListenerAssumption ==
  /\ Feed \in [Partitions -> SUBSET Notices]
  /\ MaxLog \in Nat
  /\ CONSUME_BATCH_SIZE \in Nat \ {0} /\ DRAIN_EMPTY_BATCHES \in Nat \ {0}
  /\ OnceModes \subseteq BOOLEAN /\ Signals \in BOOLEAN

VARIABLES
  log,        \* per partition, the messages published so far
  committed,  \* per partition, the offset the broker keeps for the group
  fetch,      \* per partition, the offset the consumer fetches from next
  next, end,  \* per partition, the part of the batch still to be handled
  part,       \* the partition of the message in hand
  loop,       \* "top" (about to consume), "batch" or "exited"
  once,       \* whether this listener was started with --once
  stop,       \* the stop event
  empties     \* consecutive empty batches

offsets == <<fetch, next, end, part>>
control == <<loop, once, stop, empties>>
listenerVars == <<log, committed, offsets, control>>
vars == <<storeVars, listenerVars>>

Zero == [p \in Partitions |-> 0]

Init ==
  /\ StoreInit
  /\ log = [p \in Partitions |-> <<>>]
  /\ committed = Zero /\ fetch = Zero /\ next = Zero /\ end = Zero
  /\ part \in Partitions
  /\ loop = "top" /\ stop = FALSE /\ empties = 0 /\ once \in OnceModes

-----------------------------------------------------------------------------
(* The broker.                                                             *)

Publish(p, n) ==
  /\ Len(log[p]) < MaxLog
  /\ log' = [log EXCEPT ![p] = Append(@, n)]
  /\ UNCHANGED <<storeVars, committed, offsets, control>>

(* The partitions are taken away and given back; the batch in hand stays.  *)
Rebalance ==
  /\ Fault("rebalance") /\ loop # "exited" /\ pc # "down" /\ fetch # committed
  /\ fetch' = committed
  /\ UNCHANGED <<disk, work, pc, cur, log, committed, next, end, part, control>>

-----------------------------------------------------------------------------
(* run_listener and process_batch.                                         *)

(* Mutant: the count starts afresh with every batch.                       *)
EmptiesOfOne(upto, errors) == IF upto # fetch \/ errors THEN 0 ELSE 1

(* Consecutive empty batches, counted as far as the drain check looks.     *)
EmptiesAfter(upto, errors) ==
  IF upto # fetch \/ errors THEN 0
  ELSE IF empties < DRAIN_EMPTY_BATCHES THEN empties + 1 ELSE empties

(* consume() returns messages of any of the partitions, none if they come  *)
(* late; errors says that broker-side errors are among them, which count   *)
(* as consumed and are otherwise passed over.                              *)
Consume(upto, errors) ==
  /\ loop = "top" /\ pc = "idle" /\ ~stop
  /\ \A p \in Partitions : upto[p] \in fetch[p] .. Len(log[p])
  /\ FoldFunction(+, 0, [p \in Partitions |-> upto[p] - fetch[p]]) <= CONSUME_BATCH_SIZE
  /\ IF errors THEN Fault("broker") ELSE UNCHANGED faults
  /\ next' = fetch /\ end' = upto /\ fetch' = upto
  /\ empties' = EmptiesAfter(upto, errors)
  /\ loop' = "batch"
  /\ UNCHANGED <<disk, work, pc, cur, log, committed, part, once, stop>>

(* Mutant: the offset is committed as the message is taken up.             *)
TakeAndCommit(p) ==
  /\ loop = "batch" /\ next[p] < end[p]
  /\ HandleMessage(log[p][next[p] + 1])
  /\ part' = p
  /\ committed' = [committed EXCEPT ![p] = next[p] + 1]
  /\ UNCHANGED <<log, fetch, next, end, control>>

(* The next message of the batch, and handle_message called on it.         *)
Take(p) ==
  /\ loop = "batch" /\ next[p] < end[p]
  /\ HandleMessage(log[p][next[p] + 1])
  /\ part' = p
  /\ UNCHANGED <<log, committed, fetch, next, end, control>>

(* The message is stored or quarantined: its offset is committed.          *)
Commit ==
  /\ Return
  /\ committed' = [committed EXCEPT ![part] = next[part] + 1]
  /\ next' = [next EXCEPT ![part] = @ + 1]
  /\ UNCHANGED <<log, fetch, end, part, control>>

(* commit() raises and is logged, or its request is lost on the way.       *)
CommitLost ==
  /\ pc = "handled" /\ Fault("commit")
  /\ pc' = "idle" /\ PutDown
  /\ next' = [next EXCEPT ![part] = @ + 1]
  /\ UNCHANGED <<disk, log, committed, fetch, end, part, control>>

(* The loop's condition and the drain check of --once.                     *)
EndBatch ==
  /\ loop = "batch" /\ pc = "idle" /\ next = end
  /\ loop' = IF stop \/ (once /\ empties = DRAIN_EMPTY_BATCHES) THEN "exited" ELSE "top"
  /\ UNCHANGED <<storeVars, log, committed, offsets, once, stop, empties>>

(* Mutant: a stop request waits for the stream to go quiet.                *)
StopWhenDrained ==
  /\ loop = "top" /\ pc = "idle" /\ stop /\ empties = DRAIN_EMPTY_BATCHES
  /\ loop' = "exited"
  /\ UNCHANGED <<storeVars, log, committed, offsets, once, stop, empties>>

StopAtTop ==
  /\ loop = "top" /\ pc = "idle" /\ stop
  /\ loop' = "exited"
  /\ UNCHANGED <<storeVars, log, committed, offsets, once, stop, empties>>

(* SIGINT or SIGTERM: request_stop sets the event and returns.             *)
Signal ==
  /\ Signals /\ ~stop /\ loop # "exited" /\ pc # "down"
  /\ stop' = TRUE
  /\ UNCHANGED <<storeVars, log, committed, offsets, loop, once, empties>>

(* Mutant: the new process goes on from where the old one had fetched to.  *)
StartFromPosition ==
  /\ fetch' = fetch /\ next' = fetch /\ end' = fetch
  /\ loop' = "top" /\ stop' = FALSE /\ empties' = 0
  /\ UNCHANGED <<log, committed, part, once>>

(* A new process joins the group and is given the committed offsets.       *)
StartOver ==
  /\ fetch' = committed /\ next' = committed /\ end' = committed
  /\ loop' = "top" /\ stop' = FALSE /\ empties' = 0
  /\ UNCHANGED <<log, committed, part, once>>

RestartAfterEnd == Restart /\ StartOver

StartAgain ==
  /\ loop = "exited" /\ ~once
  /\ StartOver
  /\ UNCHANGED storeVars

-----------------------------------------------------------------------------
WithinMessage == (StoreStep \/ StoreFault) /\ UNCHANGED listenerVars

Dies == loop # "exited" /\ ProcessEnds /\ UNCHANGED listenerVars

Next ==
  \/ \E p \in Partitions : \E n \in Feed[p] : Publish(p, n)
  \/ Rebalance
  \/ \E upto \in [Partitions -> 0 .. MaxLog], errors \in BOOLEAN : Consume(upto, errors)
  \/ \E p \in Partitions : Take(p)
  \/ WithinMessage
  \/ Commit \/ CommitLost
  \/ EndBatch \/ StopAtTop \/ Signal
  \/ Dies \/ RestartAfterEnd \/ StartAgain

Spec == Init /\ [][Next]_vars

(* The process runs on while it is up, is restarted when it is not, and    *)
(* what the broker has is fetched in the end from every partition.         *)
Fetches(p) ==
  \E upto \in [Partitions -> 0 .. MaxLog] : upto[p] > fetch[p] /\ Consume(upto, FALSE)

Fairness ==
  /\ \A p \in Partitions : WF_vars(Take(p)) /\ SF_vars(Fetches(p))
  /\ WF_vars(\E upto \in [Partitions -> 0 .. MaxLog] : Consume(upto, FALSE))
  /\ WF_vars(StoreStep /\ UNCHANGED listenerVars)
  /\ WF_vars(Commit) /\ WF_vars(EndBatch) /\ WF_vars(StopAtTop)
  /\ WF_vars(RestartAfterEnd)

FairSpec == Spec /\ Fairness

-----------------------------------------------------------------------------
(* Properties.                                                             *)

(* Every variable of the listener has the type its declaration describes.  *)
TypeOK ==
  /\ StoreTypeOK
  /\ log \in [Partitions -> Seq(Notices)]
  /\ committed \in [Partitions -> Nat] /\ fetch \in [Partitions -> Nat]
  /\ next \in [Partitions -> Nat] /\ end \in [Partitions -> Nat]
  /\ part \in Partitions
  /\ loop \in {"top", "batch", "exited"} /\ once \in BOOLEAN /\ stop \in BOOLEAN
  /\ empties \in 0 .. DRAIN_EMPTY_BATCHES

(* No message is lost for good: whatever crashes, fails, is torn, is       *)
(* committed late or redelivered, the body of every message below the      *)
(* committed offset, which no restart will read again, is on disk.         *)
CommittedIsKept ==
  \A p \in Partitions : \A o \in 1 .. committed[p] :
    log[p][o] \in notice_files \cup quarantine

Recorded(n) == n \in quarantine \/ (n \notin Malformed /\ InHistory(n))

(* As long as no append is torn it is more than a loose file: it is listed *)
(* in its event's history, or set aside for inspection.                    *)
CommittedIsRecorded ==
  \A p \in Partitions : \A o \in 1 .. committed[p] :
    Recorded(log[p][o])

(* The line of a notice may have gone into the fragment that a torn append *)
(* of another notice of its event left; that one was set aside.            *)
LostInFragment(n) ==
  /\ n \in notice_files
  /\ \E m \in quarantine \ (Malformed \cup {n}) : EventOf(m) = EventOf(n)

(* Poison messages do not stall the stream, nor do crashes or late commits *)
(* leave a gap in it: every message ever published is recorded in the end, *)
(* unless the listener has come to the end it was asked for.  Where an     *)
(* append may be torn, one that follows it in the same history may have no *)
(* record but its body under notices/.                                     *)
EveryMessageRecorded ==
  \A p \in Partitions : \A o \in 1 .. MaxLog :
    Len(log[p]) >= o ~>
      \/ /\ Len(log[p]) >= o
         /\ \/ Recorded(log[p][o])
            \/ "torn" \in Faults /\ LostInFragment(log[p][o])
      \/ loop = "exited"

(* A stop request ends the listener: while it is up, it exits, though it   *)
(* first handles what is left of the batch.                                *)
StopEnds == stop ~> loop = "exited" \/ pc = "down"

(* With --once the listener comes to its end when the stream goes quiet,   *)
(* whatever empty batches and broker errors it met on the way.             *)
OnceEnds == once => <>(loop = "exited")

(* The listener keeps the promise of NoticeArchive: what is kept and what  *)
(* is filed, what is shown as current and what is acknowledged to the      *)
(* broker.                                                                 *)
Archive == INSTANCE NoticeArchive WITH
  Tears <- "torn" \in Faults,
  kept <- notice_files,
  filed <- [e \in Events |-> [i \in DOMAIN history[e] |-> history[e][i].notice]],
  aside <- quarantine,
  shown <- [e \in Events |-> IF latest[e] = None THEN None ELSE latest[e].notice],
  acknowledged <- UNION {{log[p][o] : o \in 1 .. committed[p]} : p \in Partitions}

ImplementsArchive == Archive!Spec
=============================================================================
