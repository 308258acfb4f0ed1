--------------------------- MODULE PublishPipeline ---------------------------
(***************************************************************************)
(* From the cache to the broker: Cache.Update, MergeMetrics and            *)
(* TriggerUpdate (internal/poller/cache.go) snapshot a device under c.mu   *)
(* and hand the snapshot, after releasing it, to                           *)
(* Publisher.EnqueueDeviceState (internal/mqtt/publisher.go), whose worker *)
(* publishes the pending state of each device until Disconnect.            *)
(*                                                                         *)
(* A device's metrics are abstracted to a version number that every merge  *)
(* increments.  A writer is a goroutine that updates the cache: a scraper, *)
(* the notification handler, a command's verification, a reconciliation.   *)
(***************************************************************************)
EXTENDS Integers, FiniteSets

CONSTANTS
  Writers, Devices,
  None,          \* no state
  MaxVersion,    \* bound: merges per device
  MaxPanics      \* bound: publications that panic

\* A DeviceState: metrics version, Success, and whether it was enqueued
\* before Disconnect closed stop (a history variable).
States == [ver : 0..MaxVersion, ok : BOOLEAN, early : BOOLEAN]

ASSUME BoundsAssumption == MaxVersion \in Nat /\ MaxPanics \in Nat
ASSUME NoneAssumption == None \notin Devices /\ None \notin States

VARIABLES
  version,   \* per device: version of Cache.metrics
  lastOk,    \* per device: success of the latest cache operation
  attempts,  \* operations so far that changed no metric (bounded)
  wpc,       \* per writer: "idle", "store" (in the callback), "signal"
  held,      \* per writer: the snapshot it is about to enqueue
  pending,   \* Publisher.pending
  wake,      \* Publisher.wake (capacity 1): is a signal buffered?
  stop,      \* Publisher.stop is closed
  worker,    \* publishWorker: "select", "drain", "flush", "done"
  hand,      \* the state the worker is publishing
  panics,    \* publications that panicked so far (bounded)
  main,      \* Disconnect: "run", "waiting", "offline", "gone"
  timedOut,  \* Disconnect gave up waiting for the worker
  shown,     \* broker: version on the device's state topic
  avail      \* broker: device's availability topic

cacheVars  == <<version, lastOk, attempts>>
workerVars == <<worker, hand, panics>>
mainVars   == <<stop, main, timedOut>>
vars == <<cacheVars, wpc, held, pending, wake, workerVars, mainVars, shown, avail>>

Nothing == [dev |-> None, st |-> None]
MaxAttempts == MaxVersion

Init ==
  /\ version = [d \in Devices |-> 0]
  /\ lastOk = [d \in Devices |-> FALSE]
  /\ attempts = 0
  /\ wpc = [w \in Writers |-> "idle"]
  /\ held = [w \in Writers |-> Nothing]
  /\ pending = [d \in Devices |-> None]
  /\ wake = FALSE /\ stop = FALSE
  /\ worker = "select" /\ hand = Nothing /\ panics = 0
  /\ main = "run" /\ timedOut = FALSE
  /\ shown = [d \in Devices |-> 0]
  /\ avail = [d \in Devices |-> "unknown"]

-----------------------------------------------------------------------------
(* Cache                                                                   *)

\* snapshotLocked, then c.mu.Unlock(): the callback runs without the lock.
Snapshot(w, d, v, ok) ==
  /\ held' = [held EXCEPT ![w] = [dev |-> d, st |-> [ver |-> v, ok |-> ok, early |-> TRUE]]]
  /\ lastOk' = [lastOk EXCEPT ![d] = ok]
  /\ wpc' = [wpc EXCEPT ![w] = "store"]

\* Update with success, or MergeMetrics: new values.
Merge(w, d) ==
  /\ wpc[w] = "idle"
  /\ version[d] < MaxVersion
  /\ version' = [version EXCEPT ![d] = @ + 1]
  /\ Snapshot(w, d, version[d] + 1, TRUE)
  /\ UNCHANGED <<attempts, pending, wake, workerVars, mainVars, shown, avail>>

\* A failed attempt that bumps the metrics too.
TouchMerges(w, d, ok) ==
  /\ wpc[w] = "idle"
  /\ attempts < MaxAttempts
  /\ attempts' = attempts + 1
  /\ version' = [version EXCEPT ![d] = @ + 1]
  /\ Snapshot(w, d, version[d] + 1, ok)
  /\ UNCHANGED <<pending, wake, workerVars, mainVars, shown, avail>>

\* Update without success (ok = FALSE), or TriggerUpdate (ok = TRUE).
Touch(w, d, ok) ==
  /\ wpc[w] = "idle"
  /\ attempts < MaxAttempts
  /\ attempts' = attempts + 1
  /\ Snapshot(w, d, version[d], ok)
  /\ UNCHANGED <<version, pending, wake, workerVars, mainVars, shown, avail>>

-----------------------------------------------------------------------------
(* EnqueueDeviceState                                                      *)

Signal(w) == wpc' = [wpc EXCEPT ![w] = "idle"] /\ wake' = TRUE

\* A map that keeps the first state of a device instead of the last.
StoreIfAbsent(w) ==
  /\ wpc[w] = "store"
  /\ pending' = IF pending[held[w].dev] # None THEN pending
                ELSE [pending EXCEPT ![held[w].dev] = [held[w].st EXCEPT !.early = ~stop]]
  /\ wpc' = [wpc EXCEPT ![w] = "signal"]
  /\ UNCHANGED <<cacheVars, held, wake, workerVars, mainVars, shown, avail>>

\* pending[name] = st under pubMu ...
Store(w) ==
  /\ wpc[w] = "store"
  /\ pending' = [pending EXCEPT ![held[w].dev] = [held[w].st EXCEPT !.early = ~stop]]
  /\ wpc' = [wpc EXCEPT ![w] = "signal"]
  /\ UNCHANGED <<cacheVars, held, wake, workerVars, mainVars, shown, avail>>

\* A writer that signals only when it found the map empty.
SignalWhenFirst(w) ==
  /\ wpc[w] = "signal"
  /\ wpc' = [wpc EXCEPT ![w] = "idle"]
  /\ wake' = (wake \/ Cardinality({d \in Devices : pending[d] # None}) = 1)
  /\ held' = [held EXCEPT ![w] = Nothing]
  /\ UNCHANGED <<cacheVars, pending, workerVars, mainVars, shown, avail>>

\* ... then a non-blocking send on wake: a full channel already signals.
Wake(w) ==
  /\ wpc[w] = "signal"
  /\ Signal(w)
  /\ held' = [held EXCEPT ![w] = Nothing]
  /\ UNCHANGED <<cacheVars, pending, workerVars, mainVars, shown, avail>>

-----------------------------------------------------------------------------
(* publishWorker                                                           *)

\* select on wake, or on the closed stop channel.
SelectWake ==
  /\ worker = "select" /\ wake
  /\ wake' = FALSE
  /\ worker' = "drain"
  /\ UNCHANGED <<cacheVars, wpc, held, pending, hand, panics, mainVars, shown, avail>>

StopWithoutFlush ==
  /\ worker = "select" /\ stop
  /\ worker' = "done"
  /\ UNCHANGED <<cacheVars, wpc, held, pending, wake, hand, panics, mainVars, shown, avail>>

SelectStop ==
  /\ worker = "select" /\ stop
  /\ worker' = "flush"
  /\ UNCHANGED <<cacheVars, wpc, held, pending, wake, hand, panics, mainVars, shown, avail>>

\* drainPending takes any one device's state out of the map, under pubMu.
DrainTake(d) ==
  /\ worker \in {"drain", "flush"}
  /\ hand = Nothing
  /\ pending[d] # None
  /\ hand' = [dev |-> d, st |-> pending[d]]
  /\ pending' = [pending EXCEPT ![d] = None]
  /\ UNCHANGED <<cacheVars, wpc, held, wake, worker, panics, mainVars, shown, avail>>

\* ... or returns when the map is empty.
DrainEmpty ==
  /\ worker \in {"drain", "flush"}
  /\ hand = Nothing
  /\ \A d \in Devices : pending[d] = None
  /\ worker' = IF worker = "flush" THEN "done" ELSE "select"
  /\ UNCHANGED <<cacheVars, wpc, held, pending, wake, hand, panics, mainVars, shown, avail>>

\* PublishDeviceState: availability always, the metrics only on success.
\* After client.Disconnect the broker no longer sees it.
Publish ==
  /\ hand # Nothing
  /\ IF main = "gone" THEN UNCHANGED <<shown, avail>>
     ELSE /\ avail' = [avail EXCEPT ![hand.dev] = IF hand.st.ok THEN "online" ELSE "offline"]
          /\ shown' = IF hand.st.ok /\ hand.st.ver > 0
                      THEN [shown EXCEPT ![hand.dev] = hand.st.ver] ELSE shown
  /\ hand' = Nothing
  /\ UNCHANGED <<cacheVars, wpc, held, pending, wake, worker, panics, mainVars>>

\* publishFn panics, after the availability message or before it; drainPending
\* recovers and goes on with the next device: this state is lost.
PublishPanics ==
  /\ hand # Nothing
  /\ panics < MaxPanics
  /\ panics' = panics + 1
  /\ hand' = Nothing
  /\ avail' \in {avail} \cup
       IF main = "gone" THEN {}
       ELSE {[avail EXCEPT ![hand.dev] = IF hand.st.ok THEN "online" ELSE "offline"]}
  /\ UNCHANGED <<cacheVars, wpc, held, pending, wake, worker, mainVars, shown>>

-----------------------------------------------------------------------------
(* Disconnect                                                              *)

CloseStop ==
  /\ main = "run"
  /\ stop' = TRUE
  /\ main' = "waiting"
  /\ UNCHANGED <<cacheVars, wpc, held, pending, wake, workerVars, timedOut, shown, avail>>

\* <-p.done, or time.After(publishTimeout).
WaitDone ==
  /\ main = "waiting"
  /\ timedOut' = (worker # "done")
  /\ main' = "offline"
  /\ UNCHANGED <<cacheVars, wpc, held, pending, wake, workerVars, stop, shown, avail>>

\* The bridge's "offline" is published, then the client disconnects.
Disconnected ==
  /\ main = "offline"
  /\ main' = "gone"
  /\ UNCHANGED <<cacheVars, wpc, held, pending, wake, workerVars, stop, timedOut,
                 shown, avail>>

-----------------------------------------------------------------------------
WriterStep(w) == Store(w) \/ Wake(w)

WorkerStep == \/ SelectWake \/ SelectStop \/ DrainEmpty \/ Publish \/ PublishPanics
              \/ \E d \in Devices : DrainTake(d)

Next ==
  \/ \E w \in Writers :
       \/ \E d \in Devices : Merge(w, d) \/ \E ok \in BOOLEAN : Touch(w, d, ok)
       \/ WriterStep(w)
  \/ WorkerStep
  \/ CloseStop \/ WaitDone \/ Disconnected

Spec == Init /\ [][Next]_vars

\* Goroutines that can run do run; nothing obliges the cache to be updated or
\* the program to be stopped.
FairSpec == Spec /\ WF_vars(WorkerStep) /\ \A w \in Writers : WF_vars(WriterStep(w))
-----------------------------------------------------------------------------
(* Properties                                                              *)

TypeOK ==
  /\ version \in [Devices -> 0..MaxVersion]
  /\ lastOk \in [Devices -> BOOLEAN]
  /\ attempts \in 0..MaxAttempts
  /\ wpc \in [Writers -> {"idle", "store", "signal"}]
  /\ held \in [Writers -> {Nothing} \cup [dev : Devices, st : States]]
  /\ pending \in [Devices -> States \cup {None}]
  /\ wake \in BOOLEAN /\ stop \in BOOLEAN /\ timedOut \in BOOLEAN
  /\ worker \in {"select", "drain", "flush", "done"}
  /\ hand \in {Nothing} \cup [dev : Devices, st : States]
  /\ panics \in 0..MaxPanics
  /\ main \in {"run", "waiting", "offline", "gone"}
  /\ shown \in [Devices -> 0..MaxVersion]
  /\ avail \in [Devices -> {"unknown", "online", "offline"}]

\* No state waits for a worker that sleeps: while publishWorker blocks in its
\* select and some device has a pending state, a signal is buffered, or the
\* writer that stored the state has yet to send it, or stop is closed.
NoLostWakeup ==
  worker = "select" /\ (\E d \in Devices : pending[d] # None)
    => wake \/ stop \/ \E w \in Writers : wpc[w] = "signal"

\* When Disconnect goes on without its timeout having fired, every state that
\* was enqueued before it was called has left the pending map and the hands of
\* the worker: nothing is published after the bridge's "offline".
CleanDisconnectFlushes ==
  main \in {"offline", "gone"} /\ ~timedOut
    => /\ hand = Nothing
       /\ \A d \in Devices : pending[d] # None => ~pending[d].early

\* The inductive invariant behind both.
IndInv ==
  /\ TypeOK
  /\ NoLostWakeup
  /\ CleanDisconnectFlushes
  /\ \A w \in Writers : wpc[w] # "idle" => held[w] # Nothing
  /\ worker \in {"select", "done"} => hand = Nothing
  /\ worker \in {"flush", "done"} => stop
  /\ worker = "done" => \A d \in Devices : pending[d] # None => ~pending[d].early
  /\ main \in {"offline", "gone"} /\ ~timedOut => worker = "done"
  /\ main = "run" => ~stop

\* The pipeline implements the coalescing promise.
Coalesced == INSTANCE Coalescer WITH slot <- pending, open <- worker # "done",
                                     Empty <- None

\* Every enqueued state is handed to the broker or replaced by a later one
\* of the same device, whatever the threads do, until the worker's final
\* flush: EnqueueDeviceState, publishWorker and drainPending implement the
\* Coalescer, its fairness included.
ImplementsCoalescer == Coalesced!Spec

\* The step relation alone, for the proof.
ImplementsCoalescerSteps == Coalesced!Safety

\* "coalesce: latest state wins": while the bridge runs, once updates cease the
\* broker shows of every device the availability of its latest cache operation
\* and, if that was a success, the latest metrics of the cache.
LatestStateWins ==
  \A d \in Devices : <>[](main = "run" =>
     IF lastOk[d] THEN avail[d] = "online" /\ shown[d] = version[d]
                  ELSE avail[d] # "online")
=============================================================================
