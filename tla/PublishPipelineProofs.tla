------------------------ MODULE PublishPipelineProofs ------------------------
(***************************************************************************)
(* The safety of the publish pipeline, for every set of writers and        *)
(* devices and every bound: no wakeup is lost, a Disconnect that did not   *)
(* time out has flushed, and every step is a step of the Coalescer.        *)
(***************************************************************************)
EXTENDS PublishPipeline, TLAPS

\* Symbols whose definitions the leaves of this module expand together.
USE DEF Nothing, MaxAttempts

\* A handed-over state is never the empty hand: a device is not None.
LEMMA HandNotNothing ==
  ASSUME NEW d \in Devices, NEW s
  PROVE  [dev |-> d, st |-> s] # Nothing
BY NoneAssumption

\* The initial state of the pipeline satisfies the invariant.
LEMMA InitInv == Init => IndInv
<1> SUFFICES ASSUME Init PROVE IndInv
  OBVIOUS
<1> USE BoundsAssumption DEF Init
<1>1. TypeOK
  <2>1. /\ version \in [Devices -> 0..MaxVersion] /\ shown \in [Devices -> 0..MaxVersion]
        /\ attempts \in 0..MaxAttempts /\ panics \in 0..MaxPanics
    OBVIOUS
  <2>2. /\ lastOk \in [Devices -> BOOLEAN]
        /\ wpc \in [Writers -> {"idle", "store", "signal"}]
        /\ avail \in [Devices -> {"unknown", "online", "offline"}]
    OBVIOUS
  <2>3. /\ held \in [Writers -> {Nothing} \cup [dev : Devices, st : States]]
        /\ pending \in [Devices -> States \cup {None}]
        /\ hand \in {Nothing} \cup [dev : Devices, st : States]
    OBVIOUS
  <2> QED BY <2>1, <2>2, <2>3 DEF TypeOK
<1>2. NoLostWakeup /\ CleanDisconnectFlushes
  BY DEF NoLostWakeup, CleanDisconnectFlushes
<1> QED BY <1>1, <1>2 DEF IndInv

\* A step of the cache gives a writer a snapshot; nothing the worker or
\* Disconnect reads changes.
LEMMA CacheStepInv ==
  ASSUME IndInv, NEW w \in Writers, NEW d \in Devices, NEW v \in 0..MaxVersion,
         NEW ok \in BOOLEAN,
         wpc[w] = "idle",
         version' \in [Devices -> 0..MaxVersion], attempts' \in 0..MaxAttempts,
         Snapshot(w, d, v, ok),
         UNCHANGED <<pending, wake, workerVars, mainVars, shown, avail>>
  PROVE  IndInv'
<1> USE BoundsAssumption, NoneAssumption DEF IndInv, Snapshot, workerVars, mainVars
<1>1. [dev |-> d, st |-> [ver |-> v, ok |-> ok, early |-> TRUE]] \in [dev : Devices, st : States]
  BY DEF States
<1>2. TypeOK'
  BY <1>1 DEF TypeOK
<1>3. \A u \in Writers : wpc'[u] # "idle" => held'[u] # Nothing
  BY HandNotNothing DEF TypeOK
<1>4. NoLostWakeup'
  BY DEF NoLostWakeup, TypeOK
<1>5. CleanDisconnectFlushes'
  BY DEF CleanDisconnectFlushes
<1> QED BY <1>2, <1>3, <1>4, <1>5

\* EnqueueDeviceState preserves the invariant: what it stores after stop is
\* marked late, and the signal is still to come.
LEMMA EnqueueInv ==
  ASSUME IndInv, NEW w \in Writers, Store(w) \/ Wake(w)
  PROVE  IndInv'
<1> USE BoundsAssumption, NoneAssumption DEF IndInv, cacheVars, workerVars, mainVars
<1>1. CASE Store(w)
  <2> USE <1>1 DEF Store
  <2>1. held[w] \in [dev : Devices, st : States]
    BY DEF TypeOK
  <2>2. [held[w].st EXCEPT !.early = ~stop] \in States
    BY <2>1 DEF TypeOK, States
  <2>3. /\ pending' \in [Devices -> States \cup {None}]
        /\ \A d \in Devices : pending'[d] # None /\ stop /\ pending'[d].early
                                => pending[d] # None /\ pending[d].early
    BY <2>1, <2>2 DEF TypeOK, States
  <2>4. TypeOK'
    BY <2>3 DEF TypeOK
  <2>5. NoLostWakeup'
    BY DEF NoLostWakeup, TypeOK
  <2>6. main \in {"offline", "gone"} => stop \/ timedOut
    OBVIOUS
  <2>7. CleanDisconnectFlushes'
    BY <2>3, <2>6 DEF CleanDisconnectFlushes
  <2>8. worker' = "done" => \A d \in Devices : pending'[d] # None => ~pending'[d].early
    BY <2>3
  <2>9. \A u \in Writers : wpc'[u] # "idle" => held'[u] # Nothing
    BY DEF TypeOK
  <2> QED BY <2>4, <2>5, <2>7, <2>8, <2>9
<1>2. CASE Wake(w)
  <2> USE <1>2 DEF Wake, Signal
  <2>1. TypeOK' BY DEF TypeOK
  <2>2. NoLostWakeup' BY DEF NoLostWakeup
  <2>3. CleanDisconnectFlushes' BY DEF CleanDisconnectFlushes
  <2>4. \A u \in Writers : wpc'[u] # "idle" => held'[u] # Nothing
    BY DEF TypeOK
  <2> QED BY <2>1, <2>2, <2>3, <2>4
<1> QED BY <1>1, <1>2

\* publishWorker preserves the invariant: it goes to sleep, or ends, only with
\* an empty map.
LEMMA WorkerInv ==
  ASSUME IndInv, WorkerStep
  PROVE  IndInv'
<1> USE BoundsAssumption, NoneAssumption DEF IndInv, cacheVars, mainVars
<1>1. CASE SelectWake
  BY <1>1 DEF SelectWake, TypeOK, NoLostWakeup, CleanDisconnectFlushes
<1>2. CASE SelectStop
  BY <1>2 DEF SelectStop, TypeOK, NoLostWakeup, CleanDisconnectFlushes
<1>3. CASE DrainEmpty
  <2> USE <1>3 DEF DrainEmpty
  <2>1. TypeOK' BY DEF TypeOK
  <2>2. NoLostWakeup' BY DEF NoLostWakeup
  <2>3. CleanDisconnectFlushes' BY DEF CleanDisconnectFlushes
  <2> QED BY <2>1, <2>2, <2>3
<1>4. ASSUME NEW d \in Devices, DrainTake(d) PROVE IndInv'
  <2> USE <1>4 DEF DrainTake
  <2>1. pending[d] \in States BY DEF TypeOK
  <2>2. TypeOK' BY <2>1 DEF TypeOK
  <2>3. NoLostWakeup' BY DEF NoLostWakeup
  <2>4. CleanDisconnectFlushes' BY DEF CleanDisconnectFlushes
  <2> QED BY <2>2, <2>3, <2>4
<1>5. CASE Publish
  <2> USE <1>5 DEF Publish
  <2>1. hand \in [dev : Devices, st : States] BY DEF TypeOK
  <2>2. /\ avail' \in [Devices -> {"unknown", "online", "offline"}]
        /\ shown' \in [Devices -> 0..MaxVersion]
    BY <2>1 DEF TypeOK, States
  <2>3. TypeOK' BY <2>2 DEF TypeOK
  <2>4. NoLostWakeup' BY DEF NoLostWakeup
  <2>5. CleanDisconnectFlushes' BY DEF CleanDisconnectFlushes
  <2> QED BY <2>3, <2>4, <2>5
<1>6. CASE PublishPanics
  <2> USE <1>6 DEF PublishPanics
  <2>1. hand \in [dev : Devices, st : States] BY DEF TypeOK
  <2>2. avail' \in [Devices -> {"unknown", "online", "offline"}]
    BY <2>1 DEF TypeOK
  <2>3. TypeOK' BY <2>2 DEF TypeOK
  <2>4. NoLostWakeup' BY DEF NoLostWakeup
  <2>5. CleanDisconnectFlushes' BY DEF CleanDisconnectFlushes
  <2> QED BY <2>3, <2>4, <2>5
<1> QED BY <1>1, <1>2, <1>3, <1>4, <1>5, <1>6 DEF WorkerStep

\* Disconnect preserves the invariant: it trusts the flush only when the worker
\* has ended.
LEMMA DisconnectInv ==
  ASSUME IndInv, CloseStop \/ WaitDone \/ Disconnected
  PROVE  IndInv'
<1> USE BoundsAssumption DEF IndInv, cacheVars, workerVars
<1>1. TypeOK'
  BY DEF TypeOK, CloseStop, WaitDone, Disconnected
<1>2. NoLostWakeup'
  BY DEF NoLostWakeup, CloseStop, WaitDone, Disconnected
<1>3. CleanDisconnectFlushes'
  BY DEF CleanDisconnectFlushes, CloseStop, WaitDone, Disconnected
<1>4. /\ \A w \in Writers : wpc'[w] # "idle" => held'[w] # Nothing
      /\ worker' \in {"select", "done"} => hand' = Nothing
      /\ worker' \in {"flush", "done"} => stop'
      /\ worker' = "done" => \A d \in Devices : pending'[d] # None => ~pending'[d].early
  BY DEF CloseStop, WaitDone, Disconnected
<1>5. /\ main' \in {"offline", "gone"} /\ ~timedOut' => worker' = "done"
      /\ main' = "run" => ~stop'
  BY DEF CloseStop, WaitDone, Disconnected
<1> QED BY <1>1, <1>2, <1>3, <1>4, <1>5

\* Every step of the pipeline preserves the invariant.
LEMMA NextInv == IndInv /\ [Next]_vars => IndInv'
<1> SUFFICES ASSUME IndInv, [Next]_vars PROVE IndInv'
  OBVIOUS
<1>1. ASSUME NEW w \in Writers, NEW d \in Devices, Merge(w, d) PROVE IndInv'
  <2>1. /\ version[d] + 1 \in 0..MaxVersion
        /\ version' \in [Devices -> 0..MaxVersion]
        /\ attempts' \in 0..MaxAttempts
    BY <1>1, BoundsAssumption DEF Merge, IndInv, TypeOK
  <2> QED BY <1>1, <2>1, CacheStepInv DEF Merge
<1>2. ASSUME NEW w \in Writers, NEW d \in Devices, NEW ok \in BOOLEAN, Touch(w, d, ok)
      PROVE  IndInv'
  <2>1. /\ version[d] \in 0..MaxVersion
        /\ version' \in [Devices -> 0..MaxVersion]
        /\ attempts' \in 0..MaxAttempts
    BY <1>2, BoundsAssumption DEF Touch, IndInv, TypeOK
  <2> QED BY <1>2, <2>1, CacheStepInv DEF Touch
<1>3. ASSUME NEW w \in Writers, WriterStep(w) PROVE IndInv'
  BY <1>3, EnqueueInv DEF WriterStep
<1>4. CASE WorkerStep
  BY <1>4, WorkerInv
<1>5. CASE CloseStop \/ WaitDone \/ Disconnected
  BY <1>5, DisconnectInv
<1>6. CASE UNCHANGED vars
  BY <1>6 DEF vars, cacheVars, workerVars, mainVars, IndInv, TypeOK, NoLostWakeup,
              CleanDisconnectFlushes
<1> QED BY <1>1, <1>2, <1>3, <1>4, <1>5, <1>6 DEF Next

\* Every reachable state of the pipeline satisfies the invariant.
THEOREM PipelineInvariance == Spec => []IndInv
BY InitInv, NextInv, PTL DEF Spec

\* Every variable of the cache, the publisher and the broker keeps its type.
THEOREM PipelineTypeCorrect == Spec => []TypeOK
<1>1. IndInv => TypeOK BY DEF IndInv
<1> QED BY <1>1, PipelineInvariance, PTL

\* publishWorker never sleeps on a pending state nobody will signal.
THEOREM NoLostWakeupAlways == Spec => []NoLostWakeup
<1>1. IndInv => NoLostWakeup BY DEF IndInv
<1> QED BY <1>1, PipelineInvariance, PTL

\* A Disconnect that did not time out has flushed what was enqueued before it.
THEOREM CleanDisconnectFlushesAlways == Spec => []CleanDisconnectFlushes
<1>1. IndInv => CleanDisconnectFlushes BY DEF IndInv
<1> QED BY <1>1, PipelineInvariance, PTL

\* The pipeline starts with empty slots, an empty hand and an open courier.
LEMMA RefinesInit == Init => Coalesced!Init
BY DEF Init, Coalesced!Init, Coalesced!Nothing

\* Every step offers, takes, hands over, shuts the courier, or changes nothing
\* the Coalescer sees.
LEMMA RefinesNext == IndInv /\ [Next]_vars => [Coalesced!Next]_(Coalesced!vars)
<1> SUFFICES ASSUME IndInv, [Next]_vars PROVE [Coalesced!Next]_(Coalesced!vars)
  OBVIOUS
<1> USE NoneAssumption
    DEF Coalesced!vars, Coalesced!Nothing, cacheVars, workerVars, mainVars
<1>1. ASSUME NEW w \in Writers, Store(w) PROVE Coalesced!Next
  <2>1. held[w] \in [dev : Devices, st : States]
    BY <1>1 DEF Store, IndInv, TypeOK
  <2>2. [held[w].st EXCEPT !.early = ~stop] \in States
    BY <1>1, <2>1 DEF IndInv, TypeOK, States
  <2>3. Coalesced!Offer(held[w].dev)
    BY <1>1, <2>1, <2>2 DEF Store, Coalesced!Offer
  <2> QED BY <2>1, <2>3 DEF Coalesced!Next
<1>2. ASSUME NEW d \in Devices, DrainTake(d) PROVE Coalesced!Next
  <2>1. Coalesced!Take(d)
    BY <1>2 DEF DrainTake, Coalesced!Take
  <2> QED BY <2>1 DEF Coalesced!Next
<1>3. CASE DrainEmpty
  <2>1. CASE worker = "flush"
    BY <1>3, <2>1 DEF DrainEmpty, Coalesced!Shut, Coalesced!Next
  <2>2. CASE worker = "drain"
    BY <1>3, <2>2 DEF DrainEmpty
  <2> QED BY <1>3, <2>1, <2>2 DEF DrainEmpty
<1>4. CASE Publish \/ PublishPanics
  BY <1>4 DEF Publish, PublishPanics, Coalesced!HandOver, Coalesced!Next
<1>5. CASE SelectWake \/ SelectStop \/ CloseStop \/ WaitDone \/ Disconnected
  BY <1>5 DEF SelectWake, SelectStop, CloseStop, WaitDone, Disconnected
<1>6. ASSUME NEW w \in Writers, NEW d \in Devices,
             Merge(w, d) \/ \E ok \in BOOLEAN : Touch(w, d, ok)
      PROVE  UNCHANGED Coalesced!vars
  BY <1>6 DEF Merge, Touch
<1>7. ASSUME NEW w \in Writers, Wake(w) PROVE UNCHANGED Coalesced!vars
  BY <1>7 DEF Wake
<1>8. CASE UNCHANGED vars
  BY <1>8 DEF vars
<1> QED BY <1>1, <1>2, <1>3, <1>4, <1>5, <1>6, <1>7, <1>8 DEF Next, WriterStep, WorkerStep

\* The threaded pipeline implements the Coalescer step by step: whatever is
\* enqueued is handed to the broker or replaced by a later state of the same
\* device, and the worker ends only with nothing pending.
THEOREM PipelineRefinesCoalescer == Spec => ImplementsCoalescerSteps
BY PipelineInvariance, RefinesInit, RefinesNext, PTL
   DEF Spec, ImplementsCoalescerSteps, Coalesced!Safety
=============================================================================
