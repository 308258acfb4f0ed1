--------------------------- MODULE EntitiesProofs ---------------------------
(***************************************************************************)
(* Proofs about Entities for every device, specification and bound: the    *)
(* polled instance is one the device has, no control is offered of a       *)
(* metric the device cannot set, what a scrape asks for it gets, the bytes *)
(* of maps, frames and values are read as they were written, no two series *)
(* of an enum are the same, and an entity shows what was chosen.           *)
(***************************************************************************)
EXTENDS Entities, ClientProofs, FiniteSetTheorems

-----------------------------------------------------------------------------
(* Facts about the constants                                               *)

\* EPCs of a specification are bytes, and none marks the absence of a map.
LEMMA EPCTypes == SpecEPCs \subseteq Bytes \ {0} /\ -1 \notin SpecEPCs
<1>1. SpecEPCs \subseteq Bytes \ {0}
  BY SpecsAssumption DEF SpecEPCs
<1> QED BY <1>1, ByteType

\* A writable map has a size, the mark of an absent one too.
LEMMA MapsAreFinite == \A w \in Maps : Cardinality(w) \in Int
<1> SUFFICES ASSUME NEW w \in Maps PROVE Cardinality(w) \in Int
  OBVIOUS
<1>1. CASE w = NoMap
  <2>1. Cardinality({-1}) = 1
    BY FS_Singleton
  <2> QED BY <1>1, <2>1 DEF NoMap
<1>2. CASE w \in SUBSET Bytes
  <2>1. IsFiniteSet(Bytes)
    <3>1. 0 \in Int /\ 255 \in Int
      OBVIOUS
    <3> QED BY <3>1, FS_Interval DEF Bytes
  <2>2. IsFiniteSet(w)
    BY <1>2, <2>1, FS_Subset
  <2> QED BY <2>2, FS_CardinalityType
<1> QED BY <1>1, <1>2 DEF Maps

\* The writable map that is read is the device's.
LEMMA MapIsRead ==
  ASSUME node \in Nodes
  PROVE  MapOf(SETMAP) \in Maps /\ MapOf(SETMAP) \in {NoMap, node.settable}
<1>1. CASE Edt(node, SETMAP) = <<>>
  BY <1>1 DEF MapOf, Maps
<1>2. CASE Edt(node, SETMAP) # <<>>
  <2> DEFINE edt == Edt(node, SETMAP)
  <2>1. IsPropertyMap(edt, node.settable)
    BY <1>2, NodesAssumption
  <2> HIDE DEF edt
  <2>2. DecodePropertyMap(edt) = node.settable
    BY <2>1, PropertyMapIsRead
  <2>3. node.settable \subseteq Bytes
    <3>1. CASE node.settable = {edt[i] : i \in 2..Len(edt)}
      <4>1. edt \in Seq(Bytes)
        BY <2>1 DEF IsPropertyMap
      <4>2. ASSUME NEW i \in 2..Len(edt) PROVE edt[i] \in Bytes
        <5>1. i \in 1..Len(edt)
          BY <4>1
        <5> QED BY <4>1, <5>1
      <4> QED BY <3>1, <4>2
    <3>2. CASE node.settable \subseteq 128..255
      BY <3>2 DEF Bytes
    <3> QED BY <2>1, <3>1, <3>2 DEF IsPropertyMap
  <2>4. MapOf(SETMAP) = node.settable
    BY <1>2, <2>2 DEF MapOf, edt
  <2> QED BY <2>3, <2>4 DEF Maps
<1> QED BY <1>1, <1>2

\* The publisher's key of a state.
LEMMA KeyType ==
  ASSUME NEW s, s.info \in Infos, s.writable \in Maps
  PROVE  InfoKey(s) \in Infos \X Int
<1>1. WritableCount(s) \in Int
  BY MapsAreFinite DEF WritableCount
<1>2. s.info \cap Named \in Infos
  BY DEF Infos
<1> QED BY <1>1, <1>2 DEF InfoKey

-----------------------------------------------------------------------------
(* The inductive invariant                                                 *)

\* Nothing is known, told or published at the start.
LEMMA InitInv == Init => IndInv
<1> SUFFICES ASSUME Init PROVE IndInv
  OBVIOUS
<1> USE EntitiesAssumption DEF Init
<1>1. TypeOK
  BY DEF TypeOK, SameClass, Infos, Maps
<1>2. QuietUntilScraping /\ MapsAreTheDevices /\ PolledInstanceExists /\ ControlsAreSettable
  BY DEF QuietUntilScraping, MapsAreTheDevices, PolledInstanceExists, ControlsAreSettable
<1> QED BY <1>1, <1>2 DEF IndInv

\* What a step that keeps node, eoj and the bound of losses does to the instance.
LEMMA InstanceKept ==
  ASSUME TypeOK, PolledInstanceExists, pc # "eoj", UNCHANGED <<node, eoj>>,
         lost' \in Nat, lost <= lost'
  PROVE  PolledInstanceExists'
<1>1. lost' = 0 => lost = 0
  BY DEF TypeOK
<1> QED BY <1>1 DEF PolledInstanceExists, Exists

\* Losses are counted.
LEMMA LostType == TypeOK => lost \in Nat /\ MaxLost \in Nat
BY EntitiesAssumption DEF TypeOK

-----------------------------------------------------------------------------
(* discoverDeviceState                                                     *)

\* The instance is resolved: by ResolveFindsInstance it is one the device has.
LEMMA DiscoverEOJInv == IndInv /\ DiscoverEOJ => IndInv'
<1> SUFFICES ASSUME IndInv, DiscoverEOJ PROVE IndInv'
  OBVIOUS
<1> USE EntitiesAssumption
<1>1. PICK silent \in Silences : /\ lost + Cardinality(silent) <= MaxLost
                                 /\ lost' = lost + Cardinality(silent)
                                 /\ eoj' = ResolveEOJ(node, Configured, silent)
  BY DEF DiscoverEOJ
<1>2. node \in Nodes /\ node' = node /\ lost \in 0..MaxLost
  BY DEF IndInv, TypeOK, DiscoverEOJ
<1>3. eoj' \in EOJs /\ SameClass(eoj', Configured)
  <2>1. node.list \in Seq(Bytes)
    BY <1>2, NodesAssumption
  <2> QED BY <1>1, <2>1, ResolveKeepsClass
<1>4. IsFiniteSet(silent) /\ Cardinality(silent) \in Nat
  <2> DEFINE P == {{}, {0}}
             I == {{}} \cup {{k} : k \in 1..15}
  <2>1. IsFiniteSet(0..15)
    <3>1. 0 \in Int /\ 15 \in Int
      OBVIOUS
    <3> QED BY <3>1, FS_Interval
  <2>2. silent \in SUBSET (0..15)
    <3>1. \A p \in P : p \subseteq 0..15
      OBVIOUS
    <3>2. \A i \in I : i \subseteq 0..15
      OBVIOUS
    <3>3. silent \in {p \cup i : p \in P, i \in I}
      BY DEF Silences
    <3> HIDE DEF P, I
    <3> QED BY <3>1, <3>2, <3>3
  <2>3. IsFiniteSet(silent)
    BY <2>1, <2>2, FS_Subset
  <2> QED BY <2>3, FS_CardinalityType
<1>5. TypeOK'
  <2>1. lost' \in 0..MaxLost
    BY <1>1, <1>2, <1>4
  <2> QED BY <1>3, <2>1 DEF IndInv, TypeOK, DiscoverEOJ, cacheVars, mqttVars, boundVars
<1>6. QuietUntilScraping'
  BY DEF IndInv, QuietUntilScraping, DiscoverEOJ, cacheVars, mqttVars
<1>7. MapsAreTheDevices'
  BY DEF IndInv, MapsAreTheDevices, DiscoverEOJ, cacheVars
<1>8. PolledInstanceExists'
  <2> SUFFICES ASSUME lost' = 0, node.refuses,
                      \E o \in node.eojs : SameClass(o, Configured) /\ o[3] \in 1..15
               PROVE  eoj' \in node.eojs
    BY <1>2, <1>3 DEF PolledInstanceExists, Exists
  <2>1. Cardinality(silent) = 0
    BY <1>1, <1>2, <1>4
  <2>2. silent = {}
    BY <1>4, <2>1, FS_EmptySet
  <2>3. /\ node.list \in Seq(Bytes) /\ ListsItsOwn(node) /\ node.eojs \subseteq EOJs
    BY <1>2, NodesAssumption
  <2>4. ResolveEOJ(node, Configured, {}) \in node.eojs
    BY <2>3, ResolveFindsInstance
  <2> QED BY <1>1, <2>2, <2>4
<1>9. ControlsAreSettable'
  BY DEF IndInv, QuietUntilScraping, ControlsAreSettable, DiscoverEOJ, mqttVars
<1> QED BY <1>5, <1>6, <1>7, <1>8, <1>9 DEF IndInv

\* What GetDeviceInfo returns.
LEMMA IdentityTypes ==
  ASSUME TypeOK, NEW r \in Identities
  PROVE  /\ r[1] \in Infos /\ r[2] \in Nat /\ lost + r[2] \in 0..MaxLost
<1>1. lost \in Nat /\ MaxLost \in Nat /\ lost <= MaxLost
  BY LostType DEF TypeOK
<1>2. CASE r = <<{}, 0>>
  BY <1>1, <1>2 DEF Infos
<1>3. CASE r # <<{}, 0>>
  <2>1. node.identity \subseteq Fields
    BY NodesAssumption DEF TypeOK
  <2>2. \/ r = <<node.identity, 0>>
        \/ \E i \in SUBSET node.identity : lost < MaxLost /\ r = <<i, 1>>
    BY <1>3 DEF Identities
  <2>3. r[1] \in Infos /\ r[2] \in {0, 1} /\ (r[2] = 1 => lost < MaxLost)
    BY <2>1, <2>2 DEF Infos
  <2> QED BY <1>1, <2>3
<1> QED BY <1>2, <1>3

\* The identity is read, or not.
LEMMA DiscoverInfoInv == IndInv /\ DiscoverInfo => IndInv'
<1> SUFFICES ASSUME IndInv, DiscoverInfo PROVE IndInv'
  OBVIOUS
<1>1. PICK r \in Identities : info' = r[1] /\ lost' = lost + r[2]
  BY DEF DiscoverInfo
<1>2. info' \in Infos /\ lost' \in 0..MaxLost /\ lost' \in Nat /\ lost <= lost'
  <2>1. r[1] \in Infos /\ r[2] \in Nat /\ lost + r[2] \in 0..MaxLost
    BY IdentityTypes DEF IndInv
  <2>2. lost \in Nat
    BY LostType DEF IndInv
  <2> QED BY <1>1, <2>1, <2>2
<1>3. TypeOK'
  BY <1>2 DEF IndInv, TypeOK, DiscoverInfo, mqttVars, boundVars
<1>4. QuietUntilScraping' /\ MapsAreTheDevices' /\ ControlsAreSettable'
  BY DEF IndInv, QuietUntilScraping, MapsAreTheDevices, ControlsAreSettable, DiscoverInfo,
         mqttVars
<1>5. PolledInstanceExists'
  BY <1>2, InstanceKept DEF IndInv, DiscoverInfo
<1> QED BY <1>3, <1>4, <1>5 DEF IndInv

\* A query loses at most one datagram, and only within the bound.
LEMMA QueryLoss ==
  ASSUME TypeOK, Answered \/ Lost \/ (~Exists /\ UNCHANGED lost)
  PROVE  lost' \in 0..MaxLost /\ lost' \in Nat /\ lost <= lost'
<1>1. lost \in Nat /\ MaxLost \in Nat /\ lost <= MaxLost
  BY LostType DEF TypeOK
<1>2. lost' = lost \/ (lost < MaxLost /\ lost' = lost + 1)
  BY DEF Answered, Lost
<1> QED BY <1>1, <1>2

\* The polled metrics are narrowed while nothing is published.
LEMMA DiscoverReadableInv == IndInv /\ DiscoverReadable => IndInv'
<1> SUFFICES ASSUME IndInv, DiscoverReadable PROVE IndInv'
  OBVIOUS
<1>1. active' \subseteq SpecEPCs
  BY DEF DiscoverReadable, FilterMetrics
<1>2. lost' \in 0..MaxLost /\ lost' \in Nat /\ lost <= lost'
  BY QueryLoss DEF IndInv, DiscoverReadable
<1>3. metrics = {} /\ raw = {} /\ published = <<>>
  BY DEF IndInv, TypeOK, QuietUntilScraping, DiscoverReadable
<1>4. TypeOK'
  BY <1>1, <1>2, <1>3 DEF IndInv, TypeOK, DiscoverReadable, cacheVars, mqttVars, boundVars
<1>5. QuietUntilScraping' /\ MapsAreTheDevices' /\ ControlsAreSettable'
  BY <1>3 DEF IndInv, QuietUntilScraping, MapsAreTheDevices, ControlsAreSettable,
              DiscoverReadable, cacheVars, mqttVars
<1>6. PolledInstanceExists'
  BY <1>2, InstanceKept DEF IndInv, DiscoverReadable
<1> QED BY <1>4, <1>5, <1>6 DEF IndInv

\* The writable map that is stored is the one of the device.
LEMMA DiscoverWritableInv == IndInv /\ DiscoverWritable => IndInv'
<1> SUFFICES ASSUME IndInv, DiscoverWritable PROVE IndInv'
  OBVIOUS
<1>1. writable' \in Maps /\ writable' \in {NoMap, node.settable}
  BY MapIsRead DEF IndInv, TypeOK, MapsAreTheDevices, DiscoverWritable
<1>2. lost' \in 0..MaxLost /\ lost' \in Nat /\ lost <= lost'
  BY QueryLoss DEF IndInv, DiscoverWritable
<1>3. metrics = {} /\ queued = NoState /\ published = <<>>
  BY DEF IndInv, QuietUntilScraping, DiscoverWritable
<1>4. TypeOK'
  BY <1>1, <1>2 DEF IndInv, TypeOK, DiscoverWritable, mqttVars, boundVars
<1>5. QuietUntilScraping' /\ MapsAreTheDevices' /\ ControlsAreSettable'
  BY <1>1, <1>3 DEF QuietUntilScraping, MapsAreTheDevices, ControlsAreSettable,
                    DiscoverWritable, mqttVars
<1>6. PolledInstanceExists'
  BY <1>2, InstanceKept DEF IndInv, DiscoverWritable
<1> QED BY <1>4, <1>5, <1>6 DEF IndInv

-----------------------------------------------------------------------------
(* The cache                                                               *)

\* ParsePropsToMetrics stores values of the metrics it is given.
LEMMA StoreTypes ==
  ASSUME TypeOK, NEW epcs \in SUBSET active, NEW got, StoreMetrics(epcs, got)
  PROVE  raw' \subseteq metrics' /\ metrics' \subseteq active
<1> DEFINE out == {e \in epcs \cap got :
                     Parses(node.data[e], MetricSpec(e).size, MetricSpec(e).invalid)}
<1>1. metrics' = metrics \cup out /\ raw' = (raw \ out) \cup Unscaled(out, got)
  BY DEF StoreMetrics
<1>2. out \subseteq active
  OBVIOUS
<1>3. Unscaled(out, got) \subseteq out
  BY DEF Unscaled
<1> HIDE DEF out
<1> QED BY <1>1, <1>2, <1>3 DEF TypeOK

\* The state that is handed to the publisher is a snapshot of the cache.
LEMMA EnqueueTypes ==
  ASSUME NEW ok \in BOOLEAN, Enqueue(ok), info' \in Infos, writable' \in Maps,
         metrics' \subseteq SpecEPCs, writable' \in {NoMap, node.settable}
  PROVE  /\ queued' \in [ok : BOOLEAN, info : Infos, writable : Maps, metrics : SUBSET SpecEPCs]
         /\ queued'.writable \in {NoMap, node.settable}
BY DEF Enqueue

\* The steps of the scrapers, of notifications and of the reconciler: they leave the
\* device, the discovery and the broker alone and keep the cache in order.
LEMMA CacheStepInv ==
  ASSUME IndInv, pc = "scraping", UNCHANGED <<node, discVars, mqttVars, restarts>>,
         lost' \in 0..MaxLost, lost <= lost', pushes' \in 0..MaxPushes,
         info' \in Infos, writable' \in Maps, writable' \in {NoMap, node.settable},
         raw' \subseteq metrics', metrics' \subseteq active, pushed' \subseteq Polled,
         UNCHANGED queued \/ \E ok \in BOOLEAN : Enqueue(ok)
  PROVE  IndInv'
<1>1. metrics' \subseteq SpecEPCs
  BY DEF IndInv, TypeOK
<1>2. /\ queued' \in {NoState} \cup [ok : BOOLEAN, info : Infos, writable : Maps,
                                     metrics : SUBSET SpecEPCs]
      /\ queued' # NoState => queued'.writable \in {NoMap, node.settable}
  <2>1. CASE UNCHANGED queued
    BY <2>1 DEF IndInv, TypeOK, MapsAreTheDevices
  <2>2. CASE \E ok \in BOOLEAN : Enqueue(ok)
    BY <1>1, <2>2, EnqueueTypes
  <2> QED BY <2>1, <2>2
<1>3. TypeOK'
  BY <1>2 DEF IndInv, TypeOK, discVars, mqttVars
<1>4. QuietUntilScraping' /\ MapsAreTheDevices' /\ ControlsAreSettable'
  BY <1>2 DEF IndInv, QuietUntilScraping, MapsAreTheDevices, ControlsAreSettable,
              discVars, mqttVars
<1>5. PolledInstanceExists'
  <2>1. lost' \in Nat /\ pc # "eoj"
    BY EntitiesAssumption
  <2> QED BY <2>1, InstanceKept DEF IndInv, discVars
<1> QED BY <1>3, <1>4, <1>5 DEF IndInv

\* A scrape stores values of polled metrics only.
LEMMA ScrapeInv == ASSUME IndInv, NEW iv \in Intervals, Scrape(iv) PROVE IndInv'
<1> DEFINE group == GroupOf(iv)
<1>1. PICK fresh \in SUBSET (pushed \cap group) :
        \E l \in Loop(group, fresh) : \E dropped \in {NoRequest} \cup Requests(l.ask) :
          ScrapeOnce(group, l, dropped)
  BY Zenon DEF Scrape
<1>2. PICK l \in Loop(group, fresh) : \E dropped \in {NoRequest} \cup Requests(l.ask) :
          ScrapeOnce(group, l, dropped)
  BY Zenon, <1>1
<1>3. PICK dropped \in {NoRequest} \cup Requests(l.ask) : ScrapeOnce(group, l, dropped)
  BY Zenon, <1>2
<1>4. PICK r \in {GetAt(l.ask, dropped)} :
        /\ IF r = Err THEN UNCHANGED <<metrics, raw>> ELSE StoreMetrics(group \ l.skipped, r)
        /\ Enqueue(r # Err)
  BY Zenon, <1>3 DEF ScrapeOnce
<1>5. /\ pc = "scraping" /\ UNCHANGED <<node, discVars, info, writable, pushed, mqttVars, boundVars>>
      /\ lost' = lost + (IF dropped = NoRequest THEN 0 ELSE 1) /\ lost' <= MaxLost
  BY Zenon, <1>3 DEF ScrapeOnce
<1>6. group \ l.skipped \in SUBSET active
  BY DEF GroupOf
<1>7. raw' \subseteq metrics' /\ metrics' \subseteq active
  <2>1. CASE r = Err
    BY <1>4, <2>1 DEF IndInv, TypeOK
  <2>2. CASE r # Err
    BY <1>4, <1>6, <2>2, StoreTypes DEF IndInv
  <2> QED BY <2>1, <2>2
<1>8. lost' \in 0..MaxLost /\ lost <= lost'
  BY <1>5, LostType DEF IndInv
<1>9. \E ok \in BOOLEAN : Enqueue(ok)
  BY Zenon, <1>4
<1>10. /\ pushes' \in 0..MaxPushes /\ restarts' = restarts /\ info' \in Infos
       /\ writable' \in Maps /\ writable' \in {NoMap, node.settable} /\ pushed' \subseteq Polled
  BY <1>5 DEF IndInv, TypeOK, MapsAreTheDevices, boundVars
<1> QED BY <1>5, <1>7, <1>8, <1>9, <1>10, CacheStepInv

\* So does a notification.
LEMMA PushInv ==
  ASSUME IndInv, NEW ps \in SUBSET (DOMAIN node.data \cap Polled), Push(ps) PROVE IndInv'
<1>1. raw' \subseteq metrics' /\ metrics' \subseteq active
  <2>1. StoreMetrics(active \cap ps, ps)
    BY DEF Push
  <2> QED BY <2>1, StoreTypes DEF IndInv
<1>2. /\ pc = "scraping" /\ UNCHANGED <<node, discVars, mqttVars, restarts, lost, info, writable>>
      /\ pushes' = pushes + 1 /\ pushes < MaxPushes /\ pushed' = pushed \cup ps
  BY DEF Push
<1>3. pushes' \in 0..MaxPushes /\ lost' \in 0..MaxLost /\ lost <= lost'
  <2>1. pushes \in 0..MaxPushes /\ MaxPushes \in Nat /\ lost \in 0..MaxLost /\ MaxLost \in Nat
    BY EntitiesAssumption DEF IndInv, TypeOK
  <2> QED BY <1>2, <2>1
<1>4. /\ info' \in Infos /\ writable' \in Maps /\ writable' \in {NoMap, node.settable}
      /\ pushed' \subseteq Polled
  BY <1>2 DEF IndInv, TypeOK, MapsAreTheDevices
<1>5. UNCHANGED queued \/ \E ok \in BOOLEAN : Enqueue(ok)
  BY Zenon DEF Push
<1> QED BY <1>1, <1>2, <1>3, <1>4, <1>5, CacheStepInv

\* The reconciler stores the identity and the map of the device.
LEMMA HealInv == ASSUME IndInv, Heal PROVE IndInv'
<1>1. PICK noMap \in (IF writable = NoMap THEN {0, 1} ELSE {0}),
           r \in (IF Known(info) THEN {<<info, 0>>} ELSE Identities) :
        /\ lost' = lost + noMap + r[2] /\ lost' <= MaxLost
        /\ writable' = IF writable = NoMap /\ noMap = 0 THEN MapOf(SETMAP) ELSE writable
        /\ info' = IF Known(r[1]) THEN r[1] ELSE info
  BY Zenon DEF Heal
<1>2. r[1] \in Infos /\ r[2] \in Nat
  BY <1>1, IdentityTypes DEF IndInv, TypeOK
<1>3. /\ lost' \in 0..MaxLost /\ lost <= lost'
      /\ writable' \in Maps /\ writable' \in {NoMap, node.settable} /\ info' \in Infos
  <2>1. noMap \in {0, 1}
    OBVIOUS
  <2>2. /\ MapOf(SETMAP) \in Maps /\ MapOf(SETMAP) \in {NoMap, node.settable}
        /\ writable \in Maps /\ writable \in {NoMap, node.settable} /\ info \in Infos
    BY MapIsRead DEF IndInv, TypeOK, MapsAreTheDevices
  <2>3. lost' \in 0..MaxLost /\ lost <= lost'
    BY <1>1, <1>2, <2>1, LostType DEF IndInv
  <2>4. writable' \in Maps /\ writable' \in {NoMap, node.settable}
    BY <1>1, <2>2
  <2>5. info' \in Infos
    BY <1>1, <1>2, <2>2
  <2> QED BY <2>3, <2>4, <2>5
<1>4. /\ pc = "scraping"
      /\ UNCHANGED <<node, discVars, mqttVars, boundVars, metrics, raw, pushed>>
      /\ UNCHANGED queued \/ \E ok \in BOOLEAN : Enqueue(ok)
  BY Zenon DEF Heal
<1>5. /\ raw' \subseteq metrics' /\ metrics' \subseteq active /\ pushed' \subseteq Polled
      /\ pushes' \in 0..MaxPushes /\ restarts' = restarts
  BY <1>4 DEF IndInv, TypeOK, boundVars
<1> QED BY <1>3, <1>4, <1>5, CacheStepInv

\* A refresh reads the identity only.
LEMMA RefreshInv == ASSUME IndInv, Refresh PROVE IndInv'
<1>1. PICK r \in Identities : info' = r[1] /\ lost' = lost + r[2]
  BY DEF Refresh
<1>2. info' \in Infos /\ lost' \in 0..MaxLost /\ lost <= lost'
  <2>1. r[1] \in Infos /\ r[2] \in Nat /\ lost + r[2] \in 0..MaxLost
    BY IdentityTypes DEF IndInv
  <2>2. lost \in Nat
    BY LostType DEF IndInv
  <2> QED BY <1>1, <2>1, <2>2
<1>3. /\ pc = "scraping"
      /\ UNCHANGED <<node, discVars, mqttVars, boundVars, writable, metrics, raw, pushed, queued>>
  BY DEF Refresh
<1>4. /\ raw' \subseteq metrics' /\ metrics' \subseteq active /\ pushed' \subseteq Polled
      /\ pushes' \in 0..MaxPushes /\ restarts' = restarts
      /\ writable' \in Maps /\ writable' \in {NoMap, node.settable}
  BY <1>3 DEF IndInv, TypeOK, MapsAreTheDevices, boundVars
<1> QED BY <1>2, <1>3, <1>4, CacheStepInv

-----------------------------------------------------------------------------
(* The publisher                                                           *)

\* ensureDiscovery of a state with a map of the device itself: what it leaves at
\* the broker, with what earlier runs left there, are controls of the device.
LEMMA EnsureDiscoveryInv ==
  ASSUME TypeOK, ControlsAreSettable, NEW s, EnsureDiscovery(s), UNCHANGED <<node, active>>,
         s.info \in Infos, s.writable \in Maps, s.writable \in {NoMap, node.settable}
  PROVE  /\ published' \in {<<>>} \cup (Infos \X Int)
         /\ broker' \in [sensors : SUBSET SpecEPCs, controls : SUBSET SpecEPCs,
                         composite : BOOLEAN, info : Infos, map : Maps]
         /\ ControlsAreSettable'
<1>1. CASE UNCHANGED mqttVars
  BY <1>1 DEF mqttVars, TypeOK, ControlsAreSettable
<1>2. CASE ~UNCHANGED mqttVars
  <2> DEFINE b == Wipe(broker)
  <2>1. /\ broker' = [sensors   |-> b.sensors \cup active,
                      controls  |-> b.controls \cup Controls(s),
                      composite |-> HasComposite,
                      info |-> s.info, map |-> s.writable]
        /\ published' = InfoKey(s)
    BY <1>2 DEF EnsureDiscovery
  <2>2. b.sensors = broker.sensors \ active /\ b.controls = broker.controls \ active
    BY DEF TypeOK, Wipe
  <2>3. Controls(s) \subseteq active /\ Controls(s) \subseteq s.writable
    BY DEF Controls
  <2>4. Controls(s) \subseteq node.settable
    BY <2>3, EPCTypes DEF TypeOK, NoMap
  <2> HIDE DEF b
  <2>5. published' \in {<<>>} \cup (Infos \X Int)
    BY <2>1, KeyType
  <2>6. broker' \in [sensors : SUBSET SpecEPCs, controls : SUBSET SpecEPCs,
                     composite : BOOLEAN, info : Infos, map : Maps]
    BY <2>1, <2>2, <2>3, EntitiesAssumption DEF TypeOK
  <2>7. broker'.controls \cap active' \subseteq node'.settable
    BY <2>1, <2>2, <2>4
  <2> QED BY <2>5, <2>6, <2>7 DEF ControlsAreSettable
<1> QED BY <1>1, <1>2

\* The state that waits is published, after ensureDiscovery with its wipe.
LEMMA PublishInv == ASSUME IndInv, Publish PROVE IndInv'
<1>1. /\ queued # NoState /\ queued' = NoState
      /\ UNCHANGED <<node, discVars, cacheVars, lost, boundVars>>
      /\ EnsureDiscovery(queued) \/ UNCHANGED mqttVars
  BY DEF Publish
<1>2. /\ queued.info \in Infos /\ queued.writable \in Maps
      /\ queued.writable \in {NoMap, node.settable} /\ pc = "scraping"
  BY <1>1 DEF IndInv, TypeOK, MapsAreTheDevices, QuietUntilScraping
<1>3. /\ published' \in {<<>>} \cup (Infos \X Int)
      /\ broker' \in [sensors : SUBSET SpecEPCs, controls : SUBSET SpecEPCs,
                      composite : BOOLEAN, info : Infos, map : Maps]
      /\ ControlsAreSettable'
  <2>1. CASE EnsureDiscovery(queued)
    BY <1>1, <1>2, <2>1, EnsureDiscoveryInv DEF IndInv, discVars
  <2>2. CASE UNCHANGED mqttVars
    BY <1>1, <2>2 DEF mqttVars, discVars, IndInv, TypeOK, ControlsAreSettable
  <2> QED BY <1>1, <2>1, <2>2
<1>4. TypeOK'
  BY <1>1, <1>3 DEF IndInv, TypeOK, discVars, cacheVars, boundVars
<1>5. QuietUntilScraping' /\ MapsAreTheDevices'
  BY <1>1, <1>2 DEF IndInv, QuietUntilScraping, MapsAreTheDevices, discVars, cacheVars
<1>6. PolledInstanceExists'
  BY <1>1 DEF IndInv, PolledInstanceExists, Exists, discVars
<1> QED BY <1>3, <1>4, <1>5, <1>6 DEF IndInv

\* A restart forgets everything but the messages at the broker.
LEMMA RestartInv == ASSUME IndInv, Restart PROVE IndInv'
<1>1. TypeOK'
  <2>1. restarts' \in 0..MaxRestarts
    BY EntitiesAssumption DEF IndInv, TypeOK, Restart
  <2>2. SameClass(eoj', Configured) /\ eoj' \in EOJs
    BY EntitiesAssumption DEF Restart, SameClass
  <2> QED BY <2>1, <2>2 DEF IndInv, TypeOK, Restart, Infos, Maps
<1>2. QuietUntilScraping' /\ MapsAreTheDevices' /\ PolledInstanceExists' /\ ControlsAreSettable'
  BY DEF QuietUntilScraping, MapsAreTheDevices, PolledInstanceExists, ControlsAreSettable,
         Restart
<1> QED BY <1>1, <1>2 DEF IndInv

\* A stuttering step.
LEMMA StutterInv == ASSUME IndInv, UNCHANGED vars PROVE IndInv'
BY DEF IndInv, TypeOK, QuietUntilScraping, MapsAreTheDevices, PolledInstanceExists,
       ControlsAreSettable, Exists, vars, discVars, cacheVars, mqttVars, boundVars

\* Every step keeps the invariant.
LEMMA NextInv == IndInv /\ [Next]_vars => IndInv'
<1> SUFFICES ASSUME IndInv, [Next]_vars PROVE IndInv'
  OBVIOUS
<1>1. CASE Discover
  BY <1>1, DiscoverEOJInv, DiscoverInfoInv, DiscoverReadableInv, DiscoverWritableInv
     DEF Discover
<1>2. CASE Heal
  BY <1>2, HealInv
<1>3. CASE Refresh
  BY <1>3, RefreshInv
<1>4. CASE Publish
  BY <1>4, PublishInv
<1>5. CASE Restart
  BY <1>5, RestartInv
<1>6. CASE \E iv \in Intervals : Scrape(iv)
  BY <1>6, ScrapeInv
<1>7. CASE \E ps \in SUBSET (DOMAIN node.data \cap Polled) :
             ps # {} /\ Cardinality(ps) <= MaxProps /\ Push(ps)
  BY <1>7, PushInv
<1>8. CASE UNCHANGED vars
  BY <1>8, StutterInv
<1> QED BY <1>1, <1>2, <1>3, <1>4, <1>5, <1>6, <1>7, <1>8 DEF Next

-----------------------------------------------------------------------------
(* The loop of scrapeOnce                                                  *)

EPCs == Bytes \ {0}
Asks == [ask : Seq(EPCs), skipped : SUBSET EPCs]

\* No EPC is asked for twice.
Distinct(l) == IsFiniteSet(ToSet(l.ask)) /\ Cardinality(ToSet(l.ask)) = Len(l.ask)

\* The elements of a list that grew.
LEMMA AppendToSet ==
  ASSUME NEW S, NEW s \in Seq(S), NEW e \in S
  PROVE  /\ Append(s, e) \in Seq(S) /\ Len(Append(s, e)) = Len(s) + 1
         /\ ToSet(Append(s, e)) = ToSet(s) \cup {e}
<1> DEFINE t == Append(s, e)
<1>1. t \in Seq(S) /\ Len(t) = Len(s) + 1 /\ Len(s) \in Nat
  OBVIOUS
<1>2. t[Len(s) + 1] = e /\ \A i \in 1..Len(s) : t[i] = s[i]
  OBVIOUS
<1>3. DOMAIN t = 1..(Len(s) + 1) /\ DOMAIN s = 1..Len(s)
  OBVIOUS
<1> HIDE DEF t
<1>4. 1..(Len(s) + 1) = (1..Len(s)) \cup {Len(s) + 1}
  BY <1>1
<1>5. ToSet(t) = ToSet(s) \cup {e}
  BY <1>2, <1>3, <1>4 DEF ToSet
<1> QED BY <1>1, <1>5 DEF t

\* The batch gets an EPC at most once.
LEMMA AddEPCFacts ==
  ASSUME NEW l \in Asks, Distinct(l), NEW e \in EPCs
  PROVE  /\ AddEPC(l, e) \in Asks /\ Distinct(AddEPC(l, e))
         /\ AddEPC(l, e).skipped = l.skipped
         /\ Seen(AddEPC(l, e)) = Seen(l) \cup {e}
<1>1. CASE e \in Seen(l)
  BY <1>1 DEF AddEPC
<1>2. CASE e \notin Seen(l)
  <2> DEFINE n == [l EXCEPT !.ask = Append(@, e)]
  <2>1. AddEPC(l, e) = n
    BY <1>2 DEF AddEPC
  <2>2. n.ask = Append(l.ask, e) /\ n.skipped = l.skipped
    BY DEF Asks
  <2>3. l.ask \in Seq(EPCs) /\ l.skipped \in SUBSET EPCs
    BY DEF Asks
  <2>4. /\ Append(l.ask, e) \in Seq(EPCs) /\ Len(Append(l.ask, e)) = Len(l.ask) + 1
        /\ ToSet(Append(l.ask, e)) = ToSet(l.ask) \cup {e}
    BY <2>3, AppendToSet
  <2>5. n \in Asks
    BY <2>4 DEF Asks
  <2> HIDE DEF n
  <2>6. Seen(n) = Seen(l) \cup {e}
    BY <2>2, <2>4 DEF Seen
  <2>7. Distinct(n)
    <3>1. e \notin ToSet(l.ask)
      BY <1>2 DEF Seen
    <3>2. /\ IsFiniteSet(ToSet(l.ask) \cup {e})
          /\ Cardinality(ToSet(l.ask) \cup {e}) = Cardinality(ToSet(l.ask)) + 1
      BY <3>1, FS_AddElement DEF Distinct
    <3> QED BY <2>2, <2>4, <3>2 DEF Distinct
  <2> QED BY <2>1, <2>2, <2>5, <2>6, <2>7
<1> QED BY <1>1, <1>2

\* A metric is asked for with its multiplier, or was pushed and is left out.
LEMMA AddMetricFacts ==
  ASSUME NEW l \in Asks, Distinct(l), NEW m \in Metrics, NEW fresh
  PROVE  /\ AddMetric(l, m, fresh) \in Asks /\ Distinct(AddMetric(l, m, fresh))
         /\ AddMetric(l, m, fresh).skipped \subseteq l.skipped \cup fresh
         /\ Seen(l) \cup {m.epc} \subseteq Seen(AddMetric(l, m, fresh))
<1>1. m.epc \in EPCs /\ (m.multiplier # 0 => m.multiplier \in EPCs)
  BY SpecsAssumption DEF EPCs
<1>2. CASE m.epc \in fresh \ Seen(l)
  <2> DEFINE n == [l EXCEPT !.skipped = @ \cup {m.epc}]
  <2>1. AddMetric(l, m, fresh) = n
    BY <1>2 DEF AddMetric
  <2>2. n.ask = l.ask /\ n.skipped = l.skipped \cup {m.epc} /\ n \in Asks
    BY <1>1 DEF Asks
  <2> HIDE DEF n
  <2> QED BY <1>2, <2>1, <2>2 DEF Distinct, Seen
<1> DEFINE a == AddEPC(l, m.epc)
           b == AddEPC(a, m.multiplier)
<1>3. a \in Asks /\ Distinct(a) /\ a.skipped = l.skipped /\ Seen(a) = Seen(l) \cup {m.epc}
  BY <1>1, AddEPCFacts
<1> HIDE DEF a
<1>4. CASE m.epc \notin fresh \ Seen(l) /\ m.multiplier = 0
  <2>1. AddMetric(l, m, fresh) = a
    BY <1>4 DEF AddMetric, a
  <2> QED BY <1>3, <2>1
<1>5. CASE m.epc \notin fresh \ Seen(l) /\ m.multiplier # 0
  <2>1. AddMetric(l, m, fresh) = b
    BY <1>5 DEF AddMetric, a
  <2>2. /\ b \in Asks /\ Distinct(b) /\ b.skipped = a.skipped
        /\ Seen(b) = Seen(a) \cup {m.multiplier}
    BY <1>1, <1>3, <1>5, AddEPCFacts
  <2> HIDE DEF b
  <2> QED BY <1>3, <2>1, <2>2
<1> QED BY <1>2, <1>4, <1>5

\* at[i] is the set of one with the state of the loop after i metrics.
Loops(at, group, fresh) ==
  \A i \in 0..Len(Specs) :
    at[i] = IF i = 0 THEN {[ask |-> <<>>, skipped |-> {}]}
            ELSE IF Specs[i].epc \notin group THEN at[i - 1]
            ELSE {AddMetric(l, Specs[i], fresh) : l \in at[i - 1]}

\* The recursion of Loop, without the choice of a function.
LEMMA LoopUnfolds ==
  ASSUME NEW group, NEW fresh
  PROVE  \E at : Loop(group, fresh) = at[Len(Specs)] /\ Loops(at, group, fresh)
<1> DEFINE N == Len(Specs)
           V == SUBSET {l \in Asks : Distinct(l)}
           v0 == {[ask |-> <<>>, skipped |-> {}]}
           F(i, v) == IF Specs[i].epc \notin group THEN v
                      ELSE {AddMetric(l, Specs[i], fresh) : l \in v}
           Is(g) == g = [i \in 0..N |-> IF i = 0 THEN v0 ELSE F(i, g[i - 1])]
<1>0. N \in Nat
  BY SpecsAssumption
<1>1. \E g : Is(g)
  <2> DEFINE step == [i \in 1..N |-> [v \in V |-> F(i, v)]]
  <2>1. v0 \in V
    <3> DEFINE l0 == [ask |-> <<>>, skipped |-> {}]
    <3>1. l0 \in Asks
      BY DEF Asks
    <3>2. ToSet(l0.ask) = {} /\ Len(l0.ask) = 0
      BY DEF ToSet
    <3>3. Distinct(l0)
      BY <3>2, FS_EmptySet DEF Distinct
    <3> QED BY <3>1, <3>3
  <2>2. ASSUME NEW i \in 1..N, NEW v \in V PROVE F(i, v) \in V
    <3>1. Specs[i] \in Metrics
      BY SpecsAssumption
    <3>2. ASSUME NEW l \in v PROVE AddMetric(l, Specs[i], fresh) \in {x \in Asks : Distinct(x)}
      BY <3>1, <3>2, AddMetricFacts
    <3> QED BY <3>2
  <2> HIDE DEF N, V, v0, F
  <2>3. step \in [1..N -> [V -> V]]
    BY <2>2
  <2>4. PICK g : g \in Recursion(N, V, v0, step)
    <3> HIDE DEF step
    <3> QED BY <1>0, <2>1, <2>3, FiniteRecursion
  <2>5. g \in [0..N -> V] /\ g[0] = v0 /\ \A i \in 1..N : g[i] = step[i][g[i - 1]]
    <3> HIDE DEF step
    <3> QED BY <2>4 DEF Recursion
  <2>6. ASSUME NEW i \in 0..N PROVE g[i] = IF i = 0 THEN v0 ELSE F(i, g[i - 1])
    <3>1. CASE i = 0
      BY <2>5, <3>1
    <3>2. CASE i # 0
      <4>1. i \in 1..N /\ i - 1 \in 0..N
        BY <1>0, <3>2
      <4>2. g[i - 1] \in V
        BY <2>5, <4>1
      <4> QED BY <2>5, <3>2, <4>1, <4>2
    <3> QED BY <3>1, <3>2
  <2>7. g = [i \in 0..N |-> IF i = 0 THEN v0 ELSE F(i, g[i - 1])]
    BY <2>5, <2>6
  <2> QED BY <2>7
<1>2. Loop(group, fresh) = (CHOOSE g : Is(g))[N]
  BY Zenon DEF Loop
<1> DEFINE at == CHOOSE g : Is(g)
<1>3. Is(at)
  <2> HIDE DEF Is
  <2> QED BY <1>1
<1>4. at = [i \in 0..N |-> IF i = 0 THEN v0 ELSE F(i, at[i - 1])]
  BY <1>3
<1>5. Loop(group, fresh) = at[N]
  BY <1>2
<1> HIDE DEF at
<1>6. ASSUME NEW i \in 0..N PROVE at[i] = IF i = 0 THEN v0 ELSE F(i, at[i - 1])
  <2> HIDE DEF N, v0, F
  <2> QED BY Zenon, <1>4
<1> WITNESS at
<1> HIDE DEF Is, V
<1> QED BY Zenon, <1>5, <1>6 DEF Loops

\* What scrapeOnce asks for: no EPC twice, and every metric of the group that is not
\* left out.
LEMMA LoopFacts ==
  ASSUME NEW group, NEW fresh, NEW l \in Loop(group, fresh)
  PROVE  /\ l \in Asks /\ Distinct(l) /\ l.skipped \subseteq fresh
         /\ \A m \in Metrics : m.epc \in group => m.epc \in Seen(l)
<1> DEFINE N == Len(Specs)
           Has(x, i) == \A j \in 1..i : Specs[j].epc \in group => Specs[j].epc \in Seen(x)
           Good(x, i) == x \in Asks /\ Distinct(x) /\ x.skipped \subseteq fresh /\ Has(x, i)
<1>0. N \in Nat /\ \A j \in 1..N : Specs[j] \in Metrics
  BY SpecsAssumption
<1>1. PICK at : Loop(group, fresh) = at[N] /\ Loops(at, group, fresh)
  BY Zenon, LoopUnfolds
<1> DEFINE S == {i \in 0..N : \A x \in at[i] : Good(x, i)}
<1>2. 0 \in S
  <2> DEFINE l0 == [ask |-> <<>>, skipped |-> {}]
  <2>0. 0 \in 0..N
    BY <1>0
  <2>1. at[0] = {l0}
    BY Zenon, <1>1, <2>0 DEF Loops
  <2>2. l0 \in Asks /\ l0.skipped = {}
    BY DEF Asks
  <2>3. ToSet(l0.ask) = {} /\ Len(l0.ask) = 0
    BY DEF ToSet
  <2>4. Distinct(l0)
    BY <2>3, FS_EmptySet DEF Distinct
  <2>5. Has(l0, 0)
    OBVIOUS
  <2> HIDE DEF l0, Has
  <2> QED BY <2>0, <2>1, <2>2, <2>4, <2>5
<1>3. ASSUME NEW i \in 1..N, i - 1 \in S PROVE i \in S
  <2>1. i \in 0..N /\ i # 0 /\ i - 1 \in Nat
    BY <1>0
  <2>2. at[i] = IF Specs[i].epc \notin group THEN at[i - 1]
                ELSE {AddMetric(x, Specs[i], fresh) : x \in at[i - 1]}
    BY <1>1, <2>1 DEF Loops
  <2>3. \A j \in 1..i : j = i \/ j \in 1..(i - 1)
    BY <2>1
  <2>4. CASE Specs[i].epc \notin group
    <3>1. at[i] = at[i - 1]
      BY <2>2, <2>4
    <3>2. ASSUME NEW x \in at[i] PROVE Good(x, i)
      <4>1. Good(x, i - 1)
        BY <1>3, <3>1, <3>2
      <4> QED BY <2>3, <2>4, <4>1
    <3> HIDE DEF Good
    <3> QED BY <2>1, <3>2
  <2>5. CASE Specs[i].epc \in group
    <3>1. at[i] = {AddMetric(x, Specs[i], fresh) : x \in at[i - 1]}
      BY <2>2, <2>5
    <3>2. ASSUME NEW x \in at[i - 1] PROVE Good(AddMetric(x, Specs[i], fresh), i)
      <4> DEFINE y == AddMetric(x, Specs[i], fresh)
      <4>1. Good(x, i - 1)
        BY <1>3, <3>2
      <4>2. /\ y \in Asks /\ Distinct(y) /\ y.skipped \subseteq x.skipped \cup fresh
            /\ Seen(x) \cup {Specs[i].epc} \subseteq Seen(y)
        BY <1>0, <4>1, AddMetricFacts
      <4> HIDE DEF y
      <4>3. Has(y, i)
        BY <2>3, <4>1, <4>2
      <4>4. Good(y, i)
        <5> HIDE DEF Has
        <5> QED BY <4>1, <4>2, <4>3
      <4> QED BY <4>4 DEF y
    <3> HIDE DEF Good
    <3> QED BY <2>1, <3>1, <3>2
  <2> QED BY <2>4, <2>5
<1>4. Good(l, N)
  <2>1. 0..N \subseteq S
    <3> HIDE DEF S, N
    <3> QED BY <1>0, <1>2, <1>3, InductionUpTo
  <2> HIDE DEF Good
  <2> QED BY <1>0, <1>1, <2>1
<1>5. ASSUME NEW m \in Metrics, m.epc \in group PROVE m.epc \in Seen(l)
  <2>1. PICK j \in 1..N : m = Specs[j]
    BY SpecsAssumption DEF Metrics, ToSet
  <2> QED BY <1>4, <1>5, <2>1
<1> QED BY <1>4, <1>5

\* A batch of some metrics is one a frame holds.
LEMMA BatchFacts ==
  ASSUME NEW epcs \in SUBSET SpecEPCs, epcs # {}, NEW q \in Batches(epcs)
  PROVE  q \in Seq(Bytes) /\ Len(q) \in 1..256
<1>1. PICK l \in Loop(epcs, {}) : q = l.ask
  BY DEF Batches
<1>2. /\ l \in Asks /\ Distinct(l) /\ l.skipped \subseteq {}
      /\ \A m \in Metrics : m.epc \in epcs => m.epc \in Seen(l)
  BY LoopFacts
<1>3. q \in Seq(EPCs) /\ Len(q) \in Nat
  BY <1>1, <1>2 DEF Asks
<1>4. q \in Seq(Bytes)
  BY <1>3 DEF EPCs
<1>5. ToSet(q) # {}
  <2>1. PICK m \in Metrics : m.epc \in epcs
    BY DEF SpecEPCs
  <2> QED BY <1>1, <1>2, <2>1 DEF Seen
<1>6. Len(q) # 0
  <2>1. IsFiniteSet(ToSet(q)) /\ Cardinality(ToSet(q)) = Len(q)
    BY <1>1, <1>2 DEF Distinct
  <2> QED BY <1>5, <2>1, FS_EmptySet
<1>7. Len(q) <= 256
  <2>1. IsFiniteSet(Bytes) /\ Cardinality(Bytes) = 256
    <3> DEFINE low  == 0
               high == 255
    <3>1. low \in Int /\ high \in Int /\ low <= high /\ high - low + 1 = 256
      OBVIOUS
    <3> HIDE DEF low, high
    <3>2. IsFiniteSet(low..high) /\ Cardinality(low..high) = 256
      BY <3>1, IntervalIsFinite
    <3> QED BY <3>2 DEF low, high, Bytes
  <2>2. ToSet(q) \in SUBSET Bytes
    BY <1>4 DEF ToSet
  <2>3. Cardinality(ToSet(q)) <= Cardinality(Bytes)
    BY <2>1, <2>2, FS_Subset
  <2> QED BY <1>1, <1>2, <2>1, <2>3 DEF Distinct
<1>8. \A n \in Nat : n # 0 /\ n <= 256 => n \in 1..256
  OBVIOUS
<1> QED BY <1>3, <1>4, <1>6, <1>7, <1>8

\* The batches of scrapeOnce are short enough for AdaptiveGetIsRight.
LEMMA AdaptiveGetIsCompleteInv == TypeOK => AdaptiveGetIsComplete
<1> SUFFICES ASSUME TypeOK, NEW epcs \in (SUBSET SpecEPCs) \ {{}}, NEW q \in Batches(epcs)
             PROVE  /\ GetsAllBut({}, node, q, NoRequest)
                    /\ \A d \in Requests(q) : GetsAllBut(EPCsOf(q, d[1], d[2]), node, q, d)
  BY DEF AdaptiveGetIsComplete
<1>1. node.limit \in Nat \ {0}
  BY NodesAssumption DEF TypeOK
<1>2. q \in Seq(Bytes) /\ Len(q) \in 1..256
  BY BatchFacts
<1>3. \A d : GetsAllBut(IF d \in Requests(q) THEN EPCsOf(q, d[1], d[2]) ELSE {}, node, q, d)
  BY Zenon, <1>1, <1>2, AdaptiveGetIsRight
<1>4. NoRequest \notin Requests(q)
  BY DEF NoRequest, Requests
<1> QED BY <1>3, <1>4

-----------------------------------------------------------------------------
(* Values                                                                  *)

\* Clamp is the nearest value, and enumValueFits says which values it keeps.
LEMMA ClampIsNearest ==
  ASSUME NEW size \in {1, 2, 4}, NEW signed \in BOOLEAN, NEW v \in Int
  PROVE  ReadsBack(v, size, signed)
<1> DEFINE h == Half(size)
           low == Lowest(size, signed)
           high == Highest(size, signed)
           back == Clamp(v, size, signed)
<1>1. Capacity(size) = 2 * h /\ h \in Nat /\ h > 0 /\ Capacity(size) \div 2 = h
  BY HalfOfCapacity
<1> HIDE DEF h
<1>2. low = (IF signed THEN -h ELSE 0) /\ high = low + 2 * h - 1
  BY <1>1, SMT DEF Lowest, Highest, Capacity
<1>3. back = IF v > high THEN high ELSE IF v < low THEN low ELSE v
  BY <1>1, <1>2, SMT DEF Clamp, Capacity
<1>4. EnumValueFits(v, size, signed) <=> low <= v /\ v <= high
  BY <1>1, <1>2, SMT DEF EnumValueFits, Capacity
<1>5. low \in Int /\ high \in Int /\ low <= high
  BY <1>1, <1>2, SMT
<1> HIDE DEF low, high, back
<1>6. back \in low..high
  BY <1>3, <1>5, SMT
<1>7. \A u \in low..high : Dist(v, back) <= Dist(v, u)
  BY <1>3, <1>5, SMT DEF Dist
<1>8. (low <= v /\ v <= high) <=> back = v
  BY <1>3, <1>5, SMT
<1>9. ParseInteger(EncodeValueToEDT(v, size, signed), signed) = back
  BY Zenon, SetIsReadBack DEF back
<1> QED BY Zenon, <1>4, <1>6, <1>7, <1>8, <1>9 DEF ReadsBack, low, high

-----------------------------------------------------------------------------
(* Enums                                                                   *)

\* The two labels v may be given.
LabelsOf(enum, v) == {Sanitized(enum, v), Suffixed(Sanitized(enum, v), v)}

\* The recursion of buildEnumMeta, without the choice of a function.
LEMMA LabelsUnfold ==
  ASSUME NEW enum, Keys(enum) \in Seq(DOMAIN enum)
  PROVE  \E used :
           /\ StateLabels(enum) =
                [i \in 1..Len(Keys(enum)) |-> StateLabel(enum, Keys(enum)[i], used[i - 1])]
           /\ \A i \in 1..Len(Keys(enum)) :
                used[i] = used[i - 1] \cup {StateLabel(enum, Keys(enum)[i], used[i - 1])}
<1> DEFINE keys == Keys(enum)
           n == Len(keys)
           F(i, u) == u \cup {StateLabel(enum, keys[i], u)}
           V == SUBSET UNION {LabelsOf(enum, v) : v \in DOMAIN enum}
           Is(g) == g = [i \in 0..n |-> IF i = 0 THEN {} ELSE F(i, g[i - 1])]
           step == [i \in 1..n |-> [u \in V |-> F(i, u)]]
<1>0. n \in Nat /\ keys \in [1..n -> DOMAIN enum]
  OBVIOUS
<1>1. \E g : Is(g)
  <2> HIDE DEF keys, n
  <2>1. ASSUME NEW i \in 1..n, NEW u \in V PROVE F(i, u) \in V
    <3>1. StateLabel(enum, keys[i], u) \in LabelsOf(enum, keys[i])
      BY Zenon DEF StateLabel, LabelsOf
    <3>2. keys[i] \in DOMAIN enum
      BY <1>0
    <3> QED BY <3>1, <3>2, Zenon
  <2>2. {} \in V
    OBVIOUS
  <2> HIDE DEF F, V
  <2>3. step \in [1..n -> [V -> V]]
    BY <2>1
  <2>4. PICK g : g \in Recursion(n, V, {}, step)
    <3> HIDE DEF step
    <3> QED BY <1>0, <2>2, <2>3, FiniteRecursion
  <2>5. g \in [0..n -> V] /\ g[0] = {} /\ \A i \in 1..n : g[i] = step[i][g[i - 1]]
    <3> HIDE DEF step
    <3> QED BY <2>4 DEF Recursion
  <2>6. ASSUME NEW i \in 0..n PROVE g[i] = IF i = 0 THEN {} ELSE F(i, g[i - 1])
    <3>1. CASE i = 0
      BY <2>5, <3>1
    <3>2. CASE i # 0
      <4>1. i \in 1..n /\ i - 1 \in 0..n
        BY <1>0, <3>2
      <4>2. g[i - 1] \in V
        BY <2>5, <4>1
      <4> QED BY <2>5, <3>2, <4>1, <4>2
    <3> QED BY <3>1, <3>2
  <2>7. g = [i \in 0..n |-> IF i = 0 THEN {} ELSE F(i, g[i - 1])]
    BY <2>5, <2>6
  <2> QED BY <2>7
<1> DEFINE used == CHOOSE g : Is(g)
<1>2. StateLabels(enum) = [i \in 1..n |-> StateLabel(enum, keys[i], used[i - 1])]
  BY Zenon DEF StateLabels
<1>3. Is(used)
  <2> HIDE DEF Is
  <2> QED BY <1>1
<1>4. used = [i \in 0..n |-> IF i = 0 THEN {} ELSE F(i, used[i - 1])]
  BY <1>3
<1> HIDE DEF used, n, keys
<1>5. ASSUME NEW i \in 1..n PROVE used[i] = F(i, used[i - 1])
  <2>1. i \in 0..n /\ i # 0
    BY <1>0
  <2> HIDE DEF F
  <2> QED BY <1>4, <2>1, Zenon
<1> WITNESS used
<1> HIDE DEF Is, step
<1> QED BY <1>2, <1>5, Zenon DEF keys, n

\* No two values of an enum that is not ambiguous have one label, and the label of a value
\* is its text, with or without the value.
LEMMA LabelsDiffer ==
  ASSUME NEW enum \in Enums
  PROVE  LET keys == Keys(enum)
             n == Cardinality(DOMAIN enum)
             labels == StateLabels(enum)
         IN /\ n \in Nat /\ keys \in [1..n -> DOMAIN enum] /\ DOMAIN labels = 1..n
            /\ \A v \in DOMAIN enum : \E i \in 1..n : keys[i] = v
            /\ \A i, j \in 1..n : keys[i] = keys[j] => i = j
            /\ \A i \in 1..n : labels[i] \in LabelsOf(enum, keys[i])
            /\ ~Ambiguous(enum) => \A i, j \in 1..n : labels[i] = labels[j] => i = j
<1> DEFINE keys == Keys(enum)
           n == Cardinality(DOMAIN enum)
           labels == StateLabels(enum)
<1>1. /\ n \in Nat /\ keys \in [1..n -> DOMAIN enum]
      /\ \A v \in DOMAIN enum : \E i \in 1..n : keys[i] = v
      /\ \A i, j \in 1..n : keys[i] = keys[j] => i = j
  <2>1. DOMAIN enum \subseteq Int /\ IsFiniteSet(DOMAIN enum)
    BY EntitiesAssumption
  <2> QED BY <2>1, AscendingFacts DEF Keys
<1>2. keys \in Seq(DOMAIN enum) /\ Len(keys) = n
  <2> HIDE DEF keys, n
  <2>1. keys \in Seq(DOMAIN enum)
    BY <1>1
  <2> QED BY <1>1, <2>1
<1>3. /\ DOMAIN labels = 1..n
      /\ \E used : \A i \in 1..n : /\ labels[i] = StateLabel(enum, keys[i], used[i - 1])
                                   /\ used[i] = used[i - 1] \cup {labels[i]}
  <2>1. PICK used :
          /\ labels = [i \in 1..Len(keys) |-> StateLabel(enum, keys[i], used[i - 1])]
          /\ \A i \in 1..Len(keys) :
               used[i] = used[i - 1] \cup {StateLabel(enum, keys[i], used[i - 1])}
    BY <1>2, LabelsUnfold, Zenon
  <2> HIDE DEF keys, n, labels
  <2>2. DOMAIN labels = 1..Len(keys)
        /\ \A i \in 1..Len(keys) : labels[i] = StateLabel(enum, keys[i], used[i - 1])
    BY <2>1, Zenon
  <2> QED BY <1>2, <2>1, <2>2, Zenon
<1> HIDE DEF keys, n, labels
<1>4. PICK used : \A i \in 1..n : /\ labels[i] = StateLabel(enum, keys[i], used[i - 1])
                                 /\ used[i] = used[i - 1] \cup {labels[i]}
  BY <1>3
<1>5. \A i \in 1..n : labels[i] \in LabelsOf(enum, keys[i])
  BY <1>4, Zenon DEF StateLabel, LabelsOf
<1>6. ASSUME NEW i \in 1..n, NEW j \in 1..n, i < j PROVE labels[i] \in used[j - 1]
  <2> DEFINE S == {d \in Nat : i + d \in 1..n => labels[i] \in used[i + d]}
  <2>1. 0 \in S
    BY <1>4
  <2>2. ASSUME NEW d \in 1..n, d - 1 \in S PROVE d \in S
    <3>1. CASE i + d \in 1..n
      <4>1. i + (d - 1) \in 1..n /\ (i + d) - 1 = i + (d - 1) /\ d \in Nat
        BY <1>1, <3>1
      <4>2. labels[i] \in used[i + (d - 1)]
        BY <2>2, <4>1
      <4>3. used[i + d] = used[(i + d) - 1] \cup {labels[i + d]}
        BY <1>4, <3>1
      <4> QED BY <4>1, <4>2, <4>3
    <3>2. CASE ~(i + d \in 1..n)
      BY <1>1, <3>2
    <3> QED BY <3>1, <3>2
  <2>3. 0..n \subseteq S
    <3> HIDE DEF S
    <3> QED BY <1>1, <2>1, <2>2, InductionUpTo
  <2>4. (j - 1) - i \in 0..n /\ i + ((j - 1) - i) = j - 1 /\ j - 1 \in 1..n
    BY <1>1, <1>6
  <2> QED BY <2>3, <2>4
<1>7. ASSUME ~Ambiguous(enum), NEW i \in 1..n, NEW j \in 1..n, i < j, labels[i] = labels[j]
      PROVE  FALSE
  <2> DEFINE x == Sanitized(enum, keys[i])
             y == Sanitized(enum, keys[j])
  <2>1. keys[i] \in DOMAIN enum /\ keys[j] \in DOMAIN enum /\ keys[i] # keys[j]
    BY <1>1, <1>7
  <2>2. labels[j] \in used[j - 1]
    BY <1>6, <1>7
  <2>3. y \in used[j - 1] /\ labels[j] = Suffixed(y, keys[j])
    <3>1. labels[j] = IF y \in used[j - 1] THEN Suffixed(y, keys[j]) ELSE y
      BY <1>4, Zenon DEF StateLabel
    <3> QED BY <2>2, <3>1, Zenon
  <2>4. CASE labels[i] = x
    BY <1>7, <2>1, <2>3, <2>4, Zenon DEF Ambiguous
  <2>5. CASE labels[i] = Suffixed(x, keys[i])
    <3>1. x[2] \in Seq(Int) /\ y[2] \in Seq(Int)
      BY <2>1, SurfacesAssumption, Zenon
    <3>2. keys[i] \in Int /\ keys[j] \in Int
      BY <2>1, EntitiesAssumption
    <3> HIDE DEF x, y
    <3>3. Append(x[2], keys[i]) = Append(y[2], keys[j])
      <4>1. <<x[1], Append(x[2], keys[i])>> = <<y[1], Append(y[2], keys[j])>>
        BY <1>7, <2>3, <2>5, Zenon DEF Suffixed
      <4> QED BY <4>1
    <3>4. ASSUME NEW s \in Seq(Int), NEW t \in Seq(Int), NEW a \in Int, NEW b \in Int,
                 Append(s, a) = Append(t, b)
          PROVE  a = b
      <4>1. Len(Append(s, a)) = Len(s) + 1 /\ Len(Append(t, b)) = Len(t) + 1
        OBVIOUS
      <4>2. Append(s, a)[Len(s) + 1] = a /\ Append(t, b)[Len(t) + 1] = b
        OBVIOUS
      <4>3. Len(s) = Len(t)
        BY <3>4, <4>1
      <4> QED BY <3>4, <4>2, <4>3
    <3> QED BY <2>1, <3>1, <3>2, <3>3, <3>4
  <2> QED BY <1>5, <2>4, <2>5 DEF LabelsOf
<1>8. ASSUME ~Ambiguous(enum), NEW i \in 1..n, NEW j \in 1..n, labels[i] = labels[j]
      PROVE  i = j
  <2>1. ~(i < j) /\ ~(j < i)
    BY <1>7, <1>8
  <2> QED BY <2>1
<1> QED BY <1>1, <1>3, <1>5, <1>8, Zenon DEF keys, n, labels

\* The series of the device's value is the only one that is 1.
LEMMA SeriesAreOneHot ==
  ASSUME NEW enum \in Enums, NEW r
  PROVE  OneHot(enum, r)
<1> DEFINE keys == Keys(enum)
           n == Cardinality(DOMAIN enum)
           labels == StateLabels(enum)
           series == EnumSeries(enum, r)
<1>1. /\ n \in Nat /\ keys \in [1..n -> DOMAIN enum] /\ DOMAIN labels = 1..n
      /\ \A v \in DOMAIN enum : \E i \in 1..n : keys[i] = v
      /\ \A i, j \in 1..n : keys[i] = keys[j] => i = j
      /\ \A i \in 1..n : labels[i] \in LabelsOf(enum, keys[i])
  BY LabelsDiffer, Zenon
<1>2. series = [i \in 1..n |-> [state |-> labels[i], value |-> IF r = keys[i] THEN 1 ELSE 0]]
  BY <1>1, Zenon DEF EnumSeries
<1> HIDE DEF keys, n, labels, series
<1>3. DOMAIN series = 1..n
      /\ \A i \in 1..n : /\ series[i] = [state |-> labels[i], value |-> IF r = keys[i] THEN 1 ELSE 0]
                         /\ series[i].value = 1 <=> r = keys[i]
  BY <1>2
<1>4. Active(enum, r) = {s \in {series[i] : i \in 1..n} : s.value = 1}
  BY <1>3, Zenon DEF Active, ToSet, series
<1>5. Active(enum, r) = {series[i] : i \in {j \in 1..n : r = keys[j]}}
  BY <1>3, <1>4
<1>6. CASE r \notin DOMAIN enum
  BY <1>1, <1>5, <1>6 DEF OneHot
<1>7. CASE r \in DOMAIN enum
  <2>1. PICK i \in 1..n : keys[i] = r
    BY <1>1, <1>7
  <2>2. Active(enum, r) = {series[i]}
    BY <1>1, <1>5, <2>1
  <2>3. series[i] = [state |-> labels[i], value |-> 1]
    BY <1>3, <2>1
  <2>4. labels[i] \in LabelsOf(enum, r)
    BY <1>1, <2>1
  <2> QED BY <1>7, <2>2, <2>3, <2>4, Zenon DEF OneHot, LabelsOf
<1> QED BY <1>6, <1>7

-----------------------------------------------------------------------------
(* Home Assistant                                                          *)

\* A property that can hold a value is read as it was set, whatever it was before.
LEMMA ReadPut ==
  ASSUME NEW m, NEW v, Holds(m, v), NEW regs, DOMAIN regs = Bytes
  PROVE  Read(m, Put(m, v, regs)) = v
<1>1. m.epc \in Bytes /\ m.size \in {1, 2, 4} /\ m.signed \in BOOLEAN /\ v \in Int
      /\ EnumValueFits(v, m.size, m.signed)
  BY Zenon DEF Holds
<1>2. ParseInteger(EncodeValueToEDT(v, m.size, m.signed), m.signed) = v
  <2>1. ReadsBack(v, m.size, m.signed)
    BY <1>1, ClampIsNearest, Zenon
  <2>2. EnumValueFits(v, m.size, m.signed)
        <=> ParseInteger(EncodeValueToEDT(v, m.size, m.signed), m.signed) = v
    BY <2>1, Zenon DEF ReadsBack
  <2> QED BY <1>1, <2>2, Zenon
<1>3. Put(m, v, regs)[m.epc] = EncodeValueToEDT(v, m.size, m.signed)
  BY Zenon, <1>1 DEF Put
<1> QED BY Zenon, <1>2, <1>3 DEF Read

\* The status holds on and off.
LEMMA StatusHolds ==
  /\ Holds(Status, onStatus) /\ Holds(Status, offStatus)
  /\ onStatus # offStatus /\ Status.epc \in Bytes
<1>1. Capacity(1) = 256
  BY Powers DEF Capacity
<1>2. Status.epc \in Bytes /\ Status.size = 1 /\ Status.signed = FALSE
  BY DEF Status, Bytes
<1>3. \A v \in {48, 49} : EnumValueFits(v, 1, FALSE)
  BY <1>1 DEF EnumValueFits, Capacity
<1>4. \A v \in {48, 49} : Holds(Status, v)
  <2> SUFFICES ASSUME NEW v \in {48, 49} PROVE Holds(Status, v)
    OBVIOUS
  <2>1. v \in Int
    BY SMT
  <2>2. Status.size \in {1, 2, 4} /\ Status.signed \in BOOLEAN
    BY <1>2, Zenon
  <2>3. EnumValueFits(v, Status.size, Status.signed)
    BY <1>2, <1>3, Zenon
  <2> QED BY <1>2, <2>1, <2>2, <2>3, Zenon DEF Holds
<1> QED BY <1>2, <1>4, SMT DEF onStatus, offStatus

\* A value with a label is shown by its label.
LEMMA LabelPut ==
  ASSUME NEW m, NEW v \in DOMAIN m.enum, Holds(m, v), NEW regs, DOMAIN regs = Bytes
  PROVE  Label(m, Put(m, v, regs)) = {m.enum[v]}
<1>1. Read(m, Put(m, v, regs)) = v
  BY Zenon, ReadPut
<1> QED BY Zenon, <1>1 DEF Label

\* A climate entity shows the mode, the fan mode and the temperature that were chosen.
LEMMA ClimateIsShown ==
  ASSUME NEW cl, ConsistentClimate(cl), NEW regs, DOMAIN regs = Bytes
  PROVE  ClimateShownAsSet(cl, regs)
<1>1. ASSUME NEW p \in OfferMode(cl) PROVE ShowMode(cl, SetMode(cl, p, regs)) = {p}
  <2>1. CASE p = "off"
    <3>1. SetMode(cl, p, regs) = Put(Status, offStatus, regs)
      BY <2>1, Zenon DEF SetMode
    <3>2. Read(Status, Put(Status, offStatus, regs)) = offStatus
      BY ReadPut, StatusHolds, Zenon
    <3> QED BY <2>1, <3>1, <3>2, Zenon DEF ShowMode
  <2>2. CASE p # "off"
    <3> DEFINE on == Put(Status, onStatus, regs)
               v == cl.modes[p]
    <3>1. p \in DOMAIN cl.modes
      BY DEF OfferMode
    <3>2. v # none /\ Holds(cl.mode, v) /\ cl.mode.epc # Status.epc
          /\ \A k \in DOMAIN cl.modes : cl.modes[k] = v => k = p
      BY <2>2, <3>1, Zenon DEF ConsistentClimate
    <3>3. SetMode(cl, p, regs) = Put(cl.mode, v, on)
      BY <2>2, <3>1, <3>2, Zenon DEF SetMode
    <3>4. Read(Status, on) = onStatus
      BY ReadPut, StatusHolds, Zenon
    <3>5. DOMAIN on = Bytes
      BY Zenon DEF Put
    <3> HIDE DEF on, v
    <3>6. Read(Status, Put(cl.mode, v, on)) = onStatus
      <4>1. Status.epc \in Bytes /\ Status.epc # cl.mode.epc
        BY <3>2, StatusHolds, Zenon
      <4>2. Read(Status, Put(cl.mode, v, on)) = Read(Status, on)
        BY <3>5, <4>1, Zenon DEF Put, Read
      <4> QED BY <3>4, <4>2, Zenon
    <3>7. Read(cl.mode, Put(cl.mode, v, on)) = v
      BY <3>2, <3>5, ReadPut, Zenon
    <3>8. ShowMode(cl, SetMode(cl, p, regs)) = {l \in DOMAIN cl.modes : cl.modes[l] = v}
      BY <3>3, <3>6, <3>7, StatusHolds, Zenon DEF ShowMode
    <3>9. {l \in DOMAIN cl.modes : cl.modes[l] = v} = {p}
      BY <3>1, <3>2, Zenon DEF v
    <3> QED BY <3>8, <3>9, Zenon
  <2> QED BY <2>1, <2>2
<1>2. ASSUME NEW p \in OfferFan(cl)
      PROVE  /\ SetFan(cl, p, regs) # {}
             /\ \A r \in SetFan(cl, p, regs) : ShowFan(cl, r) = {p}
  <2>1. p \in Labels(cl.fan)
    BY Zenon DEF OfferFan, ConsistentClimate
  <2>2. PICK v \in DOMAIN cl.fan.enum : cl.fan.enum[v] = p
    BY <2>1, Zenon DEF Labels
  <2>3. SetFan(cl, p, regs) # {}
    BY <2>2, Zenon DEF SetFan, Raws
  <2>4. ASSUME NEW r \in SetFan(cl, p, regs) PROVE ShowFan(cl, r) = {p}
    <3>1. PICK u \in DOMAIN cl.fan.enum : cl.fan.enum[u] = p /\ r = Put(cl.fan, u, regs)
      BY <2>4, Zenon DEF SetFan, Raws
    <3>2. Holds(cl.fan, u)
      BY Zenon DEF ConsistentClimate
    <3> QED BY <3>1, <3>2, LabelPut, Zenon DEF ShowFan
  <2> QED BY <2>3, <2>4
<1>3. ASSUME NEW p \in 16..30
      PROVE  ShowTemperature(cl, SetTemperature(cl, 10 * p, TRUE, regs)) = {p}
  <2> DEFINE prev == Read(cl.temp, regs)
  <2>1. NormalizeClimateSetpoint(10 * p, prev, TRUE) = p
    <3> HIDE DEF prev
    <3>1. (10 * p) % 10 # 5 /\ 10 * p >= 0 /\ (10 * p + 5) \div 10 = p
      OBVIOUS
    <3> QED BY <3>1 DEF NormalizeClimateSetpoint, Floor
  <2>2. SetTemperature(cl, 10 * p, TRUE, regs) = Put(cl.temp, p, regs)
    BY <2>1, Zenon DEF SetTemperature
  <2>3. Holds(cl.temp, p)
    BY <1>3, Zenon DEF ConsistentClimate
  <2>4. Read(cl.temp, Put(cl.temp, p, regs)) = p
    BY <2>3, ReadPut, Zenon
  <2> QED BY <2>2, <2>4, Zenon DEF ShowTemperature
<1> QED BY <1>1, <1>2, <1>3, Zenon DEF ClimateShownAsSet

\* A light shows the power, the brightness and the colour or scene that were chosen.
LEMMA LightIsShown ==
  ASSUME NEW lt, ConsistentLight(lt), NEW regs, DOMAIN regs = Bytes
  PROVE  LightShownAsSet(lt, regs)
<1>1. ASSUME NEW p \in {"ON", "OFF"} PROVE ShowPower(SetPower(p, regs)) = {p}
  <2>1. CASE p = "ON"
    BY <2>1, ReadPut, StatusHolds, Zenon DEF ShowPower, SetPower
  <2>2. CASE p = "OFF"
    <3>1. SetPower(p, regs) = Put(Status, offStatus, regs)
      BY <2>2, Zenon DEF SetPower
    <3>2. Read(Status, Put(Status, offStatus, regs)) = offStatus
      BY ReadPut, StatusHolds, Zenon
    <3> QED BY <2>2, <3>1, <3>2, StatusHolds, Zenon DEF ShowPower
  <2> QED BY <2>1, <2>2
<1>2. ASSUME NEW p \in OfferBrightness
      PROVE  ShowBrightness(lt, SetBrightness(lt, p, regs)) = {p}
  <2>1. Holds(lt.brightness, p)
    BY Zenon DEF ConsistentLight
  <2> QED BY <2>1, ReadPut, Zenon DEF ShowBrightness, SetBrightness
<1>3. ASSUME NEW p \in OfferEffect(lt)
      PROVE  /\ SetEffect(lt, p, regs) # {}
             /\ \A r \in SetEffect(lt, p, regs) : ShowEffect(lt, r) = {p}
  <2>1. CASE lt.color # NoMetric
    <3> DEFINE v == lt.colors[p]
    <3>1. p \in DOMAIN lt.colors
      BY <2>1, Zenon DEF OfferEffect
    <3>2. Holds(lt.color, v) /\ v \in DOMAIN lt.color.enum /\ lt.color.enum[v] = p
      BY <2>1, <3>1, Zenon DEF ConsistentLight
    <3>3. SetEffect(lt, p, regs) = {Put(lt.color, v, regs)}
      BY <2>1, <3>1, Zenon DEF SetEffect
    <3>4. Label(lt.color, Put(lt.color, v, regs)) = {p}
      <4> HIDE DEF v
      <4>1. Label(lt.color, Put(lt.color, v, regs)) = {lt.color.enum[v]}
        BY <3>2, LabelPut
      <4> QED BY <3>2, <4>1
    <3>5. ShowEffect(lt, Put(lt.color, v, regs)) = {p}
      BY <2>1, <3>1, <3>4, Zenon DEF ShowEffect
    <3> QED BY <3>3, <3>5, Zenon
  <2>2. CASE lt.color = NoMetric
    <3>1. lt.scene # NoMetric /\ p \in 1..lt.maxScenes
      BY <2>2, Zenon DEF OfferEffect
    <3>2. Holds(lt.scene, p) /\ lt.maxScenes \in Nat
      BY <3>1, Zenon DEF ConsistentLight
    <3>3. p # 0
      BY <3>1, <3>2
    <3>4. SetEffect(lt, p, regs) = {Put(lt.scene, p, regs)}
      BY <2>2, <3>1, Zenon DEF SetEffect
    <3>5. Read(lt.scene, Put(lt.scene, p, regs)) = p
      BY <3>2, ReadPut, Zenon
    <3>6. ShowEffect(lt, Put(lt.scene, p, regs)) = {p} \ {0}
      BY <2>2, <3>1, <3>5, Zenon DEF ShowEffect
    <3> QED BY <3>3, <3>4, <3>6, Zenon
  <2> QED BY <2>1, <2>2
<1> QED BY <1>1, <1>2, <1>3, Zenon DEF LightShownAsSet

\* A switch, select or number shows what was chosen.
LEMMA WritableIsShown ==
  ASSUME NEW m, ConsistentWritable(m), NEW numbers, NEW regs, DOMAIN regs = Bytes
  PROVE  WritableShownAsSet(m, numbers, regs)
<1> DEFINE type == WritableEntityType(m)
<1>1. m.epc \in Bytes /\ m.size \in {1, 2, 4} /\ m.signed \in BOOLEAN
  BY DEF ConsistentWritable, Loads
<1>2. \A v \in DOMAIN m.enum : Holds(m, v)
  BY <1>1, Zenon DEF ConsistentWritable, Loads, Holds
<1>3. ASSUME NEW l \in Labels(m)
      PROVE  /\ Raws(m, l) # {}
             /\ \A v \in Raws(m, l) : Label(m, Put(m, v, regs)) = {l}
  <2>1. Raws(m, l) # {}
    BY <1>3, Zenon DEF Labels, Raws
  <2> QED BY <1>2, <2>1, LabelPut, Zenon DEF Raws
<1>4. CASE type = "switch"
  <2>1. Labels(m) = {"on", "off"}
    BY <1>4 DEF WritableEntityType
  <2>2. ASSUME NEW p \in {"ON", "OFF"}
        PROVE  /\ SetWritable(m, p, regs) # {}
               /\ \A r \in SetWritable(m, p, regs) : ShowWritable(m, r) = {p}
    <3> DEFINE l == IF p = "ON" THEN "on" ELSE "off"
    <3>1. l \in Labels(m) /\ p = IF l = "on" THEN "ON" ELSE "OFF"
      BY <2>1, <2>2
    <3>2. SetWritable(m, p, regs) = {Put(m, v, regs) : v \in Raws(m, l)}
      BY <1>4, Zenon DEF SetWritable
    <3>3. ASSUME NEW v \in Raws(m, l) PROVE ShowWritable(m, Put(m, v, regs)) = {p}
      <4>1. Label(m, Put(m, v, regs)) = {l}
        BY <1>3, <3>1, <3>3, Zenon
      <4> HIDE DEF l
      <4>2. ShowWritable(m, Put(m, v, regs)) = {IF k = "on" THEN "ON" ELSE "OFF" : k \in {l}}
        BY <1>4, <4>1, Zenon DEF ShowWritable
      <4> QED BY <3>1, <4>2, Zenon
    <3> HIDE DEF l
    <3>4. Raws(m, l) # {}
      BY <1>3, <3>1, Zenon
    <3> QED BY <3>2, <3>3, <3>4, Zenon
  <2>3. OfferWritable(m) = {"ON", "OFF"} /\ type # "number"
    BY <1>4, SMT DEF OfferWritable
  <2> QED BY <2>2, <2>3, Zenon DEF WritableShownAsSet
<1>5. CASE type = "select"
  <2>1. ASSUME NEW p \in Labels(m)
        PROVE  /\ SetWritable(m, p, regs) # {}
               /\ \A r \in SetWritable(m, p, regs) : ShowWritable(m, r) = {p}
    <3>1. SetWritable(m, p, regs) = {Put(m, v, regs) : v \in Raws(m, p)}
      BY <1>5, Zenon DEF SetWritable
    <3>2. ASSUME NEW v \in Raws(m, p) PROVE ShowWritable(m, Put(m, v, regs)) = {p}
      BY <1>3, <1>5, <2>1, <3>2, Zenon DEF ShowWritable
    <3>3. Raws(m, p) # {}
      BY <1>3, <2>1, Zenon
    <3> QED BY <3>1, <3>2, <3>3, Zenon
  <2>2. OfferWritable(m) = Labels(m) /\ type # "number"
    BY <1>5, SMT DEF OfferWritable
  <2> QED BY <2>1, <2>2, Zenon DEF WritableShownAsSet
<1>6. CASE type = "number"
  <2>1. DOMAIN m.enum = {}
    BY <1>6 DEF WritableEntityType
  <2>2. ASSUME NEW p \in OfferWritable(m)
        PROVE  Holds(m, p) /\ (m.range = {} \/ p \in m.range)
    <3>1. CASE m.range # {}
      <4>1. OfferWritable(m) = m.range
        BY <1>6, <3>1, SMT DEF OfferWritable
      <4> QED BY <2>1, <2>2, <3>1, <4>1, Zenon DEF ConsistentWritable
    <3>2. CASE m.range = {}
      <4>1. ~m.signed
        BY <2>1, <3>2, Zenon DEF ConsistentWritable
      <4>2. p \in 0..(IF m.size = 2 THEN 65535 ELSE 255)
        BY <1>6, <2>2, <3>2, SMT DEF OfferWritable
      <4>3. p \in Int /\ 0 <= p /\ p <= Capacity(m.size) - 1
        <5>1. m.size = 1 => Capacity(m.size) = 256
          BY Powers DEF Capacity
        <5>2. m.size = 2 => Capacity(m.size) = 65536
          BY Powers DEF Capacity
        <5>3. m.size = 4 => Capacity(m.size) = 4294967296
          BY Powers DEF Capacity
        <5> QED BY <1>1, <4>2, <5>1, <5>2, <5>3
      <4>4. EnumValueFits(p, m.size, m.signed)
        BY <4>1, <4>3 DEF EnumValueFits, Capacity
      <4> QED BY <1>1, <3>2, <4>3, <4>4, Zenon DEF Holds
    <3> QED BY <3>1, <3>2
  <2>3. ASSUME NEW p \in OfferWritable(m)
        PROVE  /\ SetWritable(m, p, regs) # {}
               /\ \A r \in SetWritable(m, p, regs) : ShowWritable(m, r) = {p}
    <3>1. SetWritable(m, p, regs) = {Put(m, p, regs)}
      BY <1>6, Zenon DEF SetWritable
    <3>2. Read(m, Put(m, p, regs)) = p
      BY <2>2, <2>3, ReadPut, Zenon
    <3>3. ShowWritable(m, Put(m, p, regs)) = {v \in {p} : m.range = {} \/ v \in m.range}
      BY <1>6, <3>2, Zenon DEF ShowWritable
    <3> QED BY <2>2, <2>3, <3>1, <3>3, Zenon
  <2> QED BY <1>6, <2>3, Zenon DEF WritableShownAsSet
<1>7. CASE type \notin {"switch", "select", "number"}
  <2>1. OfferWritable(m) = {}
    BY <1>7 DEF OfferWritable
  <2> QED BY <1>7, <2>1, Zenon DEF WritableShownAsSet
<1> QED BY <1>4, <1>5, <1>6, <1>7

\* A half goes on in the direction of the step, and every other temperature to the
\* nearest degree.
LEMMA StepIsKept ==
  ASSUME NEW prev \in Int, NEW t \in Int
  PROVE  StepMoves(t, prev)
<1> DEFINE k == t \div 10
           d == t % 10
<1>1. k \in Int /\ d \in 0..9 /\ t = 10 * k + d
  OBVIOUS
<1> HIDE DEF k, d
<1>2. /\ Floor(t) = k /\ Ceil(t) = (IF d = 0 THEN k ELSE k + 1)
      /\ Floor(t + 5) = (IF d >= 5 THEN k + 1 ELSE k)
      /\ Ceil(t - 5) = (IF d > 5 THEN k + 1 ELSE k)
      /\ t % 10 = d
  BY <1>1 DEF Floor, Ceil
<1>3. NormalizeClimateSetpoint(t, prev, TRUE) =
        IF d = 5 THEN IF t >= 10 * prev THEN k + 1 ELSE k
        ELSE IF d > 5 THEN k + 1 ELSE k
  BY <1>1, <1>2 DEF NormalizeClimateSetpoint
<1>4. NormalizeClimateSetpoint(t, prev, FALSE) \in {k, k + 1}
      /\ (NormalizeClimateSetpoint(t, prev, FALSE) = k + 1 => d >= 5)
      /\ (NormalizeClimateSetpoint(t, prev, FALSE) = k => d <= 5)
  BY <1>1, <1>2 DEF NormalizeClimateSetpoint
<1> DEFINE up == NormalizeClimateSetpoint(t, prev, TRUE)
           any == NormalizeClimateSetpoint(t, prev, FALSE)
<1> HIDE DEF up, any
<1>5. up = (IF d = 5 THEN IF t >= 10 * prev THEN k + 1 ELSE k ELSE IF d > 5 THEN k + 1 ELSE k)
  BY <1>3 DEF up
<1>6. t = 10 * prev + 5 => up = prev + 1
  BY <1>1, <1>5
<1>7. t = 10 * prev - 5 => up = prev - 1
  BY <1>1, <1>5
<1>8. 10 * up - t \in -5..5
  BY <1>1, <1>5
<1>9. any \in {k, k + 1} /\ (any = k + 1 => d >= 5) /\ (any = k => d <= 5)
  BY <1>4 DEF any
<1>10. 10 * any - t \in -5..5
  BY <1>1, <1>9
<1> QED BY <1>6, <1>7, <1>8, <1>10 DEF StepMoves, up, any

-----------------------------------------------------------------------------
(* Theorems                                                                *)

\* The invariant of the device's way from the first query to its entities.
THEOREM EntitiesInvariance == Spec => []IndInv
BY InitInv, NextInv, PTL DEF Spec

\* Every variable keeps its type: what the cache, the publisher's key and the
\* broker hold are metrics of the specification.
THEOREM EntitiesTypeCorrect == Spec => []TypeOK
<1>1. IndInv => TypeOK
  BY DEF IndInv
<1> QED BY <1>1, EntitiesInvariance, PTL

\* resolveEOJInstance ends at an object the device has, for every device that
\* refuses what it does not have, as long as nothing is lost.
THEOREM PolledInstanceExistsAlways == Spec => []PolledInstanceExists
<1>1. IndInv => PolledInstanceExists
  BY DEF IndInv
<1> QED BY <1>1, EntitiesInvariance, PTL

\* Home Assistant is offered no control of a polled metric that the device cannot
\* set, whatever earlier runs of the bridge left at the broker.
THEOREM ControlsAreSettableAlways == Spec => []ControlsAreSettable
<1>1. IndInv => ControlsAreSettable
  BY DEF IndInv
<1> QED BY <1>1, EntitiesInvariance, PTL

\* What a scrape asks for and the device has it gets, whatever the metrics of the
\* group, however few properties the device answers at once: getPropsAdaptive splits
\* often enough for the longest batch, and a lost request costs only what was in it.
THEOREM AdaptiveGetIsCompleteAlways == Spec => []AdaptiveGetIsComplete
<1>1. IndInv => AdaptiveGetIsComplete
  BY AdaptiveGetIsCompleteInv DEF IndInv
<1> QED BY <1>1, EntitiesInvariance, PTL

\* A value that is set is read back as the nearest one the property can hold, for
\* every value and for the widths of one, two and four bytes, signed or not; and the
\* loader admits exactly the values that read back unchanged.
THEOREM SetReadsBackAlways == Spec => []SetReadsBack
<1>1. ASSUME NEW size \in Sizes, NEW signed \in BOOLEAN, NEW v \in RawValues
      PROVE  ReadsBack(v, size, signed)
  BY ClampIsNearest, EntitiesAssumption
<1>2. SetReadsBack
  BY Zenon, <1>1 DEF SetReadsBack
<1> QED BY <1>2, PTL

\* Every set of properties is read from the map a device writes of it, in both formats;
\* and of the answer to a batch, cut anywhere, the properties that are whole are read, and
\* no other.
THEOREM DecodesWhatWasSentAlways == Spec => []DecodesWhatWasSent
<1>1. MapsRoundTrip
  <2>1. ASSUME NEW epcs \in PropertyMaps
        PROVE  DecodePropertyMap(EncodePropertyMap(epcs)) = epcs
    <3>1. epcs \subseteq 128..255
      BY EntitiesAssumption, SMT
    <3> QED BY <3>1, MapIsWritten, PropertyMapIsRead
  <2> QED BY <2>1, Zenon DEF MapsRoundTrip
<1>2. ASSUME TypeOK, NEW q \in Batches(SpecEPCs), NEW n \in 0..Len(EncodeProps(Props(q)))
      PROVE  CutFrameIsSafe(Props(q), n)
  <2>1. q \in Seq(Bytes)
    <3>1. PICK l \in Loop(SpecEPCs, {}) : q = l.ask
      BY DEF Batches
    <3>2. l \in Asks
      BY LoopFacts, Zenon
    <3> QED BY <3>1, <3>2 DEF Asks, EPCs
  <2>2. Props(q) \in Seq(Properties)
    <3>1. ASSUME NEW i \in 1..Len(q)
          PROVE  [epc |-> q[i], edt |-> Edt(node, q[i])] \in Properties
      <4>1. q[i] \in Bytes
        BY <2>1
      <4>2. Edt(node, q[i]) \in Seq(Bytes)
        <5>1. node \in Nodes
          BY <1>2 DEF TypeOK
        <5>2. <<>> \in Seq(Bytes)
          OBVIOUS
        <5> QED BY <5>1, <5>2, NodesAssumption, Zenon DEF Edt
      <4> QED BY <4>1, <4>2 DEF Properties
    <3>2. DOMAIN q = 1..Len(q) /\ Len(q) \in Nat
      BY <2>1
    <3>3. Props(q) \in [1..Len(q) -> Properties]
      BY <3>1, <3>2, Zenon DEF Props
    <3> QED BY <3>2, <3>3, FunctionIsSeq, Zenon
  <2> QED BY <1>2, <2>2, CutFrameIsRead, Zenon
<1>3. TypeOK => DecodesWhatWasSent
  BY <1>1, <1>2, Zenon DEF DecodesWhatWasSent
<1>4. IndInv => DecodesWhatWasSent
  BY <1>3 DEF IndInv
<1> QED BY <1>4, EntitiesInvariance, PTL

\* Whatever labels a specification gives the values of an enum and however they are
\* sanitized, no two of its series are the same, unless one label reads like another with
\* its value as a suffix; and the series that is 1 is that of the device's value.
THEOREM ExportsOneStateAlways == Spec => []ExportsOneState
<1>1. ASSUME NEW enum \in Enums, ~Ambiguous(enum)
      PROVE  IsInjective(StateLabels(enum))
  BY <1>1, LabelsDiffer, Zenon DEF IsInjective
<1>2. ExportsOneState
  BY <1>1, SeriesAreOneHot, Zenon DEF ExportsOneState
<1> QED BY <1>2, PTL

\* Whatever is chosen of an entity with a consistent specification is what is shown,
\* whatever the registers held; and a step of half a degree from any temperature is kept.
THEOREM ShownAsSetAlways == Spec => []ShownAsSet
<1>1. ASSUME NEW regs \in Registers
      PROVE  /\ \A cl \in Climates : ClimateShownAsSet(cl, regs)
             /\ \A lt \in Lights : LightShownAsSet(lt, regs)
             /\ \A m \in Writables : WritableShownAsSet(m, RawValues, regs)
  BY SurfacesAssumption, ClimateIsShown, LightIsShown, WritableIsShown
<1>2. ASSUME NEW prev \in SetPoints, NEW t \in (10 * prev - 12)..(10 * prev + 12)
      PROVE  StepMoves(t, prev)
  <2>1. prev \in Int /\ t \in Int
    BY EntitiesAssumption
  <2> QED BY <2>1, StepIsKept
<1>3. ShownAsSet
  BY Zenon, <1>1, <1>2 DEF ShownAsSet
<1> QED BY <1>3, PTL
=============================================================================
