------------------------------- MODULE Entities -------------------------------
(***************************************************************************)
(* One configured device, from the first query to its Home Assistant       *)
(* entities: Scheduler.discoverDeviceState and scrapeOnce                  *)
(* (internal/poller/scheduler.go), Cache.IngestNotification                *)
(* (internal/poller/cache.go) and Publisher.PublishDeviceState with        *)
(* ensureDiscovery (internal/mqtt/discovery.go).  Client has the queries   *)
(* and the bytes.                                                          *)
(*                                                                         *)
(* Datagrams get lost, the bridge restarts and finds another device behind *)
(* the address, and the broker keeps what it was told.  How flights are    *)
(* scheduled is Reconciler's subject, how states overtake each other       *)
(* PublishPipeline's, how long a push spares a poll CacheSync's: here a    *)
(* flight is one step, the publisher has one state waiting, and any EPC    *)
(* that was pushed may be left out of a scrape.                            *)
(***************************************************************************)
EXTENDS Client, Collector, HomeAssistant

CONSTANTS
  Nodes,        \* the devices that may be at the address
  Configured,   \* the EOJ of the specification
  Specs,        \* its metrics as loaded, in order, by EPC: [epc, size, invalid,
                \* multiplier, interval, control]; multiplier is an EPC or 0,
                \* control whether it may have a switch, select or number
  DefaultInterval, \* its default_scrape_interval
  DeviceInterval,  \* the scrape_interval of the configuration, or 0
  HasComposite, \* it has a climate or light entity
  PropertyMaps, \* sets of properties that a map is made of
  Sizes,        \* the widths in bytes of the values that are set ...
  RawValues,    \* ... and those values, as the commander computes them
  Enums,        \* enums of metrics: labels by value
  Climates, Lights, Writables, \* entities, as HomeAssistant has them
  Registers,    \* what a device may hold, by EPC
  SetPoints,    \* temperatures in degrees
  MaxLost,      \* bound: datagrams lost
  MaxPushes,    \* bound: notifications
  MaxProps,     \* bound: properties of a notification
  MaxRestarts   \* bound: restarts of the bridge

ASSUME EntitiesAssumption ==
  /\ MaxLost \in Nat /\ MaxPushes \in Nat /\ MaxProps \in Nat /\ MaxRestarts \in Nat
  /\ HasComposite \in BOOLEAN
  /\ Configured \in EOJs /\ Configured[3] \in 1..15
  /\ DeviceInterval \in Nat /\ DefaultInterval \in Nat \ {0}
  /\ Sizes \subseteq {1, 2, 4} /\ RawValues \subseteq Int /\ SetPoints \subseteq Int
  /\ PropertyMaps \subseteq SUBSET (128..255)
  /\ \A enum \in Enums : DOMAIN enum \subseteq Int /\ IsFiniteSet(DOMAIN enum)

\* A label may end in values, and the specifications are consistent.
ASSUME SurfacesAssumption ==
  /\ \A enum \in Enums : \A v \in DOMAIN enum : Sanitized(enum, v)[2] \in Seq(Int)
  /\ \A cl \in Climates : ConsistentClimate(cl)
  /\ \A lt \in Lights : ConsistentLight(lt)
  /\ \A m \in Writables : ConsistentWritable(m)
  /\ \A regs \in Registers : DOMAIN regs = Bytes

VARIABLES
  node,             \* the device
  pc,               \* the next step of discoverDeviceState
  eoj,              \* Cache.eojByDev
  active,           \* Cache.specsByDev: the metrics that are polled, by EPC
  info,             \* Cache.info: the identity fields known
  writable,         \* Cache.writableEPCs, or NoMap
  metrics,          \* Cache.metrics: the EPCs with a value ...
  raw,              \* ... and those of them whose multiplier was not applied
  pushed,           \* Cache.lastPush
  queued,           \* the state the publisher has yet to publish, or NoState
  published,        \* Publisher.published, or <<>>
  broker,           \* the retained discovery messages, with the identity they name
                    \* and the map the controls were chosen by
  lost, pushes, restarts

discVars   == <<pc, eoj, active>>
cacheVars  == <<info, writable, metrics, raw, pushed>>
mqttVars   == <<published, broker>>
boundVars  == <<pushes, restarts>>
vars == <<node, discVars, cacheVars, queued, mqttVars, lost, boundVars>>

Fields == {"uid", "mfg", "code"}   \* UID, manufacturer, product code
Named  == {"mfg", "code"}          \* what infoKey has of them

NoMap   == {-1}            \* no writable map was read
NoState == [ok |-> FALSE]   \* nothing is waiting

SETMAP == 158
GETMAP == 159

\* HasDeviceInfo, of an identity.
Known(i) == i \cap {"uid", "mfg"} # {}

\* A device lists no object that it does not have, answers at least one property
\* at once, the length of which is a byte, and its writable map, if it has one, says
\* what it can set.  It has a manufacturer or a UID, if it has an identity at all.
ASSUME NodesAssumption ==
  \A n \in Nodes :
    /\ n.eojs \subseteq EOJs /\ n.list \in Seq(Bytes) /\ n.refuses \in BOOLEAN
    /\ ListsItsOwn(n) /\ n.limit \in Nat \ {0}
    /\ n.identity \subseteq Fields /\ (n.identity = {} \/ Known(n.identity))
    /\ \A e \in DOMAIN n.data : n.data[e] \in Seq(Bytes) /\ Len(n.data[e]) \in Bytes
    /\ Edt(n, SETMAP) # <<>> => IsPropertyMap(Edt(n, SETMAP), n.settable)

Metrics == ToSet(Specs)

ASSUME SpecsAssumption ==
  /\ Specs \in Seq(Metrics)
  /\ \A m \in Metrics : m.epc \in Bytes \ {0} /\ m.multiplier \in Bytes

SpecEPCs == {m.epc : m \in Metrics}
Polled == (SpecEPCs \cup {m.multiplier : m \in Metrics}) \ {0}
MetricSpec(e) == CHOOSE m \in Metrics : m.epc = e

Init ==
  /\ node \in Nodes
  /\ pc = "eoj" /\ eoj = Configured /\ active = {}
  /\ info = {} /\ writable = NoMap /\ metrics = {} /\ raw = {} /\ pushed = {}
  /\ queued = NoState /\ published = <<>>
  /\ broker = [sensors |-> {}, controls |-> {}, composite |-> FALSE,
               info |-> {}, map |-> NoMap]
  /\ lost = 0 /\ pushes = 0 /\ restarts = 0

-----------------------------------------------------------------------------
(* Queries                                                                 *)

\* The object that is asked exists.
Exists == eoj \in node.eojs

\* A query of one datagram: answered, or lost at the cost of one.
Answered == Exists /\ lost' = lost
Lost     == lost < MaxLost /\ lost' = lost + 1

\* GetReadablePropertyMap, GetWritablePropertyMap: a map without bytes is an error.
MapOf(epc) == IF Edt(node, epc) = <<>> THEN NoMap ELSE DecodePropertyMap(Edt(node, epc))

\* What GetDeviceInfo may return, and the datagrams it takes: what the device has, or
\* with a loss nothing or less; the product code alone is an error (Reconciler has
\* the queries).  The configuration names neither manufacturer nor model.
Identities ==
  IF Exists
  THEN {<<node.identity, 0>>}
       \cup {<<i, 1>> : i \in {j \in SUBSET node.identity : lost < MaxLost /\ (j = {} \/ Known(j))}}
  ELSE {<<{}, 0>>}

-----------------------------------------------------------------------------
(* discoverDeviceState                                                     *)

\* The node profile's answer is lost or not, and at most one of the probes': the
\* first that is ends the sweep.
Silences == {p \cup i : p \in {{}, {0}}, i \in {{}} \cup {{k} : k \in 1..15}}

DiscoverEOJ ==
  /\ pc = "eoj" /\ pc' = "info"
  /\ \E silent \in Silences :
       /\ lost + Cardinality(silent) <= MaxLost
       /\ lost' = lost + Cardinality(silent)
       /\ eoj' = ResolveEOJ(node, Configured, silent)
  /\ UNCHANGED <<node, active, cacheVars, queued, mqttVars, boundVars>>

DiscoverInfo ==
  /\ pc = "info" /\ pc' = "readable"
  /\ \E r \in Identities : info' = r[1] /\ lost' = lost + r[2]
  /\ UNCHANGED <<node, eoj, active, writable, metrics, raw, pushed, queued, mqttVars,
                 boundVars>>

\* filterMetricsByReadableMap, or without a map every metric of the specification.
FilterMetrics(readable) == IF readable = NoMap THEN SpecEPCs ELSE SpecEPCs \cap readable

DiscoverReadable ==
  /\ pc = "readable" /\ pc' = "writable"
  /\ \/ Answered /\ active' = FilterMetrics(MapOf(GETMAP))
     \/ (Lost \/ (~Exists /\ UNCHANGED lost)) /\ active' = FilterMetrics(NoMap)
  /\ UNCHANGED <<node, eoj, cacheVars, queued, mqttVars, boundVars>>

\* Then the scrapers start, if there is a metric to scrape.
DiscoverWritable ==
  /\ pc = "writable"
  /\ \/ Answered /\ writable' = MapOf(SETMAP)
     \/ (Lost \/ (~Exists /\ UNCHANGED lost)) /\ UNCHANGED writable
  /\ pc' = IF active = {} THEN "skipped" ELSE "scraping"
  /\ UNCHANGED <<node, eoj, active, info, metrics, raw, pushed, queued, mqttVars, boundVars>>

Discover == DiscoverEOJ \/ DiscoverInfo \/ DiscoverReadable \/ DiscoverWritable

-----------------------------------------------------------------------------
(* The cache                                                               *)

\* The DeviceState handed to the publisher, which keeps the latest.
Enqueue(ok) ==
  queued' = [ok |-> ok, info |-> info', writable |-> writable', metrics |-> metrics']

\* The metrics of epcs whose multiplier is not among the properties got.
Unscaled(epcs, got) ==
  {e \in epcs : LET mul == MetricSpec(e).multiplier
                IN mul # 0 /\ (mul \notin got \/ Edt(node, mul) = <<>>)}

\* ParsePropsToMetrics for the metrics epcs of an answer with the EPCs got: a
\* value whose multiplier is not among them is stored all the same.
StoreMetrics(epcs, got) ==
  LET out == {e \in epcs \cap got :
                Parses(node.data[e], MetricSpec(e).size, MetricSpec(e).invalid)}
  IN /\ metrics' = metrics \cup out
     /\ raw' = (raw \ out) \cup Unscaled(out, got)

-----------------------------------------------------------------------------
(* scrapeOnce                                                              *)

\* The loop over the metrics of a group, in the order of the specification:
\* l.ask are the EPCs to ask for, l.skipped the ones to leave out because they
\* were pushed of late (fresh).
Seen(l) == ToSet(l.ask) \cup l.skipped
AddEPC(l, e) == IF e \in Seen(l) THEN l ELSE [l EXCEPT !.ask = Append(@, e)]
AddMetric(l, m, fresh) ==
  IF m.epc \in fresh \ Seen(l) THEN [l EXCEPT !.skipped = @ \cup {m.epc}]
  ELSE IF m.multiplier = 0 THEN AddEPC(l, m.epc)
  ELSE AddEPC(AddEPC(l, m.epc), m.multiplier)

\* How the loop ends, as a set of one.
Loop(group, fresh) ==
  LET at[i \in 0..Len(Specs)] ==
        IF i = 0 THEN {[ask |-> <<>>, skipped |-> {}]}
        ELSE IF Specs[i].epc \notin group THEN at[i - 1]
        ELSE {AddMetric(l, Specs[i], fresh) : l \in at[i - 1]}
  IN at[Len(Specs)]

\* At an object the device does not have: one EPC is refused with an empty
\* answer, several with an error.
GetAt(q, dropped) ==
  IF Exists THEN GetProps(node, q, dropped)
  ELSE IF node.refuses /\ Len(q) = 1 /\ dropped = NoRequest THEN {} ELSE Err

\* scheduleDeviceScrapers: a metric is polled at its own interval, which the
\* loader has always filled in.
IntervalOf(m) ==
  IF m.interval > 0 THEN m.interval
  ELSE IF DeviceInterval > 0 THEN DeviceInterval ELSE DefaultInterval
Intervals == {IntervalOf(m) : m \in Metrics}

GroupOf(iv) == {e \in active : IntervalOf(MetricSpec(e)) = iv}

\* Polls the metrics of a group as loop l ended, one request of which is lost or none.
ScrapeOnce(group, l, dropped) ==
  /\ pc = "scraping" /\ l.ask # <<>>
  /\ lost' = lost + (IF dropped = NoRequest THEN 0 ELSE 1)
  /\ lost' <= MaxLost
  /\ UNCHANGED <<node, discVars, info, writable, pushed, mqttVars, boundVars>>
  /\ \E r \in {GetAt(l.ask, dropped)} :
       /\ IF r = Err THEN UNCHANGED <<metrics, raw>>
          ELSE StoreMetrics(group \ l.skipped, r)
       /\ Enqueue(r # Err)

\* A scrape of a whole group, nothing of which is lost.
FullScrape(iv) ==
  \E group \in {GroupOf(iv)} : \E l \in Loop(group, {}) : ScrapeOnce(group, l, NoRequest)

\* A scrape of a group leaves out EPCs that were pushed.
Scrape(iv) ==
  \E group \in {GroupOf(iv)} : \E fresh \in SUBSET (pushed \cap group) :
    \E l \in Loop(group, fresh) : \E dropped \in {NoRequest} \cup Requests(l.ask) :
      ScrapeOnce(group, l, dropped)

\* IngestNotification of the properties ps.
Push(ps) ==
  /\ pc = "scraping" /\ Exists
  /\ pushes < MaxPushes /\ pushes' = pushes + 1
  /\ pushed' = pushed \cup ps
  /\ StoreMetrics(active \cap ps, ps)
  /\ UNCHANGED <<info, writable>>
  /\ IF \E e \in active \cap ps : Parses(node.data[e], MetricSpec(e).size, MetricSpec(e).invalid)
     THEN Enqueue(TRUE) ELSE UNCHANGED queued
  /\ UNCHANGED <<node, discVars, mqttVars, lost, restarts>>

-----------------------------------------------------------------------------
(* CapabilityReconciler                                                    *)

\* A flight reads what is missing; TriggerUpdate if it got any of it.
Heal ==
  /\ pc = "scraping" /\ Exists
  /\ ~Known(info) \/ writable = NoMap
  /\ \E noMap \in IF writable = NoMap THEN {0, 1} ELSE {0},
        r \in IF Known(info) THEN {<<info, 0>>} ELSE Identities :
       /\ lost' = lost + noMap + r[2] /\ lost' <= MaxLost
       /\ writable' = IF writable = NoMap /\ noMap = 0 THEN MapOf(SETMAP) ELSE writable
       /\ info' = IF Known(r[1]) THEN r[1] ELSE info
  /\ UNCHANGED <<metrics, raw, pushed>>
  /\ IF <<info', writable'>> # <<info, writable>> THEN Enqueue(TRUE) ELSE UNCHANGED queued
  /\ UNCHANGED <<node, discVars, mqttVars, boundVars>>

\* A refresh overwrites the identity with what it read, though that may be less,
\* and tells nobody.
Refresh ==
  /\ pc = "scraping" /\ Exists
  /\ \E r \in Identities : Known(r[1]) /\ info' = r[1] /\ lost' = lost + r[2]
  /\ UNCHANGED <<node, discVars, writable, metrics, raw, pushed, queued, mqttVars, boundVars>>

-----------------------------------------------------------------------------
(* The publisher                                                           *)

\* len(writable), or -1 without a map.
WritableCount(s) == IF s.writable = NoMap THEN -1 ELSE Cardinality(s.writable)

\* Forgets that a healed map brings new controls, ...
IdentityKey(s) == <<s.info \cap Named, 0>>

\* ... or that a manufacturer may be found after the UID.
KnownKey(s) == <<Named, WritableCount(s)>>

\* What a publication of the discovery depends on: not the UID, though the messages
\* name it.
InfoKey(s) == <<s.info \cap Named, WritableCount(s)>>

\* Leaves the switches, selects and numbers of earlier runs alone.
WipeSensors(b) == [b EXCEPT !.sensors = @ \ active, !.composite = FALSE]

\* wipeDeviceDiscovery: every topic of a metric that is polled.
Wipe(b) ==
  [b EXCEPT !.sensors = @ \ active, !.controls = @ \ active, !.composite = FALSE]

\* publishWritableDiscovery: the metrics with a value that the device can set.
Controls(s) == {e \in active \cap s.metrics \cap s.writable : MetricSpec(e).control}

\* ensureDiscovery: nothing for a device without an identity, or when nothing
\* of the key has changed.
EnsureDiscovery(s) ==
  IF ~Known(s.info) \/ published = InfoKey(s) THEN UNCHANGED mqttVars
  ELSE LET b == Wipe(broker)
       IN /\ broker' = [sensors   |-> b.sensors \cup active,
                        controls  |-> b.controls \cup Controls(s),
                        composite |-> HasComposite,
                        info |-> s.info, map |-> s.writable]
          /\ published' = InfoKey(s)

\* PublishDeviceState of the state that waits.
Publish ==
  /\ queued # NoState
  /\ queued' = NoState
  /\ IF queued.ok /\ queued.metrics # {} THEN EnsureDiscovery(queued) ELSE UNCHANGED mqttVars
  /\ UNCHANGED <<node, discVars, cacheVars, lost, boundVars>>

-----------------------------------------------------------------------------
\* The bridge starts again; there may be another device at the address now.
Restart ==
  /\ restarts < MaxRestarts /\ restarts' = restarts + 1
  /\ node' \in Nodes
  /\ pc' = "eoj" /\ eoj' = Configured /\ active' = {}
  /\ info' = {} /\ writable' = NoMap /\ metrics' = {} /\ raw' = {} /\ pushed' = {}
  /\ queued' = NoState /\ published' = <<>>
  /\ UNCHANGED <<broker, lost, pushes>>

Next ==
  \/ Discover \/ Heal \/ Refresh \/ Publish \/ Restart
  \/ \E iv \in Intervals : Scrape(iv)
  \/ \E ps \in SUBSET (DOMAIN node.data \cap Polled) :
       ps # {} /\ Cardinality(ps) <= MaxProps /\ Push(ps)

Spec == Init /\ [][Next]_vars

\* Queries end, tickers tick, pushes grow old, the cooldown ends and the
\* publisher's worker runs: it is woken for every state and much faster than the
\* scrapes, so a failure does not replace every good state before it is seen.
\* Nobody need send notifications, refresh or restart.
FairSpec ==
  /\ Spec
  /\ WF_vars(Discover) /\ WF_vars(Heal) /\ WF_vars(Publish) /\ SF_vars(queued.ok /\ Publish)
  /\ \A iv \in Intervals : WF_vars(FullScrape(iv))

-----------------------------------------------------------------------------
(* Properties                                                              *)

Infos == SUBSET Fields
Maps  == {NoMap} \cup SUBSET Bytes

TypeOK ==
  /\ node \in Nodes
  /\ pc \in {"eoj", "info", "readable", "writable", "skipped", "scraping"}
  /\ SameClass(eoj, Configured) /\ eoj \in EOJs
  /\ active \subseteq SpecEPCs /\ raw \subseteq metrics /\ metrics \subseteq active
  /\ info \in Infos /\ writable \in Maps /\ pushed \subseteq Polled
  /\ queued \in {NoState} \cup [ok : BOOLEAN, info : Infos, writable : Maps,
                               metrics : SUBSET SpecEPCs]
  /\ published \in {<<>>} \cup (Infos \X Int)
  /\ broker \in [sensors : SUBSET SpecEPCs, controls : SUBSET SpecEPCs,
                 composite : BOOLEAN, info : Infos, map : Maps]
  /\ lost \in 0..MaxLost /\ pushes \in 0..MaxPushes /\ restarts \in 0..MaxRestarts

\* The instance of the class that is polled is one the device has, whatever
\* instance is configured and whether or not the device lists its objects,
\* as long as nothing is lost and the device refuses what it does not have.
PolledInstanceExists ==
  pc # "eoj" /\ lost = 0 /\ node.refuses
  /\ (\E o \in node.eojs : SameClass(o, Configured) /\ o[3] \in 1..15)
  => Exists /\ SameClass(eoj, Configured)

\* The EPCs of a scrape that leaves nothing out.
Batches(epcs) == {l.ask : l \in Loop(epcs, {})}

\* The initial states, one for each node: what is not about the state is
\* evaluated there.
AtStart == pc = "eoj" /\ restarts = 0

\* Asking in halves is worth it: getPropsAdaptive returns exactly what the
\* device has, though it answers no more than limit at once; and if one
\* of its requests is lost, what it returns is right and lacks nothing that
\* was not in that request.
AdaptiveGetIsComplete ==
  AtStart =>
    \A epcs \in (SUBSET SpecEPCs) \ {{}} : \A q \in Batches(epcs) :
      /\ GetsAllBut({}, node, q, NoRequest)
      /\ \A d \in Requests(q) : GetsAllBut(EPCsOf(q, d[1], d[2]), node, q, d)

Dist(a, b) == IF a > b THEN a - b ELSE b - a

\* What size bytes can hold.
Lowest(size, signed) == IF signed THEN -(256^size \div 2) ELSE 0
Highest(size, signed) == Lowest(size, signed) + 256^size - 1

\* v is read back as the nearest value of the property, and is a value of it if
\* the loader says so.
ReadsBack(v, size, signed) ==
  LET range == Lowest(size, signed)..Highest(size, signed)
      back  == ParseInteger(EncodeValueToEDT(v, size, signed), signed)
  IN /\ back \in range
     /\ \A u \in {v, Lowest(size, signed), Highest(size, signed)} \cap range :
          Dist(v, back) <= Dist(v, u)
     /\ EnumValueFits(v, size, signed) <=> back = v

\* A value that is set and read back is the value that was set, or the nearest
\* one the property can hold; and the values the loader admits for an enum are
\* those that read back unchanged, no fewer and no more.  EncodeValueToEDT,
\* parseInteger and enumValueFits each have their own idea of sign and width.
SetReadsBack ==
  AtStart => \A size \in Sizes, signed \in BOOLEAN, v \in RawValues : ReadsBack(v, size, signed)

MapsRoundTrip == \A epcs \in PropertyMaps : DecodePropertyMap(EncodePropertyMap(epcs)) = epcs

\* The answer to a batch.
Props(q) == [i \in DOMAIN q |-> [epc |-> q[i], edt |-> Edt(node, q[i])]]

\* A property map is read as the device wrote it, on both sides of the limit of
\* sixteen properties where the format changes (decodePropertyMap); and of a frame
\* that was cut anywhere, parseFrame returns the properties that are whole, and no
\* other.
DecodesWhatWasSent ==
  AtStart => /\ MapsRoundTrip
             /\ \A q \in Batches(SpecEPCs) : \A n \in 0..Len(EncodeProps(Props(q))) :
                  CutFrameIsSafe(Props(q), n)

\* Of the series of an enum no two are the same - one pair would make Prometheus
\* refuse all metrics of the bridge - and the one that is 1 is the one of the
\* device's value, if the specification has it.  Labels may become equal when they
\* are sanitized (buildEnumMeta), but none may end like a label that was given its
\* value: that is not looked for.
ExportsOneState ==
  AtStart => \A enum \in Enums : ~Ambiguous(enum) =>
               IsInjective(StateLabels(enum)) /\ \A r \in RawValues : OneHot(enum, r)

\* Whatever a user may choose of an entity as it was offered in the discovery is
\* accepted by the commander, and once the device has taken what is written the
\* publisher shows the choice, whatever the registers held before; a step of half
\* a degree, as Matter bridges send them, is neither lost nor turned around by the
\* rounding to whole degrees.
ShownAsSet ==
  AtStart =>
    /\ \A regs \in Registers :
         /\ \A cl \in Climates : ClimateShownAsSet(cl, regs)
         /\ \A lt \in Lights : LightShownAsSet(lt, regs)
         /\ \A m \in Writables : WritableShownAsSet(m, RawValues, regs)
    /\ \A prev \in SetPoints : \A t \in (10 * prev - 12)..(10 * prev + 12) : StepMoves(t, prev)

\* Home Assistant is offered no control of a polled metric that the device
\* cannot set, neither after a restart that finds another device nor with the
\* messages earlier runs left at the broker.
ControlsAreSettable ==
  published # <<>> => broker.controls \cap active \subseteq node.settable

\* Until the scrapers run there is no value and nothing to publish.
QuietUntilScraping ==
  pc # "scraping" => metrics = {} /\ queued = NoState /\ published = <<>>

\* A writable map, in the cache or in a state that waits, is the one of the
\* device that is at the address now.
MapsAreTheDevices ==
  /\ writable \in {NoMap, node.settable}
  /\ queued # NoState => queued.writable \in {NoMap, node.settable}

\* The invariant the proofs use.
IndInv ==
  /\ TypeOK /\ QuietUntilScraping /\ MapsAreTheDevices
  /\ PolledInstanceExists /\ ControlsAreSettable

\* The metrics a device has a valid value of, among those it is asked for.
Answerable == active \cap node.valid

\* The scrapes of a device that is polled at the right object bring every value
\* it has, and never one that it calls invalid or does not have; what was stored
\* without its multiplier, because half of a batch was lost or a notification came
\* without it, is replaced, unless the device does not have the multiplier.
ScrapesConverge ==
  <>[](pc = "scraping" /\ Exists) => <>[](metrics = Answerable /\ raw = Unscaled(Answerable, DOMAIN node.data))

\* The discovery messages catch up with the cache: with the manufacturer and the
\* product code, whenever they were found or lost, and with the writable map, healed
\* or not.  They need not with the UID, which they name as an identifier but the
\* key leaves out: one that is found after the manufacturer is published with the next
\* change of the key, if there is one.
DiscoveryFollowsCache ==
  <>[](pc = "scraping" /\ Exists) =>
    <>[](Answerable # {} /\ Known(info) =>
           /\ active \subseteq broker.sensors
           /\ broker.composite = HasComposite
           /\ broker.info \cap Named = info \cap Named
           /\ broker.map = writable)
=============================================================================
