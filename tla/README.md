# TLA+ models of EchonetGO

EchonetGO bridges ECHONET Lite devices (UDP, port 3610) to MQTT / Home Assistant
and Prometheus. This directory holds TLA+ models of its concurrent core, TLC
configurations for small instances, and TLAPS proofs. Line numbers below and in
`PROJECT.json` refer to the Go sources of this commit.

    tlc -workers 2 -config Transport_hosts.cfg MCTransport     # one run
    tlapm TransportProofs.tla                                  # one proof module

## 1. The system

    scrapers, discovery,      Client      Transport                devices
    reconciler, refresher, ── GetProps ── host mutexes, TIDs, ════ (UDP 3610)
    command handlers          SendSet     waiter table, socket        ║
          │                                   │ infChan               ║
          ▼                                   ▼                       ║
        Cache  ◄──────────── Notifier (INF/INFC) ◄════════════════════╝
          │ callback with a snapshot, after unlocking
          ▼
      Publisher (pending map, wake channel, worker) ══ MQTT broker ══ Home Assistant
          ▲ OnConnect handlers                             │ commands
          └──────────── Commander ◄────────────────────────┘
    Readiness (/ready), Prometheus collector: read what the others keep

| Component | State | Operations | What makes it correct |
|---|---|---|---|
| UDP transport (`internal/echonet/transport.go`) | host mutexes, TID counter, waiter and expired-waiter tables, the shared socket, `infChan` | `Send`, `SendFireAndForget`, receiver goroutine, `JoinMulticast`, `Close` | an answer reaches the call it answers; no call blocks for ever; one socket on 3610 |
| Client (`client.go`) | none | `GetProps` (splits a batch after Get_SNA), `GetDeviceInfo`, property maps, `SendSet(I)`, `ParsePropsToMetrics` | partial and empty answers are told apart from failures |
| Frame codec (`protocol.go`, `encoder.go`) | none | parsing, building, property maps, value encoding | decoding inverts encoding; out-of-range values are refused |
| Notification handler (`notification.go`) | none | acknowledge INFC, ingest INF | a notification updates the cache and suppresses only polls it makes superfluous |
| Cache (`internal/poller/cache.go`) | metrics, group status, pushes, EOJs, identity, capability maps | `Update`, `MergeMetrics`, `IngestNotification`, `ShouldSkipPoll`, setters, callbacks | follows the device; what is known is not forgotten |
| Scheduler (`scheduler.go`) | goroutines and tickers | `Start`, `discoverDeviceState`, `scrapeOnce`, refresher | every device ends up scraped; start-up ends |
| Reconciler (`reconciler.go`) | cooldown stamps, singleflight group | `ReconcileDevice`, `RefreshDevice`, `doReconcile` | heals what start-up missed, announces it, does not hammer the device |
| Publish pipeline (`internal/mqtt/publisher.go`) | `pending`, `wake`, `stop`, `done` | `EnqueueDeviceState`, worker, `Disconnect` | latest state of every device is published; shutdown flushes |
| MQTT session, discovery (`publisher.go`, `discovery.go`) | connection, OnConnect callbacks, `published` | connect, reconnect, `RegisterOnConnect`, `ensureDiscovery`, `publishBridgeDevice` | subscriptions and retained messages come back |
| Commander (`commander.go`) | goroutines | the command handlers, `verifyStateUpdate`, `triggerStateUpdate` | what is shown after a command is what the device has |
| Readiness and start-up (`internal/api`, `cmd/echonetgo/main.go`) | registered and ready components | `Register`, `MarkReady`, `Status`, `main` | ready means started, and happens |
| Specifications (`internal/specs`) | none after start-up | loading, validation, super class merge, `WritableEntityType` | what is admitted can be polled, set and shown |
| Prometheus collector (`internal/metrics`) | none | `Collect` | one series per state, no two alike |
| Configuration, manufacturer table, logging, tools | read once, or none | | not modelled (section 7) |

What is hard in this code is almost all concurrency and failure: frames arrive
late, twice or never and TIDs are 16 bits wide; locks are released between
reading a device and merging the answer; snapshots leave the cache's critical
section before they are enqueued; goroutines of several commands race; a device
is offline at start-up; the broker restarts. `PROJECT.json` lists these hazards
with their lines and the properties that watch them.

## 2. Modules and the code

A variable keeps the name of the Go field where there is one; an action stands
for the statements between two points where another goroutine can interfere (a
lock taken or released, a channel operation, I/O). Payloads are abstracted to
small sets and time to "may have passed". Every definition that models code has
its lines in `PROJECT.json`; definitions marked external there stand for the
network, the device, the broker, the clock and `singleflight`. Definitions that
describe a plausible bug (`AnyHostFree`, `StopWithoutFlush`, ...) stand just
before the definition they would replace; each property is violated when one of
them does.

**Transport** - callers are goroutines inside `Send` or `SendFireAndForget`; `pc`
names the next statement. `Lock`, `Attempt`, `Register`, `Write`,
`ResetFixedConn`, `Reconnect`, `Rewrite`, `Receive`/`Expire`, `Unregister`,
`Ephemeral`, `EphemeralRead`, `Unlock` follow `Send`, `sendWithRetry`,
`sendFromPort`, `sendViaSharedFixedPort` and `writeAndRead` in order, `Fire*`
the fire-and-forget path. The receiver goroutine of each socket looks a waiter up
(`RxMatch`) and delivers (`RxDeliver`) in two steps, as the code does after it
has released `mu`. The network may deliver a reply to anything ever sent, any
number of times, and notifications with any TID. `TID(n) == n % TidMod` keeps the
truncation to 16 bits.

**Coalescer, PublishPipeline** - `Coalescer` is the promise of
`EnqueueDeviceState`: a slot per device, a newer offer replaces an older one, a
courier empties the slots. `PublishPipeline` is the code: the cache's snapshot
taken under `c.mu` (`Merge`, `Touch`), stored in `pending` (`Store`), signalled
(`Wake`), drained by the worker one device at a time (`DrainTake`, `Publish`,
`PublishPanics`), and `Disconnect` (`CloseStop`, `WaitDone` with its timeout,
`Disconnected`). A device's metrics are a version number.

**Reconciler** - one device: `discoverDeviceState` (`Discover*`), the callers of
`ReconcileDevice` (`AfterScrape`, `Command`), the refresher (`Refresh`, `DoRefresh`) and
the flight they share (`stage`). Whoever hands a state to the publisher takes it under
`c.mu` (`Scrape`, `Merge`, `TriggerUpdate`) and calls the callback after it has unlocked
(`Report`, `Announce`), so states overtake each other. `GetProps` and `GetDeviceInfo` give the set of
answers the client may return, with Get_SNA, partial batches and failures; `GetMap`
has what becomes of a refused map. `told` is what the publisher was handed last;
`reported` and `announced` are history variables of `HealedIsAnnounced`.

**CacheSync** - one device's registers and cached metrics. `scrapeOnce` is
`ScrapeStart`, a step of `ScrapeLoop` per metric (duplicates, multipliers, skipped EPCs;
`ShouldSkipPoll` takes the cache's lock every time, so pushes come in between),
`ScrapeRead` and `ScrapeMerge`; `Ingest` and
`IngestMerge` those of a notification; `ReadProps` and `ReadMerge` those of a read
after a command. Time passes in scrape ticks; a push suppresses the two that follow it. A property without usable data is
`Nil`; a cached metric remembers the multiplier it was scaled by.

**Commander** - a handler is a record of what it does: EPCs gated by the SETMAP,
an EPC set first, the main EPC, what is read back on failure, SetI or SetC. Handlers
that do the same are equal values. `Receive`, `PreSet`, `MainSet`, `MainSetI` run a
command; goroutines left behind (`Verify`, `Reread`) take `ReadBack`, `ReadFails`,
`Unreadable`, `Merge`, `Cancelled` steps. The device refuses, applies, applies late
or ignores a SetC, independently of whether its answer arrives.

**Session** - `main`'s start-up order, one goroutine of `Scheduler.Start` per host,
connections made and lost, OnConnect handlers and the runs of the commander's
callback they start, `readyOnce`, the bridge device and the gate of
`ensureDiscovery`. A topic is subscribed to (`subs`) or was refused or timed out on
the current connection (`refused`); `readyFunc` is called after either.

**Codec, Client** - operators, not state machines. `Codec` has the bytes: property
maps in both formats, instance lists, the properties of a frame, integers with sign
and width. `Client` has what is built on them: `GetProps` is `getPropsAdaptive` with its
halving (a request is an interval of the batch, the one that is lost a parameter, and
the calls of all intervals are tabulated by the levels of splitting they have left),
`Parses` the check of a value, `ResolveEOJ` the node profile and the sweep over
instances. A node is a record of the bytes it answers and of how it misbehaves;
`NodesAssumption` of Entities says what is expected of one: the objects it lists are its
own, it answers at least one property at once, the length of an answer is a byte, and
its writable map has the format of the standard (`IsPropertyMap`).

**Entities** - one configured device composed from the two, from the first query to
its messages at the broker: `discoverDeviceState` in four steps, `scrapeOnce` per scrape
group (`Loop` is the loop that builds the batch, `AddMetric` one metric of it), notifications, healing and refreshes, the publisher with `ensureDiscovery` and
the wipe, restarts that find another device at the address. What other modules have in
detail is one step here: a flight, an update of the cache, a publication.
The cache is the set of metrics with a value and those of them that lack their
multiplier. The identity is the set of its fields that are known; `InfoKey` has the
manufacturer, the product code and the size of the writable map, like `infoKey`, and not
the UID.

**HomeAssistant** - operators for the three places that must agree about an entity:
`Offer...` (discovery), `Set...` (commander), `Show...` (publisher), for climate, lights,
switches, selects and numbers, and `normalizeClimateSetpoint`. What the parts of a
specification must agree on for that - no two modes with one value, colours called as in
the enum of their metric, a range for a number with a sign - is `ConsistentClimate`,
`ConsistentLight` and `ConsistentWritable`. The loader does not check it; the entities
Entities is checked with are those of `etc/specs`, and `SurfacesAssumption` has TLC check
that they are consistent.

**Loader, Collector** - operators for what the loader admits and fills in, and for
the series the collector makes of an enum. A label is a pair of a text and the values
it was given as suffixes, so that `_0x32` in a label of the specification and the same
generated by `buildEnumMeta` are equal. The specification Entities is checked
with is the one `LoadSpec` makes of its YAML (`SpecsAreLoaded`).

`CacheSync`, `Commander` and `PublishPipeline` meet in the cache: the first two
end in a merge, which is the `Merge` with which the third begins. `Transport` is
below all of them; they use its promise that a call returns an answer to its own
request or an error, and its failures as "a query may fail".

## 3. Runs

Passing runs. `IndInv` is the inductive invariant of the proofs, and has the type
invariant as its first part; it is checked in every module.

| Run | Instance | Shows |
|---|---|---|
| `transport_hosts` | 2 callers, 2 hosts, 2 requests, 2 attempts, 2 sockets, 1 expired entry, TIDs that do not wrap, strict source port | concurrent calls on one socket: `AnswersOwnRequest`, `SingleSocket`, `OnlyShutdownCloses`, `ExpiredBounded` |
| `transport_wrap` | 2 callers, 1 host, every TID equal, INF with that TID, ephemeral fallback | `WaiterIntact`, `NoOrphanWaiter` when keys collide; `CallReturns` |
| `pipeline` | 2 writers, 2 devices, 1 merge each, 1 panic | `NoLostWakeup`, `CleanDisconnectFlushes`; the pipeline implements the Coalescer with its fairness |
| `reconciler` | 2 tasks, a scraper, a writer of other states and the refresher, a device that goes away or comes back once and answers in part until it calms down | `HealedIsAnnounced`, `WaitersHaveFlight`, `IdentityNeverLost`, `MapsNeverLost`, `Heals` |
| `cachesync` | an energy counter, its unit, a second metric on the counter; 1 change, push, failed scrape and command read each | `PolledAreRequested`, `CacheConverges`, `SuccessReturns` |
| `commander` | 2 commands by any handler with any payload; one property the device neither sets nor shows; 1 failing read | `NoOptimisticLies`, `NoBounce`, `WritesAreReread` |
| `entities` | a distribution board's specification, 4 nodes (several instances, a limit per answer, refused or missing maps, invalid values, no UID, no manufacturer or no product code), 2 losses, 1 notification of one or two properties, 1 restart | the device: `PolledInstanceExists`, `AdaptiveGetIsComplete`, `ScrapesConverge`; the bytes: `DecodesWhatWasSent`, `SetReadsBack`; what is shown of it: `ControlsAreSettable`, `DiscoveryFollowsCache`, `ShownAsSet`, `ExportsOneState` |
| `session` | 2 hosts, 2 topics, 2 connections, 1 failed subscription, broker and client that lose messages | `ReadyMeansTried` (`ReadyInOrder`, `NoTopicLeftOut`), `BecomesReady`, `Reconnects` (`Resubscribed`, `BridgeSurvives`) |

Runs that end in a violation: the code disagrees with what the repository says.

| Run | Says | Does |
|---|---|---|
| `pipeline_stale` | "coalesce: latest state wins" (`publisher.go:158`) | `Update`/`MergeMetrics` call the callback after unlocking, so of two concurrent snapshots the older can be enqueued last and stay published until the next update |
| `reconciler_sna` | "Handled `Get_SNA` (0x52) for unsupported capability maps" (`CHANGELOG.md:8` of the add-on) | `getPropsAdaptive` turns Get_SNA into an empty answer and the map functions into a plain error, so `IsGetSNA` is never true and the map is asked for after every cooldown |
| `commander_mode` | "verifies that the device registers reflect the requested value" (`README.md:18`) | `handleClimateMode` powers the device on before it looks the mode up; an unknown mode returns without any read-back |
| `session_discovery` | "The OnConnect handler reconciles discovery and subscriptions once connected" (`publisher.go:111`) | only the bridge device is published again; `ensureDiscovery` skips a device it has published, so after a broker lost its retained messages the devices are gone |

More of the same kind are visible in the models and described with the
hazards: `Run` says of `readyFunc` that "it is called once all subscriptions have
succeeded" (`commander.go:77`), but the code calls it after subscriptions that failed or
timed out, too (`commander.go:112`); the model follows the code, and `ReadyMeansTried`
claims no more than that every topic was tried. The discovery messages name the UID, but
the key that decides whether they are published again does not have it
(`discovery.go:119`). The `scrape_interval` of a device (`README.md:124`) has no effect, because the
loader has already given every metric an interval; `/metrics` has the metrics of the
class where a vendor specification is polled; a notification with the TID of a pending request is taken for its answer
(`RxMatch` does not look at the ESV), a refresh that joins a flight does not read
the identity, a pushed counter is cached unscaled until the next poll, and
`scrape_success` lapses when pushes make every poll of a device superfluous.

### Why the bounds are enough

*Transport.* Per-host mutexes make two calls interfere only through one key of
one host, the shared socket or the tables; two callers on one host and on two
hosts are the two cases. One retry shows every transition of the retry loop; since
only `Close` closes a socket (`OnlyShutdownCloses`), a second one is the last. A
call over an ephemeral socket is checked in `transport_wrap`; that it, too, returns
the answer to its own request is part of the proof. With `TidMod = 1` every two
requests collide, which the code needs 65536 requests to reach. The proofs do away
with these bounds. *Pipeline.* Interference is between two writers of a device,
the worker and `Disconnect`; a second device makes draining a loop. *Reconciler.*
State is per device. Two tasks are a leader and one who joins or comes late; a scraper,
a writer that does not reconcile (a notification, a read after a command) and the flight
are three that hand over states, and two are enough to overtake each other. The device is
up or down at the start and changes that once; until it calms down queries may fail while
it is up, too, which covers what a further absence could do to them. *CacheSync.* Convergence is
decided by the last change, push, failure and stale merge; one of each may come in
any order, and the other EPC may be pushed or not. *Commander.* Goroutines
interfere in pairs; two values tell requested from actual, `AllOffOrOn` starts from
both. Three attempts are the code's. *Session.* Two connections give the race of
registration and connection, and one reconnection. *Entities.* Two losses are one of
each of the two things the reconciler heals, or the node profile and a probe, or two
halves of a batch; the batches have up to four EPCs (the counter and its unit are both
metrics, as in `power_dist_board.yaml`), so the halving recurses twice. One
restart leaves messages of an earlier run. One device per host: that devices of a host
share `hostEOJCache` is not modelled. Metrics have an EPC each and scale 1; TLC's
integers limit the values to two bytes (the proof of `SetReadsBack` has four, too). The checks of operators look at the boundaries:
15, 16 and 17 properties, every column of the bitmap, every length of a frame, both
ends of the ranges of one and two bytes, signed and not, and all enums of four values
with labels that become equal, become empty or end in a value. The sets these inputs are
taken from are constants of Entities (`PropertyMaps`, `RawValues`, `Enums`, `Registers`,
...), so that its theorems are about all of them.

`CHECK_DEADLOCK FALSE` is given where bounded environments (requests, versions,
flaps, commands, connections) run dry or the program is stopped; `CacheSync` always
has a next tick and is checked for deadlock.

### Fairness

Weak fairness on the steps of a goroutine that can run: the Go scheduler is
preemptive, timers fire, and every blocking call has a timeout. In particular:
the transport's wait ends by its timer (`Expire` is part of `CallerStep`); tickers
tick (`ScrapeStep`, `Scrape`), and a state that was taken is handed over (`Report`); the cooldown passes (`CooldownOver`); paho keeps
reconnecting (`Connect`). Strong fairness only on taking a host's mutex: `sync.Mutex`
hands the lock to a waiter after a millisecond of starvation. Nothing is assumed of
the device, the network, the broker, users and shutdown, except by hypotheses inside
the properties ("stays up", "is quiet"): `Heals` assumes a device that stays up and
answers completely from some time on (`calm`), `Reconnects` a connection that stays (a topic that
failed on it is not tried again before the next one),
`ScrapesConverge` and `DiscoveryFollowsCache` that the object polled exists. In Entities
pushes grow old, so a scrape of the whole group is weakly fair, and the publisher is
strongly fair towards good states: its worker is woken for each and much faster than
the scrapes, so that not every good state is replaced by a failed one before it is seen.

## 4. Proofs

For every value of the constants that satisfies the modules' assumptions (which
say that bounds are natural numbers, that markers are not members of the sets they
are added to, that a specification's EPCs are bytes, and what section 2 says of nodes
and of consistent specifications):

| Module | Theorems |
|---|---|
| `TransportProofs` | `Invariance`, `TypeCorrect`, `WaiterIntactAlways`, `NoOrphanWaiterAlways`, `AnswersOwnRequestAlways`, `SingleSocketAlways`, `OnlyShutdownClosesAlways`, `ExpiredBoundedAlways` |
| `PublishPipelineProofs` | `PipelineInvariance`, `PipelineTypeCorrect`, `NoLostWakeupAlways`, `CleanDisconnectFlushesAlways`, `PipelineRefinesCoalescer` |
| `ReconcilerProofs` | `ReconcilerInvariance`, `ReconcilerTypeCorrect`, `HealedIsAnnouncedAlways`, `WaitersHaveFlightAlways`, `IdentityNeverLostAlways`, `MapsNeverLostAlways` |
| `CacheSyncProofs` | `CacheSyncInvariance`, `CacheSyncTypeCorrect`, `PolledAreRequestedAlways` |
| `CommanderProofs` | `CommanderInvariance`, `CommanderTypeCorrect`, `NoOptimisticLiesAlways`, `NoBounceAlways`, `WritesHaveReaderAlways` |
| `SessionProofs` | `SessionInvariance`, `SessionTypeCorrect`, `ReadyMeansTriedAlways` |
| `ClientProofs` | `PropertyMapIsRead`, `MapIsWritten`, `CutFrameIsRead`, `ResolveKeepsClass`, `ResolveFindsInstance`, `AdaptiveGetIsRight`, `SetIsReadBack` |
| `EntitiesProofs` | `EntitiesInvariance`, `EntitiesTypeCorrect`, `PolledInstanceExistsAlways`, `ControlsAreSettableAlways`, `AdaptiveGetIsCompleteAlways`, `SetReadsBackAlways`, `DecodesWhatWasSentAlways`, `ExportsOneStateAlways`, `ShownAsSetAlways` |

*Transport.* `WaiterIntact` is not inductive: that nobody overwrites a caller's
entry needs that two registered callers never share a key, which follows from
the host mutex (`CallInv`: past `Lock` the caller owns its host's mutex), not from
the TIDs. `NoOrphanWaiter` is needed in turn so that removing one's own entry
removes nobody else's. `AnswersOwnRequest` needs `RoutedByKey` - a frame in the
receiver's hands, in a channel or returned carries the key of the caller it is
for - and `DistinctRequests`; that the TID determines the request is then arithmetic
on `n % TidMod` when the counter has not wrapped. `SocketInv` links the open
socket to `fixedConn`; `reset` happens only with a socket that is already closed,
hence `OnlyShutdownCloses`. `ExpiredBounded` is inductive together with the finiteness
of the table: whatever the clock makes stale, room is made before a key is added.

*Pipeline.* `NoLostWakeup` is preserved by `DrainEmpty` because the map is seen
empty under the lock, by `SelectWake` because a drain follows, and by `Store` because
the writer still has to signal. `CleanDisconnectFlushes` needs what the worker has
done at each of its states (`worker = "done"` implies that only states enqueued
after `stop` are pending). The refinement maps `pending` to the slots, `hand` to the
courier's hand and "the worker has not ended" to `open`; the final flush leads to
`Shut`.

*Reconciler.* `HealedIsAnnounced` is about the announcement, not about what the publisher
has in the end: an older state may be handed over after it, as `pipeline_stale` shows, and
that the next scrape repairs this is part of `Heals`. A map that is healed while a writer
holds a state without it counts from then on (`HealedWillBeAnnounced`), because the writer's
report makes `HealedIsAnnounced` speak. Both need that `updated` is never left set without a
flight (`FlightShape`) and that nothing is handed over before discovery has ended
(`DiscoveryFirst`), since discovery stores maps without announcing them.
`IdentityNeverLost` and `MapsNeverLost` follow from it: a success of `GetDeviceInfo`
may be empty only where no identity is known, because a batch without any
property is an error.

*CacheSync.* `PolledAreRequested` is about the end of a loop during which pushes may
arrive; `LoopInv` says that the metrics gone through have been seen and that what was
seen is asked for or skipped. What `ShouldSkipPoll` returns does not matter, as long as
a skipped EPC is remembered.

*Commander.* `NoOptimisticLies` needs that what a goroutine holds and is yet to merge
was read from the registers (`ReadsAreReal`); `NoBounce` that a verification with
attempts left merges only an answer that matches. `WritesHaveReader` is the safety half
of `WritesAreReread`: at no time is a property written, not read since, and without a
goroutine that is going to read and publish it. It needs `TaskIsFree` - the goroutine a
command leaves behind replaces no other.

*Session.* `NoTopicLeftOut` speaks of the time when all handlers and runs have
ended; before that, a topic that was neither subscribed to nor refused is still ahead of
some run or a handler is yet to start one (`TopicsAhead`), although runs overlap and
connections are lost in the middle of one. `StartupOrder` has the order of `main`.

*Client.* Induction is by the least counterexample (`InductionUpTo`, from the library's
theorem on well-founded relations), and that a recursive function exists at all is
`FiniteRecursion`. `AdaptiveGetIsRight` is by induction on the levels of splitting that
are left: an interval of no more than 2^levels EPCs is answered in full, because its
halves have no more than 2^(levels - 1) and one EPC alone is always answered
(`IntervalIsRight`); `maxAdaptiveSplitDepth` = 8 is enough for every batch that the
one-byte count of a frame allows. A lost request costs what was in it and no more,
because the other half does not depend on it. `ResolveFindsInstance` has two cases: the
list names the class (and then `SelectEOJ` takes one it names, however wrong the count
byte is), or the sweep passes every instance from 1 to 15 (`SweepCovers`).
`SetIsReadBack` unfolds the loop of `parseInteger` for one, two and four bytes and puts
the bytes together again (`TwoBytes`, `FourBytes`). `MapIsWritten` needs that the device's
list has every property once (`AscendingFacts`: the rank of a number in a finite set is
a bijection) and that any eight bits make a byte (`ByteOfBits`); together with
`PropertyMapIsRead` the two formats are inverse on every set of properties. For
`CutFrameIsRead` a frame is cut into the bytes of its first k properties, for every k
(`WrittenInTurn`, `WrittenIsPrefix`); the loop of `parseFrame`, at the place where
property k begins, reads it if it is whole (`WholePropertyIsRead`) and stops if it is
not, and by induction on the properties left it returns those up to the first that is not.

*Entities.* `ControlsAreSettable` needs that every writable map about - in the cache or
in the state that waits for the publisher - is the one of the device that is there now
(`MapsAreTheDevices`, by `PropertyMapIsRead`), and that nothing was published before the
scrapers ran, when the polled metrics may still change (`QuietUntilScraping`); then the
wipe takes away what earlier runs left. `PolledInstanceExists` follows from
`ResolveFindsInstance`: with nothing lost no query was silent. For `AdaptiveGetIsComplete`
the loop of `scrapeOnce` is shown to ask for no EPC twice, so a batch has at most 255,
and for at least one (`LoopFacts`). `SetReadsBack` is `SetIsReadBack` and that `Clamp`
is the nearest value (`ClampIsNearest`). It does not depend on the state, and neither do
the last three. `DecodesWhatWasSent` puts `MapIsWritten`, `PropertyMapIsRead` and
`CutFrameIsRead` together. For `ExportsOneState`, the label of a value is its sanitized one or that
with the value as a suffix (`LabelsUnfold`): two suffixed ones differ in the suffix, two
plain ones because the second would have been found in use, and a suffixed and a plain
one because the enum is not ambiguous (`LabelsDiffer`). `ShownAsSet` rests on one fact, that
a value a property can hold is read from the registers after it was put there
(`ReadPut`, from `ClampIsNearest`); the rest is what the three readings of an entity have in
common, by kind (`ClimateIsShown`, `LightIsShown`, `WritableIsShown`), and `StepIsKept`,
arithmetic on tenths of a degree for every set point.

## 5. Only model-checked

Liveness and the fairness part of the refinement (`CallReturns`,
`ImplementsCoalescer`, `Heals`, `CacheConverges`, `SuccessReturns`,
`ScrapesConverge`, `DiscoveryFollowsCache`, `WritesAreReread`, `BecomesReady`,
`Reconnects`) are out of the prover's reach. Every safety invariant and every action
property of the passing runs is a theorem; of the refinement, the initial states and the
steps are (`PipelineRefinesCoalescer`), and of `WritesAreReread` the safety half is
(`WritesHaveReaderAlways`). The runs that end in a violation show what the code does on one
instance; there is nothing to prove about them.

What the theorems assume and TLC evaluates for the instances only: that the specifications
of the repository are consistent (`SurfacesAssumption`), and that a device is one as
`NodesAssumption` says. The operator `SanitizeEnumLabel` is a parameter: nothing but that it
returns a text and a sequence of integers is used of it.

## 6. Plan

1. Transport, Coalescer and PublishPipeline, Reconciler, CacheSync, Commander,
   Session, with their runs; proofs for the first three. *Done.*
2. Codec, Client, Entities, HomeAssistant, Loader, Collector: one device from its bytes
   to its entities. *Done.*
3. Proofs: CacheSync, Commander, Session, `ExpiredBounded`, Client and Entities,
   and that a value that is set is read back, for every width. *Done.*
4. Proofs of the codecs and the surfaces: property maps written and read, cut frames,
   the labels of an enum, what is offered is shown as it was set. *Done.*
5. What is left: the devices of one host sharing `hostEOJCache`; the consistency of the
   specifications as a check of the loader, from which `SurfacesAssumption` would follow.

## 7. Not modelled

Configuration and the manufacturer table: read at start-up, constants of the models.
Logging has no effect on the state. Of the specifications, the metadata inferred from
names and the scale check (floating-point factors are out of TLC's reach, so scaling
is whether a multiplier was applied). Of the collector, the series that copy a cached
number. Topics, JSON, names, units and precision of the messages are formatting; the
twelve header bytes of a frame are constants. Multicast interface selection is I/O.
Panics outside the publish worker and start-up have no modelled cause. Several devices
of one host meet only in the transport's mutex and in `hostEOJCache`, which saves
queries. Time is not measured, so deadlines that are used up while waiting for a mutex
are modelled as "may pass at any step" and no property is about durations.
