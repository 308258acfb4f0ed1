------------------------------ MODULE Reconciler ------------------------------
(***************************************************************************)
(* What the bridge knows of one device, and how it keeps finding out:      *)
(* Scheduler.discoverDeviceState at startup, and CapabilityReconciler      *)
(* (internal/poller/reconciler.go), called after successful scrapes, by    *)
(* commands to a device without a writable map, and every six hours by the *)
(* device info refresher.  All of them go through Client.GetProps          *)
(* (internal/echonet/client.go) and write the same Cache entry.            *)
(*                                                                         *)
(* The reconciler keeps its state per device key, so one device is enough. *)
(* Time is abstracted to whether the cooldown is running.                  *)
(*                                                                         *)
(* Whoever changes the cache takes a snapshot under its lock and hands it  *)
(* to the publisher after letting go of it, so these are two steps, and    *)
(* somebody else's may come in between.                                    *)
(***************************************************************************)
EXTENDS Naturals

CONSTANTS
  Tasks,                 \* goroutines ReconcileDevice may have running (bound)
  Scrapers,              \* goroutines that scrape the device, one per group
  Mergers,               \* goroutines that merge what it sent otherwise (bound)
  Supports,              \* the maps the device has: a subset of MapEPCs
  ClassFields,           \* identity fields it has at its class EOJ
  NodeFields,            \* and at its node profile
  ConfigInfo,            \* identity fields the configuration supplies
  NotificationsEnabled,
  MaxFlaps               \* bound: how often the device goes away or comes back

MapEPCs == {"9E", "9D"}             \* SETMAP, STATMAP
Fields  == {"uid", "mfg", "code"}   \* EPCs 0x83, 0x8A, 0x8C of DeviceInfo

ASSUME SupportsAssumption == Supports \subseteq MapEPCs
ASSUME FieldsAssumption == ClassFields \subseteq Fields /\ NodeFields \subseteq Fields
ASSUME ConfigAssumption == ConfigInfo \subseteq {"mfg", "code"}
ASSUME BoundsAssumption == /\ MaxFlaps \in Nat
                           /\ NotificationsEnabled \in BOOLEAN

VARIABLES
  up, flaps,   \* the device answers
  calm,        \* from now on nothing competes with the bridge for the device
  dpc,         \* where discoverDeviceState is
  eojKnown,    \* Cache.eojByDev has the device
  active,      \* some configured metric is readable
  maps,        \* Cache.writableEPCs and notifyEPCs, by map EPC
  info,        \* Cache.info: the identity fields known
  told,        \* the successful state the publisher was handed last
  reported,    \* history: a writer has handed one over
  announced,   \* history: so has somebody of one with the writable map
  writer,      \* per writer: "idle", "scraped" or "merged" (the cache, not yet told),
               \* "told" (a scraper about to call the reconciler)
  held,        \* the state a writer has in hand
  cooling,     \* time.Since(lastAttempt) < reconcileCooldown
  task,        \* per goroutine: "idle", "spawned", "waiting" (in sf.Do)
  rpc,         \* the refresher: "idle", "spawned", "waiting"
  stage,       \* of the flight: "none", "refresh", "9E", "9D", "info", "end", "tell",
               \* "land"
  asking,      \* the stage's query is under way
  updated,     \* doReconcile's local of that name
  news,        \* the state TriggerUpdate has in hand
  expired      \* the flight's context is over

envVars    == <<up, flaps, calm>>
discVars   == <<dpc, eojKnown, active>>
pubVars    == <<told, reported, announced>>
writerVars == <<writer, held>>
flightVars == <<stage, asking, updated, news, expired>>
vars == <<envVars, discVars, maps, info, pubVars, writerVars, cooling, task, rpc,
          flightVars>>

Writers == Scrapers \cup Mergers

Nothing == [writable |-> "absent", known |-> FALSE]

Init ==
  /\ up \in BOOLEAN /\ flaps = 0 /\ calm = FALSE
  /\ dpc = "info" /\ eojKnown = FALSE /\ active = TRUE
  /\ maps = [m \in MapEPCs |-> "absent"]
  /\ info = {}
  /\ told = Nothing /\ reported = FALSE /\ announced = FALSE
  /\ writer = [w \in Writers |-> "idle"] /\ held = [w \in Writers |-> Nothing]
  /\ cooling = FALSE
  /\ task = [t \in Tasks |-> "idle"]
  /\ rpc = "idle"
  /\ stage = "none" /\ asking = FALSE /\ updated = FALSE /\ news = Nothing
  /\ expired = FALSE

-----------------------------------------------------------------------------
(* Client                                                                  *)

Err == {"error"}

\* An empty answer to a batch is reported as a success.
EmptyBatchOk(epcs, has) ==
  IF ~up THEN {Err}
  ELSE {epcs \cap has} \cup IF calm THEN {} ELSE {Err} \cup SUBSET (epcs \cap has)

Several(epcs) == \E a, b \in epcs : a # b

\* getPropsAdaptive on the EPCs of an identity.  Get_SNA is not an error: the
\* properties with data count, the rest is asked for again in halves, whose
\* errors are skipped.  One EPC without data is an empty answer, several
\* without any are an error.
GetProps(epcs, has) ==
  LET full == IF Several(epcs) /\ epcs \cap has = {} THEN Err ELSE epcs \cap has
      partial == {s \in SUBSET (epcs \cap has) : Several(epcs) => s # {}}
  IN IF ~up THEN {Err}
     ELSE {full} \cup IF calm THEN {} ELSE {Err} \cup partial

\* GetDeviceInfo: the class EOJ first, then the node profile for what is
\* missing; an error of either discards what the other gave.  A model from the
\* configuration spares the product code.
GetDeviceInfo ==
  LET known == ConfigInfo \cap {"code"}
      second(got) == IF got = Fields THEN {{}} ELSE GetProps(Fields \ got, NodeFields)
  IN UNION {IF r1 = Err THEN {Err}
            ELSE {IF r2 = Err THEN Err ELSE r1 \cup known \cup r2 : r2 \in second(r1 \cup known)}
            : r1 \in GetProps(Fields \ known, ClassFields)}

\* GetWritablePropertyMap, GetNotificationPropertyMap: the device refuses a
\* map it does not have with Get_SNA, GetProps makes an empty answer of it and
\* the caller a plain error, which IsGetSNA does not recognise.
GetMap(m) == IF ~up THEN "error" ELSE IF m \in Supports THEN "map" ELSE "missing"

IsGetSNA(r) == r = "Get_SNA"

-----------------------------------------------------------------------------
(* Cache                                                                   *)

HasMap(m) == maps[m] # "absent"

HasDeviceInfo == info \cap {"uid", "mfg"} # {}

\* UpdateInfo overwrites the identity, filling gaps from the configuration.
UpdateInfo(i) == info' = i \cup ConfigInfo

\* Treats every failure as an unsupported map.
StoreAnything(m, r) == maps' = [maps EXCEPT ![m] = IF r = "map" THEN r ELSE "empty"]

\* SetWritableEPCs, SetNotificationEPCs: an unsupported map is stored empty.
StoreMap(m, r) ==
  maps' = IF r = "map" THEN [maps EXCEPT ![m] = "map"]
          ELSE IF IsGetSNA(r) THEN [maps EXCEPT ![m] = "empty"] ELSE maps

\* snapshotLocked: the DeviceState of a successful callback, of which the
\* writable map and whether it has an identity matter here.
Snapshot == [writable |-> maps["9E"], known |-> HasDeviceInfo]

\* The callback, with a state taken earlier.
Tell(state) ==
  /\ told' = state
  /\ announced' = (announced \/ state.writable # "absent")

-----------------------------------------------------------------------------
(* discoverDeviceState                                                     *)

\* The identity and SetDeviceEOJ.  The specification of the vendor, for which
\* the manufacturer is asked for again after an error, makes no difference here.
DiscoverInfo ==
  /\ dpc = "info"
  /\ \E r \in GetDeviceInfo :
       UpdateInfo(IF r = Err THEN {} ELSE r)
  /\ eojKnown' = TRUE
  /\ dpc' = "readable"
  /\ UNCHANGED <<envVars, active, maps, pubVars, writerVars, cooling, task, rpc, flightVars>>

\* The readable map filters the configured metrics; without it all are kept.
DiscoverReadable ==
  /\ dpc = "readable"
  /\ active' \in IF up THEN BOOLEAN ELSE {TRUE}
  /\ dpc' = "9E"
  /\ UNCHANGED <<envVars, eojKnown, maps, info, pubVars, writerVars, cooling, task, rpc,
                 flightVars>>

\* The writable map ...
DiscoverWritable ==
  /\ dpc = "9E"
  /\ StoreMap("9E", GetMap("9E"))
  /\ dpc' = "9D"
  /\ UNCHANGED <<envVars, eojKnown, active, info, pubVars, writerVars, cooling, task, rpc,
                 flightVars>>

\* ... and the notification map, stored empty when notifications are off.
\* Then SetDeviceSpecs, and the scrapers start if any metric is left.
DiscoverNotify ==
  /\ dpc = "9D"
  /\ IF NotificationsEnabled THEN StoreMap("9D", GetMap("9D"))
                             ELSE maps' = [maps EXCEPT !["9D"] = "empty"]
  /\ dpc' = "done"
  /\ UNCHANGED <<envVars, eojKnown, active, info, pubVars, writerVars, cooling, task, rpc,
                 flightVars>>

Discover == DiscoverInfo \/ DiscoverReadable \/ DiscoverWritable \/ DiscoverNotify

-----------------------------------------------------------------------------
(* ReconcileDevice and RefreshDevice                                       *)

\* Looks only at the identity.
NeedsIdentity == ~HasDeviceInfo

NeedsReconciliation == ~HasMap("9E") \/ ~HasMap("9D") \/ ~HasDeviceInfo

\* Check and stamp are one critical section of cooldownMu.
ReconcileDevice ==
  IF NeedsReconciliation /\ ~cooling
  THEN /\ cooling' = TRUE
       /\ \E t \in Tasks : task[t] = "idle" /\ task' = [task EXCEPT ![t] = "spawned"]
  ELSE UNCHANGED <<cooling, task>>

\* The critical section of Cache.Update, at the end of scrapeOnce of any group.
\* A scrape that fails changes nothing seen here.
Scrape(w) ==
  /\ active /\ dpc = "done" /\ up
  /\ writer[w] = "idle"
  /\ writer' = [writer EXCEPT ![w] = "scraped"]
  /\ held' = [held EXCEPT ![w] = Snapshot]
  /\ UNCHANGED <<envVars, discVars, maps, info, pubVars, cooling, task, rpc, flightVars>>

\* The one of MergeMetrics, for a notification or what a command has read back;
\* both need the specs that discovery stores last.
Merge(w) ==
  /\ dpc = "done"
  /\ writer[w] = "idle"
  /\ writer' = [writer EXCEPT ![w] = "merged"]
  /\ held' = [held EXCEPT ![w] = Snapshot]
  /\ UNCHANGED <<envVars, discVars, maps, info, pubVars, cooling, task, rpc, flightVars>>

\* Tells the publisher of the first state only.
ReportOnce(w) ==
  /\ writer[w] \in {"scraped", "merged"}
  /\ IF reported THEN UNCHANGED <<told, announced>> ELSE Tell(held[w])
  /\ reported' = TRUE
  /\ writer' = [writer EXCEPT ![w] = IF @ = "scraped" THEN "told" ELSE "idle"]
  /\ held' = [held EXCEPT ![w] = Nothing]
  /\ UNCHANGED <<envVars, discVars, maps, info, cooling, task, rpc, flightVars>>

\* The callback of either, after the lock.
Report(w) ==
  /\ writer[w] \in {"scraped", "merged"}
  /\ Tell(held[w]) /\ reported' = TRUE
  /\ writer' = [writer EXCEPT ![w] = IF @ = "scraped" THEN "told" ELSE "idle"]
  /\ held' = [held EXCEPT ![w] = Nothing]
  /\ UNCHANGED <<envVars, discVars, maps, info, cooling, task, rpc, flightVars>>

\* Then scrapeOnce calls the reconciler.
AfterScrape(w) ==
  /\ writer[w] = "told"
  /\ writer' = [writer EXCEPT ![w] = "idle"]
  /\ ReconcileDevice
  /\ UNCHANGED <<envVars, discVars, maps, info, pubVars, held, rpc, flightVars>>

\* checkWritable, for a command to a device without a writable map.
Command ==
  /\ eojKnown /\ ~HasMap("9E")
  /\ ReconcileDevice
  /\ UNCHANGED <<envVars, discVars, maps, info, pubVars, writerVars, rpc, flightVars>>

\* The refresher's tick: RefreshDevice stamps the cooldown without looking.
Refresh ==
  /\ active /\ dpc = "done"
  /\ rpc = "idle"
  /\ rpc' = "spawned"
  /\ cooling' = TRUE
  /\ UNCHANGED <<envVars, discVars, maps, info, pubVars, writerVars, task, flightVars>>

\* sf.Do: the first caller leads a flight, the others wait for its end.
LeadOrJoin(first) ==
  IF stage = "none"
  THEN stage' = first /\ asking' = (first = "refresh") /\ UNCHANGED <<updated, news, expired>>
  ELSE UNCHANGED flightVars

DoReconcile(t) ==
  /\ task[t] = "spawned"
  /\ task' = [task EXCEPT ![t] = "waiting"]
  /\ LeadOrJoin("9E")
  /\ UNCHANGED <<envVars, discVars, maps, info, pubVars, writerVars, cooling, rpc>>

DoRefresh ==
  /\ rpc = "spawned"
  /\ rpc' = "waiting"
  /\ LeadOrJoin("refresh")
  /\ UNCHANGED <<envVars, discVars, maps, info, pubVars, writerVars, cooling, task>>

-----------------------------------------------------------------------------
(* The flight                                                              *)

\* Stores whatever the query returns.
RefreshUnchecked ==
  /\ stage = "refresh"
  /\ \E r \in GetDeviceInfo :
       /\ UpdateInfo(r)
       /\ stage' = IF NeedsReconciliation THEN "9E" ELSE "end"
  /\ asking' = FALSE /\ expired' = FALSE
  /\ UNCHANGED <<envVars, discVars, maps, pubVars, writerVars, cooling, task, rpc, updated, news>>

\* The identity query a refresh starts with; doReconcile follows if needed.
RefreshIdentity ==
  /\ stage = "refresh"
  /\ \E r \in GetDeviceInfo :
       /\ IF r = Err THEN info' = info ELSE UpdateInfo(r)
       /\ stage' = IF ~HasMap("9E") \/ ~HasMap("9D") \/ info' \cap {"uid", "mfg"} = {}
                   THEN "9E" ELSE "end"
  /\ asking' = FALSE /\ expired' = FALSE
  /\ UNCHANGED <<envVars, discVars, maps, pubVars, writerVars, cooling, task, rpc, updated, news>>

NextStage(s) == CASE s = "9E" -> "9D" [] s = "9D" -> "info" [] s = "info" -> "end"

\* A stage is skipped when the cache has its answer or the time is up.
Check(s) ==
  /\ stage = s /\ ~asking
  /\ IF (IF s = "info" THEN HasDeviceInfo ELSE HasMap(s)) \/ expired
     THEN stage' = NextStage(s) /\ UNCHANGED asking
     ELSE asking' = TRUE /\ UNCHANGED stage
  /\ UNCHANGED <<envVars, discVars, maps, info, pubVars, writerVars, cooling, task, rpc, updated,
                 news, expired>>

\* The map's answer, or the error of an expired context.
AnswerMap(m) ==
  /\ stage = m /\ asking
  /\ LET r == IF expired THEN "error" ELSE GetMap(m) IN
       /\ StoreMap(m, r)
       /\ updated' = (updated \/ r = "map" \/ IsGetSNA(r))
  /\ stage' = NextStage(m) /\ asking' = FALSE
  /\ UNCHANGED <<envVars, discVars, info, pubVars, writerVars, cooling, task, rpc, news, expired>>

\* The identity's; an answer with neither manufacturer nor UID is dropped.
AnswerInfo ==
  /\ stage = "info" /\ asking
  /\ \E r \in IF expired THEN {Err} ELSE GetDeviceInfo :
       IF r \cap {"uid", "mfg"} # {} THEN UpdateInfo(r) /\ updated' = TRUE
                                     ELSE UNCHANGED <<info, updated>>
  /\ stage' = "end" /\ asking' = FALSE
  /\ UNCHANGED <<envVars, discVars, maps, pubVars, writerVars, cooling, task, rpc, news, expired>>

\* The per-query or the total timeout.
Expire ==
  /\ stage \in MapEPCs \cup {"info"} /\ ~expired
  /\ ~(up /\ calm)
  /\ expired' = TRUE
  /\ UNCHANGED <<envVars, discVars, maps, info, pubVars, writerVars, cooling, task, rpc, stage, asking,
                 updated, news>>

\* The critical section of TriggerUpdate, if anything was healed ...
TriggerUpdate ==
  /\ stage = "end" /\ updated
  /\ news' = Snapshot
  /\ stage' = "tell"
  /\ UNCHANGED <<envVars, discVars, maps, info, pubVars, writerVars, cooling, task, rpc,
                 asking, updated, expired>>

\* ... and its callback.
Announce ==
  /\ stage = "tell"
  /\ Tell(news) /\ news' = Nothing
  /\ stage' = "land"
  /\ UNCHANGED <<envVars, discVars, maps, info, reported, writerVars, cooling, task, rpc,
                 asking, updated, expired>>

\* A flight that ends without TriggerUpdate.
AtEndSilently == stage \in {"land", "end"}

\* Where a flight ends.
AtEnd == stage = "land" \/ (stage = "end" /\ ~updated)

\* A flight whose end the refresher misses.
LandForTasks ==
  /\ AtEnd
  /\ stage' = "none" /\ updated' = FALSE /\ expired' = FALSE
  /\ task' = [t \in Tasks |-> IF task[t] = "waiting" THEN "idle" ELSE task[t]]
  /\ UNCHANGED <<envVars, discVars, maps, info, pubVars, writerVars, cooling, rpc, asking,
                 news>>

\* Everyone in sf.Do returns.
Land ==
  /\ AtEnd
  /\ stage' = "none" /\ updated' = FALSE /\ expired' = FALSE
  /\ task' = [t \in Tasks |-> IF task[t] = "waiting" THEN "idle" ELSE task[t]]
  /\ rpc' = IF rpc = "waiting" THEN "idle" ELSE rpc
  /\ UNCHANGED <<envVars, discVars, maps, info, pubVars, writerVars, cooling, asking, news>>

Flight == \/ RefreshIdentity \/ AnswerInfo \/ TriggerUpdate \/ Announce \/ Land
          \/ \E s \in MapEPCs \cup {"info"} : Check(s)
          \/ \E m \in MapEPCs : AnswerMap(m)

-----------------------------------------------------------------------------
(* Environment                                                             *)

CooldownOver ==
  /\ cooling
  /\ cooling' = FALSE
  /\ UNCHANGED <<envVars, discVars, maps, info, pubVars, writerVars, task, rpc,
                 flightVars>>

Flap ==
  /\ flaps < MaxFlaps
  /\ flaps' = flaps + 1
  /\ up' = ~up
  /\ UNCHANGED <<calm, discVars, maps, info, pubVars, writerVars, cooling, task, rpc, flightVars>>

\* Until then queries and flights may fail though the device is up.
CalmDown ==
  /\ ~calm
  /\ calm' = TRUE
  /\ UNCHANGED <<up, flaps, discVars, maps, info, pubVars, writerVars, cooling, task, rpc, flightVars>>

Next == \/ Discover \/ Flight \/ Expire \/ Refresh \/ DoRefresh
        \/ (\E w \in Scrapers : Scrape(w) \/ AfterScrape(w))
        \/ (\E w \in Mergers : Merge(w)) \/ (\E w \in Writers : Report(w))
        \/ Command \/ \E t \in Tasks : DoReconcile(t)
        \/ CooldownOver \/ Flap \/ CalmDown

Spec == Init /\ [][Next]_vars

\* Goroutines run, the scrape ticker ticks, sixty seconds pass.  Commands,
\* notifications, refreshes and the device's comings and goings are nobody's duty.
FairSpec == /\ Spec
            /\ WF_vars(Discover) /\ WF_vars(Flight) /\ WF_vars(DoRefresh)
            /\ WF_vars(CooldownOver)
            /\ \A w \in Scrapers : WF_vars(Scrape(w) \/ AfterScrape(w))
            /\ \A w \in Writers : WF_vars(Report(w))
            /\ WF_vars(\E t \in Tasks : DoReconcile(t))

-----------------------------------------------------------------------------
(* Properties                                                              *)

MapStates == [MapEPCs -> {"absent", "empty", "map"}]
Seen == [writable : {"absent", "empty", "map"}, known : BOOLEAN]

TypeOK ==
  /\ up \in BOOLEAN /\ flaps \in 0..MaxFlaps /\ calm \in BOOLEAN
  /\ dpc \in {"info", "readable", "9E", "9D", "done"}
  /\ eojKnown \in BOOLEAN /\ active \in BOOLEAN
  /\ maps \in MapStates
  /\ info \subseteq Fields
  /\ told \in Seen /\ news \in Seen /\ held \in [Writers -> Seen]
  /\ reported \in BOOLEAN /\ announced \in BOOLEAN
  /\ writer \in [Writers -> {"idle", "scraped", "merged", "told"}]
  /\ cooling \in BOOLEAN
  /\ task \in [Tasks -> {"idle", "spawned", "waiting"}]
  /\ rpc \in {"idle", "spawned", "waiting"}
  /\ stage \in MapEPCs \cup {"none", "refresh", "info", "end", "tell", "land"}
  /\ asking \in BOOLEAN /\ updated \in BOOLEAN /\ expired \in BOOLEAN

\* A device that was identified stays identified: no refresh, reconciliation or
\* failing query replaces an identity (manufacturer or UID) by an empty one.
\* Rests on GetProps turning a batch without any property into an error.
IdentityNeverLost ==
  [][HasDeviceInfo => info' \cap {"uid", "mfg"} # {}]_vars

\* A capability map read from the device is never replaced by an empty or
\* missing one, though discovery and a flight started by a command may query
\* and store it at the same time.
MapsNeverLost ==
  [][\A m \in MapEPCs : maps[m] = "map" /\ (m = "9D" => NotificationsEnabled)
                          => maps'[m] = "map"]_vars

\* Some state with the writable map is on its way to the publisher: in the hand
\* of a writer or of the flight, or in the flight's next snapshot.
OnItsWay ==
  \/ \E w \in Writers : held[w].writable # "absent"
  \/ stage = "tell" /\ news.writable # "absent"
  \/ stage \in MapEPCs \cup {"info", "end"} /\ updated

\* What the reconciler heals is announced: once a scrape or a merge has been
\* reported, the writable map of the cache is on its way to the publisher or has
\* been there.  It may have been overtaken since by a state taken before it was
\* healed, so nothing is said of what the publisher was handed last.
HealedIsAnnounced == reported /\ HasMap("9E") => announced \/ OnItsWay

\* A waiter of sf.Do always has a flight to wait for, and a flight someone
\* who waits: nobody waits for a flight that landed.
WaitersHaveFlight ==
  stage # "none" <=> rpc = "waiting" \/ \E t \in Tasks : task[t] = "waiting"

\* The shape of a flight, and discovery before everything else: two parts of
\* the inductive invariant.
FlightShape ==
  /\ asking => stage \in MapEPCs \cup {"refresh", "info"}
  /\ stage = "refresh" => asking /\ ~updated
  /\ stage = "none" => ~updated /\ ~expired
  /\ stage \in {"tell", "land"} => updated

DiscoveryFirst ==
  /\ reported \/ (\E w \in Writers : writer[w] # "idle") => dpc = "done"
  /\ \A w \in Writers : writer[w] \in {"idle", "told"} => held[w] = Nothing
  /\ ~eojKnown <=> dpc = "info"
  /\ ~eojKnown => info = {} /\ stage = "none" /\ \A t \in Tasks : task[t] = "idle"
  /\ rpc # "idle" => dpc = "done"

\* The strengthening of HealedIsAnnounced: it holds as soon as a writer has a
\* state without the map in hand.
HealedWillBeAnnounced ==
  (\E w \in Writers : writer[w] \in {"scraped", "merged"} /\ held[w].writable = "absent")
  /\ HasMap("9E") => announced \/ OnItsWay

\* The inductive invariant.
IndInv == /\ TypeOK /\ HealedIsAnnounced /\ HealedWillBeAnnounced /\ WaitersHaveFlight
          /\ FlightShape /\ DiscoveryFirst

\* "Self-healing seamlessly if devices are slow or offline during startup": a
\* device with scrapers that stays up and has what it is asked for ends up
\* with both capability maps and an identity, and the publisher with them,
\* though states may overtake each other on the way.
Heals ==
  <>[](up /\ calm /\ active) =>
    <>[](HasMap("9E") /\ HasMap("9D") /\ HasDeviceInfo /\ told = Snapshot)

\* "Handled Get_SNA (0x52) for unsupported capability maps": a device that
\* refuses a map is asked for it once more and then left in peace.
UnsupportedMapSettles ==
  <>[](up /\ calm /\ active) => <>[]~NeedsReconciliation
=============================================================================
