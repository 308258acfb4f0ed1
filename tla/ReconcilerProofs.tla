--------------------------- MODULE ReconcilerProofs ---------------------------
(***************************************************************************)
(* The reconciler's safety for every device, configuration and number of   *)
(* goroutines: what is healed is announced, and neither an identity nor a  *)
(* capability map, once known, is lost.                                    *)
(***************************************************************************)
EXTENDS Reconciler, TLAPS

USE DEF MapEPCs, Fields, Err, envVars

\* A successful GetProps answers with requested EPCs the device has, and with
\* at least one of them when it was asked for several.
LEMMA GetPropsResult ==
  ASSUME NEW epcs \in SUBSET Fields, NEW has \in SUBSET Fields,
         NEW r \in GetProps(epcs, has), r # Err
  PROVE  r \subseteq epcs /\ (Several(epcs) => r # {})
BY DEF GetProps

\* A successful GetDeviceInfo names the manufacturer or the UID: with both
\* missing the node profile is asked for two or more EPCs, and an empty answer
\* to that is an error.
LEMMA GetDeviceInfoResult ==
  ASSUME NEW r \in GetDeviceInfo, r # Err
  PROVE  r \subseteq Fields /\ r \cap {"uid", "mfg"} # {}
<1> USE FieldsAssumption, ConfigAssumption
<1> DEFINE known == ConfigInfo \cap {"code"}
           second(got) == IF got = Fields THEN {{}} ELSE GetProps(Fields \ got, NodeFields)
<1>1. PICK r1 \in GetProps(Fields \ known, ClassFields) :
        r \in IF r1 = Err THEN {Err}
              ELSE {IF r2 = Err THEN Err ELSE r1 \cup known \cup r2 : r2 \in second(r1 \cup known)}
  BY DEF GetDeviceInfo
<1>2. r1 # Err
  BY <1>1
<1>3. PICK r2 \in second(r1 \cup known) : r = r1 \cup known \cup r2 /\ r2 # Err
  BY <1>1, <1>2
<1>4. /\ r1 \subseteq Fields
      /\ Several(Fields \ known) => r1 # {}
  <2>1. r1 \subseteq Fields \ known /\ (Several(Fields \ known) => r1 # {})
    <3> HIDE DEF Fields, Err, known
    <3>1. Fields \ known \in SUBSET Fields /\ ClassFields \in SUBSET Fields
      BY FieldsAssumption
    <3> QED BY <1>1, <1>2, <3>1, GetPropsResult
  <2> QED BY <2>1
<1>5. CASE r1 \cup known = Fields
  <2>1. r2 = {} BY <1>3, <1>5
  <2> QED BY <1>3, <1>5, <2>1
<1>6. CASE r1 \cup known # Fields
  <2>1. r2 \in GetProps(Fields \ (r1 \cup known), NodeFields)
    BY <1>3, <1>6
  <2>2. /\ r2 \subseteq Fields
        /\ Several(Fields \ (r1 \cup known)) => r2 \cap (Fields \ (r1 \cup known)) # {}
    BY <2>1, <1>3, GetPropsResult
  <2>3. CASE (r1 \cup known) \cap {"uid", "mfg"} # {}
    BY <1>3, <1>4, <2>2, <2>3
  <2>4. CASE (r1 \cup known) \cap {"uid", "mfg"} = {}
    <3>1. {"uid", "mfg"} \subseteq Fields \ (r1 \cup known)
      BY <2>4
    <3>2. Several(Fields \ (r1 \cup known))
      BY <3>1 DEF Several
    <3>3. PICK f \in r2 : f \in Fields \ (r1 \cup known)
      BY <2>2, <3>2
    <3>4. Several(Fields \ known)
      BY DEF Several
    <3>5. "code" \in r1 \cup known
      BY <1>4, <2>4, <3>4
    <3>6. f \in {"uid", "mfg"}
      BY <3>3, <3>5
    <3> QED BY <1>3, <1>4, <2>2, <3>3, <3>6
  <2> QED BY <2>3, <2>4
<1> QED BY <1>5, <1>6

\* The initial states satisfy the invariant.
LEMMA InitInv == Init => IndInv
<1> SUFFICES ASSUME Init PROVE IndInv
  OBVIOUS
<1> USE BoundsAssumption DEF Init
<1>1. maps \in MapStates /\ Nothing \in Seen
  BY DEF MapStates, Seen, Nothing
<1>2. TypeOK
  <2>1. flaps \in 0..MaxFlaps /\ task \in [Tasks -> {"idle", "spawned", "waiting"}]
    OBVIOUS
  <2>2. info \subseteq Fields
    OBVIOUS
  <2>3. /\ eojKnown \in BOOLEAN /\ active \in BOOLEAN /\ cooling \in BOOLEAN
        /\ asking \in BOOLEAN /\ updated \in BOOLEAN /\ expired \in BOOLEAN
        /\ reported \in BOOLEAN /\ announced \in BOOLEAN
    OBVIOUS
  <2>4. /\ told \in Seen /\ news \in Seen /\ held \in [Writers -> Seen]
        /\ writer \in [Writers -> {"idle", "scraped", "merged", "told"}]
    BY <1>1
  <2> QED BY <1>1, <2>1, <2>2, <2>3, <2>4, Zenon DEF TypeOK
<1>3. HealedIsAnnounced /\ HealedWillBeAnnounced /\ WaitersHaveFlight
  BY DEF HealedIsAnnounced, HealedWillBeAnnounced, WaitersHaveFlight
<1>4. FlightShape /\ DiscoveryFirst
  BY DEF FlightShape, DiscoveryFirst
<1> QED BY <1>2, <1>3, <1>4 DEF IndInv

\* While no writer takes a snapshot or hands one over, it is enough that what
\* was announced or on its way still is.
LEMMA StillAnnounced ==
  ASSUME HealedIsAnnounced, HealedWillBeAnnounced,
         UNCHANGED <<reported, writerVars>>,
         HasMap("9E")' => HasMap("9E") \/ OnItsWay',
         HasMap("9E") /\ (announced \/ OnItsWay) => announced' \/ OnItsWay'
  PROVE  HealedIsAnnounced' /\ HealedWillBeAnnounced'
<1> USE DEF writerVars
<1>1. HealedIsAnnounced'
  BY DEF HealedIsAnnounced
<1>2. HealedWillBeAnnounced'
  BY DEF HealedWillBeAnnounced
<1> QED BY <1>1, <1>2

\* Discovery preserves the invariant: it ends before the first scrape.
LEMMA DiscoverInv ==
  ASSUME IndInv, Discover
  PROVE  IndInv'
<1> USE BoundsAssumption, ConfigAssumption DEF IndInv, flightVars, pubVars, writerVars
<1>1. dpc # "done" /\ dpc' \in {"readable", "9E", "9D", "done"}
  BY DEF Discover, DiscoverInfo, DiscoverReadable, DiscoverWritable, DiscoverNotify
<1>2. UNCHANGED <<envVars, pubVars, writerVars, cooling, task, rpc, flightVars>>
  BY DEF Discover, DiscoverInfo, DiscoverReadable, DiscoverWritable, DiscoverNotify
<1>3. HealedIsAnnounced' /\ HealedWillBeAnnounced'
  <2>1. ~reported /\ \A w \in Writers : writer[w] = "idle"
    BY <1>1 DEF DiscoveryFirst
  <2> QED BY <1>2, <2>1 DEF HealedIsAnnounced, HealedWillBeAnnounced
<1>4. WaitersHaveFlight' /\ FlightShape'
  BY <1>2 DEF WaitersHaveFlight, FlightShape
<1>5. eojKnown' = TRUE
  BY DEF Discover, DiscoverInfo, DiscoverReadable, DiscoverWritable, DiscoverNotify,
         DiscoveryFirst, TypeOK
<1>6. DiscoveryFirst'
  BY <1>1, <1>2, <1>5 DEF DiscoveryFirst
<1>7. info' \subseteq Fields
  <2>1. CASE DiscoverInfo
    <3>1. PICK r \in GetDeviceInfo : UpdateInfo(IF r = Err THEN {} ELSE r)
      BY <2>1 DEF DiscoverInfo
    <3> QED BY <3>1, GetDeviceInfoResult DEF UpdateInfo
  <2>2. CASE ~DiscoverInfo
    BY <2>2 DEF Discover, DiscoverReadable, DiscoverWritable, DiscoverNotify, TypeOK
  <2> QED BY <2>1, <2>2
<1>8. maps' \in MapStates
  BY DEF Discover, DiscoverInfo, DiscoverReadable, DiscoverWritable, DiscoverNotify,
         StoreMap, MapStates, TypeOK
<1>9. active' \in BOOLEAN
  BY DEF Discover, DiscoverInfo, DiscoverReadable, DiscoverWritable, DiscoverNotify, TypeOK
<1>10. TypeOK'
  BY <1>1, <1>2, <1>5, <1>7, <1>8, <1>9 DEF TypeOK
<1> QED BY <1>3, <1>4, <1>6, <1>10

\* A snapshot is a state, and has the writable map if the cache does.
LEMMA SnapshotResult ==
  ASSUME TypeOK
  PROVE  Snapshot \in Seen /\ (Snapshot.writable # "absent" <=> HasMap("9E"))
<1>1. maps["9E"] \in {"absent", "empty", "map"}
  BY DEF TypeOK, MapStates
<1>2. HasDeviceInfo \in BOOLEAN
  BY DEF HasDeviceInfo
<1> QED BY <1>1, <1>2 DEF Snapshot, Seen, HasMap

\* Taking a snapshot preserves the invariant: a writer that finds no writable
\* map does so while there is none to be announced.
LEMMA SnapshotInv ==
  ASSUME IndInv,
         \/ \E w \in Scrapers : Scrape(w)
         \/ \E w \in Mergers : Merge(w)
  PROVE  IndInv'
<1> USE DEF IndInv, discVars, flightVars, pubVars
<1>1. PICK w \in Writers :
        /\ writer[w] = "idle" /\ dpc = "done"
        /\ writer' \in {[writer EXCEPT ![w] = "scraped"], [writer EXCEPT ![w] = "merged"]}
        /\ held' = [held EXCEPT ![w] = Snapshot]
        /\ UNCHANGED <<envVars, discVars, maps, info, pubVars, cooling, task, rpc, flightVars>>
  BY DEF Scrape, Merge, Writers
<1>2. /\ held' \in [Writers -> Seen] /\ held'[w] = Snapshot
      /\ \A v \in Writers \ {w} : held'[v] = held[v]
  BY <1>1, SnapshotResult DEF TypeOK
<1>3. /\ writer' \in [Writers -> {"idle", "scraped", "merged", "told"}]
      /\ writer'[w] \in {"scraped", "merged"}
      /\ \A v \in Writers \ {w} : writer'[v] = writer[v]
  BY <1>1 DEF TypeOK
<1>4. TypeOK' BY <1>1, <1>2, <1>3 DEF TypeOK
<1>5. held[w].writable = "absent"
  BY <1>1 DEF DiscoveryFirst, Nothing
<1>6. OnItsWay => OnItsWay'
  BY <1>1, <1>2, <1>5 DEF OnItsWay
<1>7. HealedIsAnnounced'
  BY <1>1, <1>6 DEF HealedIsAnnounced, HasMap
<1>8. HealedWillBeAnnounced'
  <2> SUFFICES ASSUME NEW v \in Writers, writer'[v] \in {"scraped", "merged"},
                      held'[v].writable = "absent", HasMap("9E")'
               PROVE  announced' \/ OnItsWay'
    BY DEF HealedWillBeAnnounced
  <2>1. HasMap("9E")
    BY <1>1 DEF HasMap
  <2>2. v # w
    BY <1>2, <2>1, SnapshotResult
  <2>3. announced \/ OnItsWay
    BY <1>2, <1>3, <2>1, <2>2 DEF HealedWillBeAnnounced
  <2> QED BY <1>1, <1>6, <2>3
<1>9. WaitersHaveFlight' /\ FlightShape'
  BY <1>1 DEF WaitersHaveFlight, FlightShape
<1>10. DiscoveryFirst'
  BY <1>1, <1>2, <1>3 DEF DiscoveryFirst
<1> QED BY <1>4, <1>7, <1>8, <1>9, <1>10

\* Handing it over does: a state without the map leaves what is on its way
\* alone, and one with it is the announcement.
LEMMA ReportInv ==
  ASSUME IndInv, NEW w \in Writers, Report(w)
  PROVE  IndInv'
<1> USE DEF IndInv, discVars, flightVars, Tell
<1>1. /\ writer[w] \in {"scraped", "merged"} /\ reported' = TRUE
      /\ told' = held[w] /\ announced' = (announced \/ held[w].writable # "absent")
      /\ UNCHANGED <<envVars, discVars, maps, info, cooling, task, rpc, flightVars>>
  BY DEF Report
<1>2. /\ held' \in [Writers -> Seen] /\ held'[w] = Nothing
      /\ \A v \in Writers \ {w} : held'[v] = held[v]
  <2>1. Nothing \in Seen
    BY DEF Nothing, Seen
  <2> QED BY <2>1 DEF Report, TypeOK
<1>3. /\ writer' \in [Writers -> {"idle", "scraped", "merged", "told"}]
      /\ writer'[w] \in {"told", "idle"}
      /\ \A v \in Writers \ {w} : writer'[v] = writer[v]
  BY DEF Report, TypeOK
<1>4. announced' \in BOOLEAN /\ told' \in Seen
  BY <1>1 DEF TypeOK
<1>5. TypeOK' BY <1>1, <1>2, <1>3, <1>4 DEF TypeOK
<1>6. announced \/ OnItsWay => announced' \/ OnItsWay'
  BY <1>1, <1>2 DEF OnItsWay
<1>7. HealedIsAnnounced'
  <2> SUFFICES ASSUME HasMap("9E")' PROVE announced' \/ OnItsWay'
    BY DEF HealedIsAnnounced
  <2>1. CASE held[w].writable # "absent"
    BY <1>1, <2>1
  <2>2. CASE held[w].writable = "absent"
    BY <1>1, <1>6, <2>2 DEF HealedWillBeAnnounced, HasMap
  <2> QED BY <2>1, <2>2
<1>8. HealedWillBeAnnounced'
  BY <1>1, <1>2, <1>3, <1>6 DEF HealedWillBeAnnounced, HasMap
<1>9. WaitersHaveFlight' /\ FlightShape'
  BY <1>1 DEF WaitersHaveFlight, FlightShape
<1>10. DiscoveryFirst'
  <2>1. dpc = "done" BY <1>1 DEF DiscoveryFirst
  <2> QED BY <1>1, <1>2, <1>3, <2>1 DEF DiscoveryFirst
<1> QED BY <1>5, <1>7, <1>8, <1>9, <1>10

\* Callers of the reconciler preserve it: only Do turns a spawned goroutine into
\* a waiter.
LEMMA CallersInv ==
  ASSUME IndInv,
         \/ \E w \in Scrapers : AfterScrape(w)
         \/ \E t \in Tasks : DoReconcile(t)
         \/ Command \/ Refresh \/ DoRefresh
  PROVE  IndInv'
<1> USE DEF IndInv, discVars, flightVars, pubVars
<1>1. ASSUME UNCHANGED <<envVars, discVars, maps, info, pubVars, held, rpc, flightVars>>,
             ReconcileDevice, eojKnown,
             writer' = writer \/ \E w \in Writers : /\ writer[w] = "told"
                                                    /\ writer' = [writer EXCEPT ![w] = "idle"]
      PROVE  IndInv'
  <2> USE <1>1
  <2>1. task' \in [Tasks -> {"idle", "spawned", "waiting"}] /\ cooling' \in BOOLEAN
    BY DEF ReconcileDevice, TypeOK
  <2>2. \A t \in Tasks : task'[t] = "waiting" <=> task[t] = "waiting"
    BY DEF ReconcileDevice, TypeOK
  <2>3. /\ writer' \in [Writers -> {"idle", "scraped", "merged", "told"}]
        /\ \A v \in Writers :
             writer'[v] = writer[v] \/ (writer[v] = "told" /\ writer'[v] = "idle")
    BY DEF TypeOK
  <2>4. TypeOK' BY <2>1, <2>3 DEF TypeOK
  <2>5. OnItsWay => OnItsWay'
    BY DEF OnItsWay
  <2>6. HealedIsAnnounced' BY <2>5 DEF HealedIsAnnounced, HasMap
  <2>7. HealedWillBeAnnounced' BY <2>3, <2>5 DEF HealedWillBeAnnounced, HasMap
  <2>8. WaitersHaveFlight' BY <2>2 DEF WaitersHaveFlight
  <2>9. FlightShape' BY DEF FlightShape
  <2>10. DiscoveryFirst' BY <2>3 DEF DiscoveryFirst
  <2> QED BY <2>4, <2>6, <2>7, <2>8, <2>9, <2>10
<1>2. ASSUME NEW w \in Scrapers, AfterScrape(w) PROVE IndInv'
  <2>1. w \in Writers /\ writer[w] = "told" /\ writer' = [writer EXCEPT ![w] = "idle"]
    BY <1>2 DEF AfterScrape, Writers
  <2>2. eojKnown
    BY <2>1 DEF DiscoveryFirst, TypeOK
  <2> QED BY <1>1, <1>2, <2>1, <2>2 DEF AfterScrape
<1>3. CASE Command
  BY <1>1, <1>3 DEF Command, writerVars
<1>4. ASSUME LeadOrJoin("9E") \/ LeadOrJoin("refresh"),
             UNCHANGED <<envVars, discVars, maps, info, pubVars, writerVars, cooling>>
      PROVE  /\ stage' \in MapEPCs \cup {"none", "refresh", "info", "end", "tell", "land"}
             /\ asking' \in BOOLEAN /\ updated' \in BOOLEAN /\ expired' \in BOOLEAN
             /\ news' \in Seen
             /\ HealedIsAnnounced' /\ HealedWillBeAnnounced' /\ FlightShape'
             /\ stage' # "none"
  <2> USE <1>4 DEF LeadOrJoin, writerVars
  <2>1. /\ stage' \in MapEPCs \cup {"none", "refresh", "info", "end", "tell", "land"}
        /\ stage' # "none"
    BY DEF TypeOK
  <2>2. asking' \in BOOLEAN /\ updated' \in BOOLEAN /\ expired' \in BOOLEAN
    BY DEF TypeOK
  <2>3. OnItsWay => OnItsWay'
    BY DEF OnItsWay
  <2>4. HealedIsAnnounced' BY <2>3 DEF HealedIsAnnounced, HasMap
  <2>5. HealedWillBeAnnounced' BY <2>3 DEF HealedWillBeAnnounced, HasMap
  <2>6. FlightShape' BY DEF FlightShape
  <2>7. news' \in Seen BY DEF TypeOK
  <2> QED BY <2>1, <2>2, <2>4, <2>5, <2>6, <2>7
<1>5. ASSUME NEW t \in Tasks, DoReconcile(t) PROVE IndInv'
  <2>1. /\ task[t] = "spawned" /\ task' = [task EXCEPT ![t] = "waiting"]
        /\ LeadOrJoin("9E")
        /\ UNCHANGED <<envVars, discVars, maps, info, pubVars, writerVars, cooling, rpc>>
    BY <1>5 DEF DoReconcile
  <2>2. task' \in [Tasks -> {"idle", "spawned", "waiting"}] /\ task'[t] = "waiting"
    BY <2>1 DEF TypeOK
  <2>3. TypeOK'
    <3>1. /\ stage' \in MapEPCs \cup {"none", "refresh", "info", "end", "tell", "land"}
          /\ asking' \in BOOLEAN /\ updated' \in BOOLEAN /\ expired' \in BOOLEAN
          /\ news' \in Seen
      BY <1>4, <2>1
    <3> QED BY <2>1, <2>2, <3>1 DEF TypeOK, writerVars
  <2>4. WaitersHaveFlight' BY <1>4, <2>1, <2>2 DEF WaitersHaveFlight
  <2>5. eojKnown = TRUE BY <2>1 DEF TypeOK, DiscoveryFirst
  <2>6. DiscoveryFirst' BY <2>1, <2>5 DEF DiscoveryFirst, writerVars
  <2> QED BY <1>4, <2>1, <2>3, <2>4, <2>6
<1>6. CASE Refresh
  <2>1. /\ rpc = "idle" /\ rpc' = "spawned" /\ cooling' = TRUE /\ dpc = "done"
        /\ UNCHANGED <<envVars, discVars, maps, info, pubVars, writerVars, task, flightVars>>
    BY <1>6 DEF Refresh
  <2>2. TypeOK' BY <2>1 DEF TypeOK, writerVars
  <2>3. OnItsWay => OnItsWay'
    BY <2>1 DEF OnItsWay, writerVars
  <2>4. HealedIsAnnounced' /\ HealedWillBeAnnounced'
    BY <2>1, <2>3, StillAnnounced DEF HasMap
  <2>5. WaitersHaveFlight' BY <2>1 DEF WaitersHaveFlight
  <2>6. FlightShape' BY <2>1 DEF FlightShape
  <2>7. DiscoveryFirst' BY <2>1 DEF DiscoveryFirst, writerVars
  <2> QED BY <2>2, <2>4, <2>5, <2>6, <2>7
<1>7. CASE DoRefresh
  <2>1. /\ rpc = "spawned" /\ rpc' = "waiting" /\ LeadOrJoin("refresh")
        /\ UNCHANGED <<envVars, discVars, maps, info, pubVars, writerVars, cooling, task>>
    BY <1>7 DEF DoRefresh
  <2>2. TypeOK'
    <3>1. /\ stage' \in MapEPCs \cup {"none", "refresh", "info", "end", "tell", "land"}
          /\ asking' \in BOOLEAN /\ updated' \in BOOLEAN /\ expired' \in BOOLEAN
          /\ news' \in Seen
      BY <1>4, <2>1
    <3> QED BY <2>1, <3>1 DEF TypeOK, writerVars
  <2>3. WaitersHaveFlight' BY <1>4, <2>1 DEF WaitersHaveFlight
  <2>4. dpc = "done" /\ eojKnown = TRUE BY <2>1 DEF DiscoveryFirst, TypeOK
  <2>5. DiscoveryFirst' BY <2>1, <2>4 DEF DiscoveryFirst, writerVars
  <2> QED BY <1>4, <2>1, <2>2, <2>3, <2>5
<1> QED BY <1>2, <1>3, <1>5, <1>6, <1>7

\* The flight preserves it: whatever it stores sets updated, the snapshot of
\* TriggerUpdate then has it, and the callback announces it.
LEMMA FlightInv ==
  ASSUME IndInv, Flight \/ Expire
  PROVE  IndInv'
<1> USE ConfigAssumption DEF IndInv, discVars
<1>0. stage # "none" => eojKnown
  BY DEF TypeOK, DiscoveryFirst
<1>1. CASE RefreshIdentity
  <2>1. PICK r \in GetDeviceInfo : IF r = Err THEN info' = info ELSE UpdateInfo(r)
    BY <1>1 DEF RefreshIdentity
  <2>2. info' \subseteq Fields
    BY <2>1, GetDeviceInfoResult DEF UpdateInfo, TypeOK
  <2>3. /\ stage = "refresh" /\ stage' \in {"9E", "end"}
        /\ asking' = FALSE /\ expired' = FALSE
        /\ UNCHANGED <<envVars, discVars, maps, pubVars, writerVars, cooling, task, rpc,
                       updated, news>>
    BY <1>1 DEF RefreshIdentity
  <2>4. TypeOK'
    <3>1. stage' \in MapEPCs \cup {"none", "refresh", "info", "end", "tell", "land"}
      BY <2>3
    <3>2. /\ UNCHANGED <<up, flaps, calm, dpc, eojKnown, active, maps, told, reported, announced>>
          /\ UNCHANGED <<writer, held, cooling, task, rpc, updated, news>>
      BY <2>3 DEF pubVars, writerVars
    <3> QED BY <2>2, <2>3, <3>1, <3>2, ZenonT(60) DEF TypeOK
  <2>5. OnItsWay => OnItsWay'
    BY <2>3 DEF OnItsWay, writerVars
  <2>6. HealedIsAnnounced' /\ HealedWillBeAnnounced'
    BY <2>3, <2>5, StillAnnounced DEF HasMap, pubVars
  <2>7. WaitersHaveFlight' BY <2>3 DEF WaitersHaveFlight
  <2>8. FlightShape' BY <2>3 DEF FlightShape
  <2>9. DiscoveryFirst' BY <1>0, <2>3 DEF DiscoveryFirst, pubVars, writerVars
  <2> QED BY <2>4, <2>6, <2>7, <2>8, <2>9
<1>2. ASSUME NEW m \in MapEPCs, AnswerMap(m) PROVE IndInv'
  <2>1. PICK r \in {"error", "missing", "map"} :
          StoreMap(m, r) /\ updated' = (updated \/ r = "map" \/ IsGetSNA(r))
    BY <1>2 DEF AnswerMap, GetMap
  <2>2. /\ stage = m /\ stage' \in {"9D", "info"} /\ asking' = FALSE
        /\ UNCHANGED <<envVars, discVars, info, pubVars, writerVars, cooling, task, rpc,
                       news, expired>>
    BY <1>2 DEF AnswerMap, NextStage
  <2>3. /\ maps' \in MapStates /\ updated' \in BOOLEAN /\ (updated => updated')
        /\ maps'["9E"] = maps["9E"] \/ updated'
    BY <2>1 DEF StoreMap, MapStates, IsGetSNA, TypeOK
  <2>4. TypeOK'
    <3>1. stage' \in MapEPCs \cup {"none", "refresh", "info", "end", "tell", "land"}
      BY <2>2
    <3> QED BY <2>2, <2>3, <3>1, ZenonT(60) DEF TypeOK, pubVars, writerVars
  <2>5. (OnItsWay => OnItsWay') /\ (updated' => OnItsWay')
    BY <2>2, <2>3 DEF OnItsWay, writerVars
  <2>6. HealedIsAnnounced' /\ HealedWillBeAnnounced'
    BY <2>2, <2>3, <2>5, StillAnnounced DEF HasMap, pubVars
  <2>7. WaitersHaveFlight' BY <2>2 DEF WaitersHaveFlight
  <2>8. FlightShape' BY <2>2 DEF FlightShape
  <2>9. DiscoveryFirst' BY <1>0, <2>2 DEF DiscoveryFirst, pubVars, writerVars
  <2> QED BY <2>4, <2>6, <2>7, <2>8, <2>9
<1>3. CASE AnswerInfo
  <2>1. PICK r \in GetDeviceInfo \cup {Err} :
          IF r \cap {"uid", "mfg"} # {} THEN UpdateInfo(r) /\ updated' = TRUE
                                        ELSE UNCHANGED <<info, updated>>
    BY <1>3 DEF AnswerInfo
  <2>2. /\ stage = "info" /\ stage' = "end" /\ asking' = FALSE
        /\ UNCHANGED <<envVars, discVars, maps, pubVars, writerVars, cooling, task, rpc,
                       news, expired>>
    BY <1>3 DEF AnswerInfo
  <2>3. info' \subseteq Fields /\ updated' \in BOOLEAN /\ (updated => updated')
    BY <2>1, GetDeviceInfoResult DEF UpdateInfo, TypeOK
  <2>4. TypeOK' BY <2>2, <2>3, ZenonT(60) DEF TypeOK, pubVars, writerVars
  <2>5. OnItsWay => OnItsWay'
    BY <2>2, <2>3 DEF OnItsWay, writerVars
  <2>6. HealedIsAnnounced' /\ HealedWillBeAnnounced'
    BY <2>2, <2>5, StillAnnounced DEF HasMap, pubVars
  <2>7. WaitersHaveFlight' BY <2>2 DEF WaitersHaveFlight
  <2>8. FlightShape' BY <2>2 DEF FlightShape
  <2>9. DiscoveryFirst' BY <1>0, <2>2 DEF DiscoveryFirst, pubVars, writerVars
  <2> QED BY <2>4, <2>6, <2>7, <2>8, <2>9
<1>4. CASE TriggerUpdate
  <2>1. /\ stage = "end" /\ stage' = "tell" /\ updated /\ news' = Snapshot
        /\ UNCHANGED <<envVars, discVars, maps, info, pubVars, writerVars, cooling, task,
                       rpc, asking, updated, expired>>
    BY <1>4 DEF TriggerUpdate
  <2>2. TypeOK' BY <2>1, SnapshotResult DEF TypeOK, pubVars, writerVars
  <2>3. HasMap("9E") => OnItsWay'
    BY <2>1, SnapshotResult DEF OnItsWay
  <2>4. HealedIsAnnounced' /\ HealedWillBeAnnounced'
    BY <2>1, <2>3, StillAnnounced DEF HasMap, pubVars
  <2>5. WaitersHaveFlight' BY <2>1 DEF WaitersHaveFlight
  <2>6. FlightShape' BY <2>1 DEF FlightShape
  <2>7. DiscoveryFirst' BY <1>0, <2>1 DEF DiscoveryFirst, pubVars, writerVars
  <2> QED BY <2>2, <2>4, <2>5, <2>6, <2>7
<1>5. CASE Announce
  <2>1. /\ stage = "tell" /\ stage' = "land" /\ news' = Nothing
        /\ told' = news /\ announced' = (announced \/ news.writable # "absent")
        /\ UNCHANGED <<envVars, discVars, maps, info, reported, writerVars, cooling, task,
                       rpc, asking, updated, expired>>
    BY <1>5 DEF Announce, Tell
  <2>2. told' \in Seen /\ news' \in Seen /\ announced' \in BOOLEAN
    BY <2>1 DEF TypeOK, Nothing, Seen
  <2>3. TypeOK' BY <2>1, <2>2 DEF TypeOK, writerVars
  <2>4. announced \/ OnItsWay => announced' \/ OnItsWay'
    BY <2>1 DEF OnItsWay, writerVars
  <2>5. HealedIsAnnounced' /\ HealedWillBeAnnounced'
    BY <2>1, <2>4, StillAnnounced DEF HasMap
  <2>6. WaitersHaveFlight' BY <2>1 DEF WaitersHaveFlight
  <2>7. FlightShape' BY <2>1 DEF FlightShape
  <2>8. DiscoveryFirst' BY <1>0, <2>1 DEF DiscoveryFirst, writerVars
  <2> QED BY <2>3, <2>5, <2>6, <2>7, <2>8
<1>6. CASE Land
  <2>1. /\ stage = "land" \/ (stage = "end" /\ ~updated)
        /\ stage' = "none" /\ updated' = FALSE /\ expired' = FALSE
        /\ task' = [t \in Tasks |-> IF task[t] = "waiting" THEN "idle" ELSE task[t]]
        /\ rpc' = IF rpc = "waiting" THEN "idle" ELSE rpc
        /\ UNCHANGED <<envVars, discVars, maps, info, pubVars, writerVars, cooling, asking,
                       news>>
    BY <1>6 DEF Land, AtEnd
  <2>2. task' \in [Tasks -> {"idle", "spawned", "waiting"}]
        /\ rpc' \in {"idle", "spawned", "waiting"}
    BY <2>1 DEF TypeOK
  <2>3. TypeOK' BY <2>1, <2>2, ZenonT(60) DEF TypeOK, pubVars, writerVars
  <2>4. OnItsWay => OnItsWay'
    BY <2>1 DEF OnItsWay, writerVars
  <2>5. HealedIsAnnounced' /\ HealedWillBeAnnounced'
    BY <2>1, <2>4, StillAnnounced DEF HasMap, pubVars
  <2>6. WaitersHaveFlight' BY <2>1 DEF WaitersHaveFlight, TypeOK
  <2>7. FlightShape' BY <2>1 DEF FlightShape, TypeOK
  <2>8. DiscoveryFirst' BY <1>0, <2>1 DEF DiscoveryFirst, pubVars, writerVars
  <2> QED BY <2>3, <2>5, <2>6, <2>7, <2>8
<1>7. ASSUME NEW s \in MapEPCs \cup {"info"}, Check(s) PROVE IndInv'
  <2>1. /\ stage = s /\ ~asking
        /\ stage' \in {"9E", "9D", "info", "end"} /\ (asking' => stage' # "end")
        /\ asking' \in BOOLEAN
        /\ UNCHANGED <<envVars, discVars, maps, info, pubVars, writerVars, cooling, task,
                       rpc, updated, news, expired>>
    BY <1>7 DEF Check, NextStage, TypeOK
  <2>2. TypeOK' BY <2>1 DEF TypeOK, pubVars, writerVars
  <2>3. OnItsWay => OnItsWay'
    BY <2>1 DEF OnItsWay, writerVars
  <2>4. HealedIsAnnounced' /\ HealedWillBeAnnounced'
    BY <2>1, <2>3, StillAnnounced DEF HasMap, pubVars
  <2>5. WaitersHaveFlight' BY <2>1 DEF WaitersHaveFlight
  <2>6. FlightShape' BY <2>1 DEF FlightShape
  <2>7. DiscoveryFirst' BY <1>0, <2>1 DEF DiscoveryFirst, pubVars, writerVars
  <2> QED BY <2>2, <2>4, <2>5, <2>6, <2>7
<1>8. CASE Expire
  <2>1. /\ stage # "none" /\ expired' = TRUE
        /\ UNCHANGED <<envVars, discVars, maps, info, pubVars, writerVars, cooling, task,
                       rpc, stage, asking, updated, news>>
    BY <1>8 DEF Expire
  <2>2. TypeOK' BY <2>1 DEF TypeOK, pubVars, writerVars
  <2>3. OnItsWay => OnItsWay'
    BY <2>1 DEF OnItsWay, writerVars
  <2>4. HealedIsAnnounced' /\ HealedWillBeAnnounced'
    BY <2>1, <2>3, StillAnnounced DEF HasMap, pubVars
  <2>5. WaitersHaveFlight' /\ FlightShape'
    BY <2>1 DEF WaitersHaveFlight, FlightShape
  <2>6. DiscoveryFirst' BY <2>1 DEF DiscoveryFirst, pubVars, writerVars
  <2> QED BY <2>2, <2>4, <2>5, <2>6
<1> QED BY <1>1, <1>2, <1>3, <1>4, <1>5, <1>6, <1>7, <1>8 DEF Flight

\* Every step preserves the invariant.
LEMMA NextInv == IndInv /\ [Next]_vars => IndInv'
<1> SUFFICES ASSUME IndInv, [Next]_vars PROVE IndInv'
  OBVIOUS
<1>1. ASSUME UNCHANGED <<discVars, maps, info, pubVars, writerVars, task, rpc, flightVars>>,
             up' \in BOOLEAN, calm' \in BOOLEAN, flaps' \in 0..MaxFlaps, cooling' \in BOOLEAN
      PROVE  IndInv'
  <2> USE <1>1 DEF IndInv, discVars, flightVars, pubVars, writerVars
  <2>1. TypeOK' BY DEF TypeOK
  <2>2. OnItsWay => OnItsWay' BY DEF OnItsWay
  <2>3. HealedIsAnnounced' /\ HealedWillBeAnnounced'
    BY <2>2, StillAnnounced DEF HasMap
  <2>4. WaitersHaveFlight' /\ FlightShape' /\ DiscoveryFirst'
    BY DEF WaitersHaveFlight, FlightShape, DiscoveryFirst
  <2> QED BY <2>1, <2>3, <2>4
<1>2. CASE CooldownOver \/ Flap \/ CalmDown
  <2> USE BoundsAssumption DEF IndInv, TypeOK
  <2>1. UNCHANGED <<discVars, maps, info, pubVars, writerVars, task, rpc, flightVars>>
    BY <1>2 DEF CooldownOver, Flap, CalmDown
  <2>2. up' \in BOOLEAN /\ calm' \in BOOLEAN /\ cooling' \in BOOLEAN
    BY <1>2 DEF CooldownOver, Flap, CalmDown
  <2>3. flaps' \in 0..MaxFlaps
    BY <1>2 DEF CooldownOver, Flap, CalmDown
  <2> QED BY <1>1, <2>1, <2>2, <2>3
<1>3. CASE UNCHANGED vars
  BY <1>1, <1>3 DEF vars, IndInv, TypeOK
<1> QED
  BY <1>2, <1>3, DiscoverInv, SnapshotInv, ReportInv, CallersInv, FlightInv DEF Next

\* Every reachable state satisfies the invariant.
THEOREM ReconcilerInvariance == Spec => []IndInv
BY InitInv, NextInv, PTL DEF Spec

\* Every variable keeps its type.
THEOREM ReconcilerTypeCorrect == Spec => []TypeOK
<1>1. IndInv => TypeOK BY DEF IndInv
<1> QED BY <1>1, ReconcilerInvariance, PTL

\* A healed writable map is announced, whoever healed it, whatever overtakes the
\* announcement.
THEOREM HealedIsAnnouncedAlways == Spec => []HealedIsAnnounced
<1>1. IndInv => HealedIsAnnounced BY DEF IndInv
<1> QED BY <1>1, ReconcilerInvariance, PTL

\* Nobody is left waiting in sf.Do for a flight that has landed.
THEOREM WaitersHaveFlightAlways == Spec => []WaitersHaveFlight
<1>1. IndInv => WaitersHaveFlight BY DEF IndInv
<1> QED BY <1>1, ReconcilerInvariance, PTL

\* An identified device stays identified, whatever it answers later.
THEOREM IdentityNeverLostAlways == Spec => IdentityNeverLost
<1>1. ASSUME IndInv, [Next]_vars
      PROVE  [HasDeviceInfo => info' \cap {"uid", "mfg"} # {}]_vars
  <2> SUFFICES ASSUME Next, HasDeviceInfo PROVE info' \cap {"uid", "mfg"} # {}
    BY <1>1
  <2> USE <1>1 DEF HasDeviceInfo, UpdateInfo
  <2>1. CASE DiscoverInfo
    BY <2>1 DEF DiscoverInfo, IndInv, DiscoveryFirst
  <2>2. CASE RefreshIdentity
    BY <2>2, GetDeviceInfoResult DEF RefreshIdentity
  <2>3. CASE AnswerInfo
    BY <2>3 DEF AnswerInfo
  <2>4. CASE info' = info
    BY <2>4
  <2>5. DiscoverInfo \/ RefreshIdentity \/ AnswerInfo \/ info' = info
    BY DEF Next, Discover, DiscoverReadable, DiscoverWritable, DiscoverNotify, Flight, TriggerUpdate,
           Announce, Land, Check, AnswerMap, Expire, Refresh, DoRefresh, Scrape, Merge, Report,
           AfterScrape, Command, DoReconcile, CooldownOver, Flap, CalmDown
  <2> QED BY <2>1, <2>2, <2>3, <2>4, <2>5
<1> QED BY <1>1, ReconcilerInvariance, PTL DEF Spec, IdentityNeverLost

\* A capability map read from the device is never replaced by less.
THEOREM MapsNeverLostAlways == Spec => MapsNeverLost
<1> DEFINE Kept == \A m \in MapEPCs : maps[m] = "map" /\ (m = "9D" => NotificationsEnabled)
                                         => maps'[m] = "map"
<1>1. ASSUME IndInv, [Next]_vars PROVE [Kept]_vars
  <2> SUFFICES ASSUME Next PROVE Kept
    BY <1>1
  <2>1. ASSUME NEW m \in MapEPCs, NEW r \in {"error", "missing", "map"}, StoreMap(m, r)
        PROVE  Kept
    BY <1>1, <2>1 DEF StoreMap, IsGetSNA, IndInv, TypeOK, MapStates
  <2>2. \A m \in MapEPCs : GetMap(m) \in {"error", "missing", "map"}
    BY DEF GetMap
  <2>3. CASE DiscoverWritable
    BY <2>1, <2>2, <2>3 DEF DiscoverWritable
  <2>4. CASE DiscoverNotify
    <3>1. CASE NotificationsEnabled
      BY <2>1, <2>2, <2>4, <3>1 DEF DiscoverNotify
    <3>2. CASE ~NotificationsEnabled
      BY <1>1, <2>4, <3>2 DEF DiscoverNotify, IndInv, TypeOK, MapStates
    <3> QED BY <3>1, <3>2
  <2>5. ASSUME NEW m \in MapEPCs, AnswerMap(m) PROVE Kept
    BY <2>1, <2>2, <2>5 DEF AnswerMap
  <2>6. CASE maps' = maps
    BY <2>6
  <2>7. DiscoverWritable \/ DiscoverNotify \/ (\E m \in MapEPCs : AnswerMap(m)) \/ maps' = maps
    BY DEF Next, Discover, DiscoverInfo, DiscoverReadable, Flight, RefreshIdentity, AnswerInfo,
           TriggerUpdate, Announce, Land, Check, Expire, Refresh, DoRefresh, Scrape, Merge,
           Report, AfterScrape, Command, DoReconcile, CooldownOver, Flap, CalmDown
  <2> QED BY <2>3, <2>4, <2>5, <2>6, <2>7
<1> QED BY <1>1, ReconcilerInvariance, PTL DEF Spec, MapsNeverLost
=============================================================================
