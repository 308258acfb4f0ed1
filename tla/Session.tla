------------------------------- MODULE Session -------------------------------
(***************************************************************************)
(* Starting up, the MQTT session and readiness: main and its setup         *)
(* functions (cmd/echonetgo/main.go), Scheduler.Start, the OnConnect       *)
(* handler and RegisterOnConnect (internal/mqtt/publisher.go), the         *)
(* subscriptions of Commander.Run, ensureDiscovery                         *)
(* (internal/mqtt/discovery.go) and the readiness behind /ready            *)
(* (internal/api).                                                         *)
(*                                                                         *)
(* The MQTT client is external.  It reconnects by itself with a clean      *)
(* session, so the broker forgets the subscriptions of a lost connection;  *)
(* a broker that restarts may forget its retained messages, too.           *)
(***************************************************************************)
EXTENDS Integers

CONSTANTS
  Hosts,        \* IP addresses with devices
  Topics,       \* number of topics the commander subscribes to
  Forgetful,    \* may the broker lose retained messages?
  Lossy,        \* may the client lose what is published without a connection?
  MaxConnects,  \* bound on the connections made
  MaxRefusals,  \* bound on the subscriptions that fail while connected
  MaxKeys       \* bound on the identities (manufacturer, model, size of the
                \* writable map) that the device goes through

ASSUME BoundsAssumption == /\ Topics \in Nat \ {0} /\ MaxConnects \in Nat
                           /\ MaxRefusals \in Nat /\ MaxKeys \in Nat
                           /\ Forgetful \in BOOLEAN /\ Lossy \in BOOLEAN

Runs == 0..MaxConnects   \* of the commander's callback: of RegisterOnConnect, and one
                         \* for each connection
Idle == 0
End == Topics + 1        \* the steps of a run between which it subscribes

VARIABLES
  main,        \* the next step of main
  registered, ready,   \* Readiness
  init,        \* per host: its goroutine of Scheduler.Start
  up,          \* the MQTT connection
  connects,    \* connections made
  handlers,    \* connections whose OnConnect handler has yet to run
  callback,    \* Commander.Run: "none", "started", "registered"
  run,         \* its callback's runs: the topic to subscribe to next
  once,        \* readyOnce is done
  bridging,    \* goroutines in publishBridgeDevice, by connection
  subs,        \* at the broker: subscriptions of the current connection
  refused,     \* history: topics whose subscription failed on it
  bridge,      \* at the broker: the bridge device
  disc,        \* at the broker: the device's discovery messages, by identity
  published,   \* Publisher.published of the device
  key,         \* its identity in the cache; 0 is none yet
  refusals

readyVars  == <<registered, ready>>
connVars   == <<up, connects, handlers, refusals>>
brokerVars == <<subs, refused, bridge, disc>>
runVars    == <<callback, run, once, bridging>>
vars == <<main, readyVars, init, connVars, runVars, brokerVars, published, key>>

Init ==
  /\ main = "mqtt"
  /\ registered = {"poller"} /\ ready = {}
  /\ init = [h \in Hosts |-> "none"]
  /\ up = FALSE /\ connects = 0 /\ handlers = {} /\ refusals = 0
  /\ callback = "none" /\ run = [r \in Runs |-> Idle] /\ once = FALSE
  /\ bridging = {}
  /\ subs = {} /\ refused = {} /\ bridge = FALSE /\ disc = 0
  /\ published = 0 /\ key = 0

-----------------------------------------------------------------------------
(* Readiness                                                               *)

MarkReady(c) == ready' = ready \cup ({c} \cap registered)

\* What /ready answers, once the HTTP server runs.
Status == registered \subseteq ready
Serving == main \in {"run", "stopping"}

-----------------------------------------------------------------------------
(* main                                                                    *)

\* Leaves the registration to Commander.Run.
SetupMQTTOnly ==
  /\ main = "mqtt" /\ main' = "poller"
  /\ UNCHANGED <<readyVars, init, connVars, runVars, brokerVars, published, key>>

\* NewPublisher starts connecting and waits a while, but not for success.
SetupMQTT ==
  /\ main = "mqtt" /\ main' = "poller"
  /\ registered' = registered \cup {"commander"}
  /\ UNCHANGED <<ready, init, connVars, runVars, brokerVars, published, key>>

StartScheduler ==
  /\ main = "poller" /\ main' = "commander"
  /\ init' = [h \in Hosts |-> "discovering"]
  /\ UNCHANGED <<readyVars, connVars, runVars, brokerVars, published, key>>

SetupCommander ==
  /\ main = "commander" /\ main' = "http"
  /\ callback' = "started"
  /\ UNCHANGED <<readyVars, init, connVars, run, once, bridging, brokerVars, published, key>>

SetupHTTPServer ==
  /\ main = "http" /\ main' = "run"
  /\ UNCHANGED <<readyVars, init, connVars, runVars, brokerVars, published, key>>

\* A signal or a server error: the context is cancelled, Commander.Run
\* unsubscribes and the client disconnects.
HandleShutdown ==
  /\ main = "run" /\ main' = "stopping"
  /\ up' = FALSE /\ handlers' = {} /\ subs' = {} /\ refused' = {}
  /\ UNCHANGED <<readyVars, init, connects, refusals, runVars, bridge, disc, published, key>>

Main == SetupMQTT \/ StartScheduler \/ SetupCommander \/ SetupHTTPServer

-----------------------------------------------------------------------------
(* Scheduler.Start                                                         *)

\* A panic that keeps wg.Done from being called.
InitHangs(h) ==
  /\ init[h] = "discovering"
  /\ \E s \in {"scraping", "hung"} : init' = [init EXCEPT ![h] = s]
  /\ UNCHANGED <<main, readyVars, connVars, runVars, brokerVars, published, key>>

\* The devices of a host are discovered and scraped, unless the context is
\* cancelled or a panic is recovered; the wait group is told in any case.
InitHost(h) ==
  /\ init[h] = "discovering"
  /\ \E s \in {"scraping", "stopped"} : init' = [init EXCEPT ![h] = s]
  /\ UNCHANGED <<main, readyVars, connVars, runVars, brokerVars, published, key>>

PollerReady ==
  /\ main \notin {"mqtt", "poller"} /\ "poller" \notin ready
  /\ \A h \in Hosts : init[h] \in {"scraping", "stopped"}
  /\ MarkReady("poller")
  /\ UNCHANGED <<main, registered, init, connVars, runVars, brokerVars, published, key>>

\* The identity becomes known, or changes (a map or an identity is healed).
Identified ==
  /\ \E h \in Hosts : init[h] # "none"
  /\ key < MaxKeys /\ key' = key + 1
  /\ UNCHANGED <<main, readyVars, init, connVars, runVars, brokerVars, published>>

-----------------------------------------------------------------------------
(* The connection                                                          *)

\* IsConnected turns true before the client calls OnConnect.
Connect ==
  /\ main \notin {"mqtt", "stopping"} /\ ~up
  /\ connects < MaxConnects
  /\ connects' = connects + 1
  /\ up' = TRUE
  /\ handlers' = handlers \cup {connects'}
  /\ UNCHANGED <<main, readyVars, init, refusals, runVars, brokerVars, published, key>>

\* The connection is lost; its subscriptions are, and if the broker has
\* restarted, perhaps its retained messages.  Paho connects again.
Drop ==
  /\ up /\ connects < MaxConnects
  /\ up' = FALSE /\ subs' = {} /\ refused' = {}
  /\ \/ UNCHANGED <<bridge, disc>>
     \/ Forgetful /\ bridge' = FALSE /\ disc' = 0
  /\ UNCHANGED <<main, readyVars, init, connects, handlers, refusals, runVars, published, key>>

\* Announces the bridge on the first connection only.
BridgeOnce(k) == IF k = 1 THEN {k} ELSE {}

Bridge(k) == {k}

\* A callback that is done with once it has subscribed.
OnConnectOnce(k) ==
  /\ k \in handlers
  /\ handlers' = handlers \ {k}
  /\ bridging' = bridging \cup Bridge(k)
  /\ run' = IF callback = "registered" /\ ~once THEN [run EXCEPT ![k] = 1] ELSE run
  /\ UNCHANGED <<main, readyVars, init, up, connects, refusals, callback, once, brokerVars,
                 published, key>>

\* Starts a goroutine for the bridge device and one for every callback.
OnConnect(k) ==
  /\ k \in handlers
  /\ handlers' = handlers \ {k}
  /\ bridging' = bridging \cup Bridge(k)
  /\ run' = IF callback = "registered" THEN [run EXCEPT ![k] = 1] ELSE run
  /\ UNCHANGED <<main, readyVars, init, up, connects, refusals, callback, once, brokerVars,
                 published, key>>

\* A callback that waits for the next connection.
RegisterOnly ==
  /\ callback = "started" /\ callback' = "registered"
  /\ UNCHANGED <<main, readyVars, init, connVars, run, once, bridging, brokerVars,
                 published, key>>

\* In one critical section of muConnect.  IsConnected may also be true of a
\* client that is still connecting.
RegisterOnConnect ==
  /\ callback = "started" /\ callback' = "registered"
  /\ \/ run' = [run EXCEPT ![0] = 1]
     \/ ~up /\ run' = run
  /\ UNCHANGED <<main, readyVars, init, connVars, once, bridging, brokerVars, published, key>>

-----------------------------------------------------------------------------
(* Callbacks                                                               *)

\* Off by one.
MoreOrEqual(r) == run[r] \in 1..End

More(r) == run[r] \in 1..Topics

\* What one Subscribe does at the broker.
TrySubscribe(t) ==
  \/ up /\ subs' = subs \cup {t} /\ UNCHANGED <<refused, refusals>>
  \/ ~up /\ UNCHANGED <<subs, refused, refusals>>
  \/ /\ up /\ refusals < MaxRefusals
     /\ refusals' = refusals + 1 /\ refused' = refused \cup {t} /\ UNCHANGED subs

\* A failure ends the callback.
SubscribeOrStop(r) ==
  /\ More(r)
  /\ TrySubscribe(run[r])
  /\ run' = [run EXCEPT ![r] = IF refusals' # refusals THEN End ELSE @ + 1]
  /\ UNCHANGED <<main, readyVars, init, up, connects, handlers, callback, once, bridging,
                 bridge, disc, published, key>>

\* A failure or timeout is logged and the next topic tried.
Subscribe(r) ==
  /\ More(r)
  /\ TrySubscribe(run[r])
  /\ run' = [run EXCEPT ![r] = @ + 1]
  /\ UNCHANGED <<main, readyVars, init, up, connects, handlers, callback, once, bridging,
                 bridge, disc, published, key>>

\* readyOnce.Do(readyFunc), whatever has become of the subscriptions.
Subscribed(r) ==
  /\ run[r] = End
  /\ run' = [run EXCEPT ![r] = Idle]
  /\ once' = TRUE
  /\ IF once THEN UNCHANGED ready ELSE MarkReady("commander")
  /\ UNCHANGED <<main, registered, init, connVars, callback, bridging, brokerVars,
                 published, key>>

\* A message published while there is no connection may be kept by the client
\* and sent later, or be lost.
PublishBridgeDevice(k) ==
  /\ k \in bridging
  /\ bridging' = bridging \ {k}
  /\ bridge' \in {TRUE} \cup IF Lossy /\ ~up THEN {bridge} ELSE {}
  /\ UNCHANGED <<main, readyVars, init, connVars, callback, run, once, subs, refused,
                 disc, published, key>>

\* The device's discovery is published when its identity is known and differs
\* from the one published last.
EnsureDiscovery ==
  /\ key # 0 /\ published # key
  /\ published' = key
  /\ disc' \in {key} \cup IF Lossy /\ ~up THEN {disc} ELSE {}
  /\ UNCHANGED <<main, readyVars, init, connVars, runVars, subs, refused, bridge, key>>

Callback(r) == Subscribe(r) \/ Subscribed(r)

-----------------------------------------------------------------------------
Background ==
  \/ Main \/ PollerReady \/ Connect \/ RegisterOnConnect \/ EnsureDiscovery
  \/ \E h \in Hosts : InitHost(h)
  \/ \E k \in Runs : OnConnect(k) \/ PublishBridgeDevice(k)

Next == Background \/ (\E r \in Runs : Callback(r)) \/ Identified \/ Drop \/ HandleShutdown

Spec == Init /\ [][Next]_vars

\* Goroutines run, queries and publishes time out, the client keeps trying to
\* connect.
FairSpec ==
  /\ Spec
  /\ WF_vars(Main) /\ WF_vars(PollerReady) /\ WF_vars(RegisterOnConnect)
  /\ WF_vars(Connect) /\ WF_vars(EnsureDiscovery)
  /\ \A h \in Hosts : WF_vars(InitHost(h))
  /\ \A k \in Runs : WF_vars(OnConnect(k)) /\ WF_vars(PublishBridgeDevice(k))
  /\ \A r \in Runs : WF_vars(Callback(r))

-----------------------------------------------------------------------------
(* Properties                                                              *)

TypeOK ==
  /\ main \in {"mqtt", "poller", "commander", "http", "run", "stopping"}
  /\ ready \subseteq registered /\ registered \subseteq {"poller", "commander"}
  /\ init \in [Hosts -> {"none", "discovering", "scraping", "stopped"}]
  /\ up \in BOOLEAN /\ connects \in 0..MaxConnects /\ handlers \subseteq Runs
  /\ callback \in {"none", "started", "registered"}
  /\ run \in [Runs -> Idle..End]
  /\ once \in BOOLEAN /\ bridging \subseteq Runs
  /\ subs \subseteq 1..Topics /\ refused \subseteq 1..Topics /\ bridge \in BOOLEAN
  /\ {disc, published, key} \subseteq 0..MaxKeys
  /\ refusals \in 0..MaxRefusals

\* /ready never answers 200 before every host has been through discovery and
\* the commander has tried to subscribe, though the server, the scheduler and
\* the commander start concurrently.
ReadyInOrder ==
  Serving /\ Status => /\ once /\ callback = "registered"
                       /\ \A h \in Hosts : init[h] \in {"scraping", "stopped"}

\* ... and it does answer 200 in the end, whatever the devices do.
BecomesReady == <>[](main = "run") /\ []<>up => <>[]Status

\* A connection that stays ends up with every subscription that did not fail on
\* it, though the callback was registered while the client was connecting and
\* runs of it overlap a lost connection.
Resubscribed ==
  <>[](up /\ main = "run") => <>[](subs \cup refused = 1..Topics)

\* While connected, a commander with nothing left to run has tried every topic on
\* this very connection: one that is not subscribed to has failed on it.
NoTopicLeftOut ==
  /\ callback = "registered" /\ up
  /\ handlers = {} /\ \A r \in Runs : run[r] = Idle
  => subs \cup refused = 1..Topics

\* What /ready answering 200 is worth: discovery is over, and the commander has
\* tried all its topics, then and on every later connection.  It does not mean
\* that they are subscribed to, although Commander.Run says of readyFunc "it is
\* called once all subscriptions have succeeded": Subscribed comes after failed
\* and timed-out subscriptions as well.
ReadyMeansTried == ReadyInOrder /\ NoTopicLeftOut

\* Why: nobody is marked ready before its work is done, and main has registered
\* both before it serves.
StartupOrder ==
  /\ "poller" \in registered
  /\ main # "mqtt" => "commander" \in registered
  /\ main \in {"mqtt", "poller", "commander"} => callback = "none"
  /\ "poller" \in ready =>
       /\ main \notin {"mqtt", "poller"}
       /\ \A h \in Hosts : init[h] \in {"scraping", "stopped"}
  /\ "commander" \in ready => once
  /\ once => callback = "registered"
  /\ (\E r \in Runs : run[r] # Idle) => callback = "registered"

\* While connected, a topic that was neither subscribed to nor refused is ahead of
\* some run of the callback, or an OnConnect handler is yet to start one.
TopicsAhead ==
  up /\ callback = "registered" =>
    \A t \in 1..Topics : t \in subs \cup refused \/ handlers # {} \/ \E r \in Runs : run[r] \in 1..t

\* The inductive invariant behind ReadyMeansTried.
IndInv == TypeOK /\ StartupOrder /\ TopicsAhead

\* "(Re)publish the bridge device on every connect so HA discovery survives
\* broker restarts".
BridgeSurvives == <>[](up /\ main = "run") => <>[]bridge

\* What a lost connection takes away comes back with the next: the subscriptions
\* and the bridge device.
Reconnects == Resubscribed /\ BridgeSurvives

\* "The OnConnect handler reconciles discovery and subscriptions once
\* connected": the same of the devices' discovery messages.
DiscoverySurvives == <>[](up /\ main = "run") => <>[](disc = key)
=============================================================================
