---------------------------- MODULE SessionProofs ----------------------------
(***************************************************************************)
(* What /ready answering 200 is worth, for every set of hosts, every       *)
(* number of topics, connections and refusals, and a broker that forgets   *)
(* what it likes.                                                          *)
(***************************************************************************)
EXTENDS Session, TLAPS

\* Symbols whose definitions the leaves of this module expand together.
USE DEF Idle, End

\* Before main starts anything nobody is ready.
LEMMA InitInv == Init => IndInv
<1> SUFFICES ASSUME Init PROVE IndInv
  OBVIOUS
<1> USE BoundsAssumption DEF Init
<1>1. TypeOK
  <2>1. init \in [Hosts -> {"none", "discovering", "scraping", "stopped"}]
    OBVIOUS
  <2>2. run \in [Runs -> Idle..End]
    OBVIOUS
  <2>3. /\ connects \in 0..MaxConnects /\ refusals \in 0..MaxRefusals
        /\ {disc, published, key} \subseteq 0..MaxKeys
    OBVIOUS
  <2> QED BY <2>1, <2>2, <2>3 DEF TypeOK
<1>2. StartupOrder /\ TopicsAhead
  BY DEF StartupOrder, TopicsAhead
<1> QED BY <1>1, <1>2 DEF IndInv

\* The steps of main keep the order of readiness: the poller is not ready when
\* StartScheduler sends the hosts through discovery, and the commander is not
\* when SetupCommander starts it.
LEMMA MainInv ==
  ASSUME IndInv, Main
  PROVE  IndInv'
<1> USE BoundsAssumption DEF IndInv, readyVars, connVars, runVars, brokerVars
<1>1. CASE SetupMQTT
  BY <1>1 DEF SetupMQTT, TypeOK, StartupOrder, TopicsAhead
<1>2. CASE StartScheduler
  BY <1>2 DEF StartScheduler, TypeOK, StartupOrder, TopicsAhead
<1>3. CASE SetupCommander
  BY <1>3 DEF SetupCommander, TypeOK, StartupOrder, TopicsAhead
<1>4. CASE SetupHTTPServer
  BY <1>4 DEF SetupHTTPServer, TypeOK, StartupOrder, TopicsAhead
<1> QED BY <1>1, <1>2, <1>3, <1>4 DEF Main

\* A connection that is made has an OnConnect handler ahead of it.
LEMMA ConnectInv ==
  ASSUME IndInv, Connect
  PROVE  IndInv'
<1> USE BoundsAssumption DEF IndInv, Connect, readyVars, connVars, runVars, brokerVars
<1>1. connects' \in 0..MaxConnects /\ connects' \in Runs
  BY DEF TypeOK, Runs
<1>2. TypeOK' BY <1>1 DEF TypeOK
<1>3. StartupOrder' BY DEF StartupOrder
<1>4. TopicsAhead' BY DEF TopicsAhead
<1> QED BY <1>2, <1>3, <1>4

\* One that is lost takes the subscriptions along.
LEMMA DropInv ==
  ASSUME IndInv, Drop
  PROVE  IndInv'
<1> USE BoundsAssumption DEF IndInv, Drop, readyVars, connVars, runVars, brokerVars
<1>1. disc' \in {disc, 0}
  OBVIOUS
<1>2. TypeOK'
  <2>1. disc' \in 0..MaxKeys BY <1>1 DEF TypeOK
  <2>2. bridge' \in BOOLEAN BY DEF TypeOK
  <2> HIDE DEF Drop
  <2>3. /\ UNCHANGED <<main, readyVars, init, connects, handlers, refusals, runVars, published, key>>
        /\ up' = FALSE /\ subs' = {} /\ refused' = {}
    BY DEF Drop
  <2> QED BY <2>1, <2>2, <2>3 DEF TypeOK
<1>3. StartupOrder' BY DEF StartupOrder
<1>4. TopicsAhead' BY DEF TopicsAhead
<1> QED BY <1>2, <1>3, <1>4

\* The OnConnect handler leaves no topic behind: the run it starts has all of
\* them ahead.
LEMMA OnConnectInv ==
  ASSUME IndInv, NEW k \in Runs, OnConnect(k)
  PROVE  IndInv'
<1> USE BoundsAssumption DEF IndInv, OnConnect, Bridge, readyVars, brokerVars
<1>1. run' \in [Runs -> Idle..End] /\ (callback = "registered" => run'[k] = 1)
  BY DEF TypeOK
<1>2. TypeOK' BY <1>1 DEF TypeOK
<1>3. StartupOrder' BY DEF StartupOrder
<1>4. TopicsAhead' BY <1>1 DEF TopicsAhead
<1> QED BY <1>2, <1>3, <1>4

\* Nor does RegisterOnConnect, whether the client is connected or still
\* connecting.
LEMMA RegisterOnConnectInv ==
  ASSUME IndInv, RegisterOnConnect
  PROVE  IndInv'
<1> USE BoundsAssumption DEF IndInv, RegisterOnConnect, readyVars, connVars, brokerVars
<1>1. 0 \in Runs
  BY DEF Runs
<1>2. run' \in [Runs -> Idle..End] /\ (up => run'[0] = 1)
  BY <1>1 DEF TypeOK
<1>3. TypeOK' BY <1>2 DEF TypeOK
<1>4. StartupOrder' BY DEF StartupOrder
<1>5. TopicsAhead' BY <1>1, <1>2 DEF TopicsAhead
<1> QED BY <1>3, <1>4, <1>5

\* A run of the commander's callback goes past a topic only by subscribing to it
\* or having it refused, unless the connection is lost.
LEMMA SubscribeInv ==
  ASSUME IndInv, NEW r \in Runs, Subscribe(r)
  PROVE  IndInv'
<1> USE BoundsAssumption DEF IndInv, Subscribe, More, readyVars
<1>1. run' \in [Runs -> Idle..End]
  BY DEF TypeOK
<1>2. \/ subs' = subs \cup {run[r]} /\ refused' = refused /\ refusals' = refusals
      \/ ~up /\ subs' = subs /\ refused' = refused /\ refusals' = refusals
      \/ /\ refusals < MaxRefusals /\ refusals' = refusals + 1
         /\ refused' = refused \cup {run[r]} /\ subs' = subs
  BY DEF TrySubscribe
<1>3. /\ run[r] \in 1..Topics /\ subs \subseteq 1..Topics /\ refused \subseteq 1..Topics
      /\ refusals \in 0..MaxRefusals
  BY DEF TypeOK
<1>4. subs' \subseteq 1..Topics /\ refused' \subseteq 1..Topics
  BY ONLY <1>2, <1>3
<1>5. refusals' \in 0..MaxRefusals
  <2>1. MaxRefusals \in Nat OBVIOUS
  <2> QED BY ONLY <1>2, <1>3, <2>1
<1>6. run'[r] = run[r] + 1 /\ \A q \in Runs \ {r} : run'[q] = run[q]
  BY DEF TypeOK
<1>7. /\ UNCHANGED <<main, readyVars, init, up, connects, handlers, callback, once, bridging>>
      /\ UNCHANGED <<bridge, disc, published, key>>
  OBVIOUS
<1>8. TypeOK' BY <1>1, <1>4, <1>5, <1>7 DEF TypeOK
<1>9. StartupOrder' BY DEF StartupOrder
<1>10. TopicsAhead'
  <2> SUFFICES ASSUME up, callback = "registered", handlers = {},
                      NEW t \in 1..Topics, t \notin subs' \cup refused'
               PROVE  \E q \in Runs : run'[q] \in 1..t
    BY <1>7 DEF TopicsAhead
  <2>1. run[r] \in subs' \cup refused' /\ subs \cup refused \subseteq subs' \cup refused'
    BY <1>2
  <2>2. PICK q \in Runs : run[q] \in 1..t
    BY <2>1 DEF TopicsAhead
  <2>3. run'[q] \in 1..t
    BY <1>3, <1>6, <2>1, <2>2
  <2> QED BY <2>3
<1> QED BY <1>8, <1>9, <1>10

\* A run that ends has nothing ahead.
LEMMA SubscribedInv ==
  ASSUME IndInv, NEW r \in Runs, Subscribed(r)
  PROVE  IndInv'
<1> USE BoundsAssumption
    DEF IndInv, Subscribed, MarkReady, connVars, brokerVars
<1>1. ready' \subseteq registered
  BY DEF TypeOK
<1>2. run' \in [Runs -> Idle..End] /\ \A q \in Runs \ {r} : run'[q] = run[q]
  BY DEF TypeOK
<1>3. TypeOK' BY <1>1, <1>2 DEF TypeOK
<1>4. StartupOrder' BY DEF StartupOrder
<1>5. TopicsAhead' BY <1>2 DEF TopicsAhead
<1> QED BY <1>3, <1>4, <1>5

\* Every step of the program and of the broker preserves the invariant.
LEMMA NextInv == IndInv /\ [Next]_vars => IndInv'
<1> SUFFICES ASSUME IndInv, [Next]_vars PROVE IndInv'
  OBVIOUS
<1> USE BoundsAssumption DEF IndInv, readyVars, connVars, runVars, brokerVars
<1>1. CASE HandleShutdown
  BY <1>1 DEF HandleShutdown, TypeOK, StartupOrder, TopicsAhead
<1>2. CASE PollerReady
  BY <1>2 DEF PollerReady, MarkReady, TypeOK, StartupOrder, TopicsAhead
<1>3. ASSUME NEW h \in Hosts, InitHost(h) PROVE IndInv'
  BY <1>3 DEF InitHost, TypeOK, StartupOrder, TopicsAhead
<1>4. CASE Identified
  <2>1. key' \in 0..MaxKeys BY <1>4 DEF Identified, TypeOK
  <2> QED BY <1>4, <2>1 DEF Identified, TypeOK, StartupOrder, TopicsAhead
<1>5. CASE EnsureDiscovery
  BY <1>5 DEF EnsureDiscovery, TypeOK, StartupOrder, TopicsAhead
<1>6. ASSUME NEW k \in Runs, PublishBridgeDevice(k) PROVE IndInv'
  BY <1>6 DEF PublishBridgeDevice, TypeOK, StartupOrder, TopicsAhead
<1>7. CASE UNCHANGED vars
  BY <1>7 DEF vars, TypeOK, StartupOrder, TopicsAhead
<1> QED
  BY <1>1, <1>2, <1>3, <1>4, <1>5, <1>6, <1>7, MainInv, ConnectInv, DropInv, OnConnectInv,
     RegisterOnConnectInv, SubscribeInv, SubscribedInv
     DEF Next, Background, Callback

-----------------------------------------------------------------------------
\* Readiness follows the start-up order and no topic is left behind, in every
\* reachable state.
THEOREM SessionInvariance == Spec => []IndInv
BY InitInv, NextInv, PTL DEF Spec

\* Every variable of main, the session and the broker keeps its type.
THEOREM SessionTypeCorrect == Spec => []TypeOK
<1>1. IndInv => TypeOK BY DEF IndInv
<1> QED BY <1>1, SessionInvariance, PTL

\* /ready answers 200 only after every host has been through discovery and the
\* commander has tried to subscribe; and a connected commander with nothing left
\* to run has every topic subscribed to or refused on this connection.
THEOREM ReadyMeansTriedAlways == Spec => []ReadyMeansTried
<1>1. IndInv => ReadyInOrder
  BY DEF IndInv, TypeOK, StartupOrder, ReadyInOrder, Serving, Status
<1>2. IndInv => NoTopicLeftOut
  <2> SUFFICES ASSUME IndInv, callback = "registered", up, handlers = {},
                      \A r \in Runs : run[r] = Idle
               PROVE  subs \cup refused = 1..Topics
    BY DEF NoTopicLeftOut
  <2>1. \A t \in 1..Topics : t \in subs \cup refused
    BY DEF IndInv, TopicsAhead
  <2> QED BY <2>1 DEF IndInv, TypeOK
<1> QED BY <1>1, <1>2, SessionInvariance, PTL DEF ReadyMeansTried
=============================================================================
