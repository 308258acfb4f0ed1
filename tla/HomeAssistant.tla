---------------------------- MODULE HomeAssistant ----------------------------
(***************************************************************************)
(* The entities of Home Assistant, as operators on the registers of a      *)
(* device: Offer, what the discovery messages let a user choose            *)
(* (internal/mqtt/discovery.go); Set, what the commander writes for the    *)
(* choice (internal/mqtt/commander.go); Show, what the publisher says      *)
(* about the registers (internal/mqtt/publisher.go).                       *)
(*                                                                         *)
(* A metric is a record [epc, size, signed, enum, range]: enum maps raw    *)
(* values to labels, range is number_min..number_max, or {}.  A climate    *)
(* entity is [mode, modes, temp, fan, fanModes], where modes maps labels   *)
(* to raw values and "off" to none; a light is [brightness, color, colors, *)
(* scene, maxScenes].  Show is the set of the payloads that may be         *)
(* published, {} if none is.  Scales are 1.                                *)
(***************************************************************************)
EXTENDS Codec, Loader

NoMetric == [epc |-> 0]
none == -1

onStatus == 48
offStatus == 49
Status == [epc |-> 128, size |-> 1, signed |-> FALSE, enum |-> <<>>, range |-> {}]

Read(m, regs) == ParseInteger(regs[m.epc], m.signed)
Put(m, v, regs) == [regs EXCEPT ![m.epc] = EncodeValueToEDT(v, m.size, m.signed)]

\* MetricValue.EnumLabel
Labels(m) == {m.enum[v] : v \in DOMAIN m.enum}
Label(m, regs) == {m.enum[v] : v \in {Read(m, regs)} \cap DOMAIN m.enum}

\* ReverseEnum: of several values with one label it has any.
Raws(m, label) == {v \in DOMAIN m.enum : m.enum[v] = label}

-----------------------------------------------------------------------------
(* Climate                                                                 *)

OfferMode(cl) == DOMAIN cl.modes

\* An unknown mode turns the device on and does no more.
SetMode(cl, p, regs) ==
  LET on == Put(Status, onStatus, regs)
  IN IF p = "off" THEN Put(Status, offStatus, regs)
     ELSE IF p \in DOMAIN cl.modes /\ cl.modes[p] # none THEN Put(cl.mode, cl.modes[p], on)
     ELSE on

\* Forgets that the device keeps its mode when it is off.
ShowRegister(cl, regs) == {l \in DOMAIN cl.modes : cl.modes[l] = Read(cl.mode, regs)}

\* publishClimateState
ShowMode(cl, regs) ==
  IF Read(Status, regs) = offStatus THEN {"off"}
  ELSE {l \in DOMAIN cl.modes : cl.modes[l] = Read(cl.mode, regs)}

\* fanModesFromSpec: the labels of the specification, or of the register, or
\* four that the commander does not know.
OfferFan(cl) == IF cl.fanModes # {} THEN cl.fanModes
                ELSE IF Labels(cl.fan) # {} THEN Labels(cl.fan)
                ELSE {"auto", "low", "medium", "high"}
SetFan(cl, p, regs) == {Put(cl.fan, v, regs) : v \in Raws(cl.fan, p)}
ShowFan(cl, regs) == Label(cl.fan, regs)

Floor(t) == t \div 10
Ceil(t) == -((-t) \div 10)

\* To the nearest degree, whatever the temperature was.
RoundSetpoint(t, prev, hasPrev) == Floor(t + 5)

\* normalizeClimateSetpoint, of tenths of a degree: a half goes on in the direction
\* from the previous set point, if there is one, and else away from zero.
NormalizeClimateSetpoint(t, prev, hasPrev) ==
  IF t % 10 = 5 /\ hasPrev THEN IF t >= 10 * prev THEN Ceil(t) ELSE Floor(t)
  ELSE IF t >= 0 THEN Floor(t + 5) ELSE Ceil(t - 5)

SetTemperature(cl, t, hasPrev, regs) ==
  Put(cl.temp, NormalizeClimateSetpoint(t, Read(cl.temp, regs), hasPrev), regs)

ShowTemperature(cl, regs) == {Read(cl.temp, regs)}

-----------------------------------------------------------------------------
(* Lights                                                                  *)

SetPower(p, regs) == Put(Status, IF p = "ON" THEN onStatus ELSE offStatus, regs)
ShowPower(regs) == {IF Read(Status, regs) = onStatus THEN "ON" ELSE "OFF"}

OfferBrightness == 0..100
SetBrightness(lt, p, regs) == Put(lt.brightness, p, regs)
ShowBrightness(lt, regs) == {Read(lt.brightness, regs)}

\* The labels of the colours, or else the numbers of the scenes.
OfferEffect(lt) ==
  IF lt.color # NoMetric THEN DOMAIN lt.colors
  ELSE IF lt.scene # NoMetric THEN 1..lt.maxScenes ELSE {}

SetEffect(lt, p, regs) ==
  IF lt.color # NoMetric THEN {Put(lt.color, lt.colors[l], regs) : l \in {p} \cap DOMAIN lt.colors}
  ELSE {Put(lt.scene, n, regs) : n \in {p} \cap (1..lt.maxScenes)}

ShowEffect(lt, regs) ==
  IF lt.color # NoMetric THEN Label(lt.color, regs) \cap DOMAIN lt.colors
  ELSE IF lt.scene # NoMetric THEN {Read(lt.scene, regs)} \ {0} ELSE {}

-----------------------------------------------------------------------------
(* Switches, selects and numbers                                           *)

WritableEntityType(m) ==
  CASE Labels(m) = {"on", "off"} /\ Cardinality(DOMAIN m.enum) = 2 -> "switch"
    [] DOMAIN m.enum = {} -> "number"
    [] Cardinality(DOMAIN m.enum) = 1 -> ""
    [] OTHER -> "select"

\* The range of a number does not look at the sign.
OfferWritable(m) ==
  CASE WritableEntityType(m) = "switch" -> {"ON", "OFF"}
    [] WritableEntityType(m) = "select" -> Labels(m)
    [] WritableEntityType(m) = "number" ->
         IF m.range # {} THEN m.range ELSE 0..(IF m.size = 2 THEN 65535 ELSE 255)
    [] OTHER -> {}

\* executeWritableSet
SetWritable(m, p, regs) ==
  CASE WritableEntityType(m) = "switch" ->
         {Put(m, v, regs) : v \in Raws(m, IF p = "ON" THEN "on" ELSE "off")}
    [] WritableEntityType(m) = "select" -> {Put(m, v, regs) : v \in Raws(m, p)}
    [] WritableEntityType(m) = "number" -> {Put(m, p, regs)}
    [] OTHER -> {}

\* publishWritableState: nothing for a label that is not offered or a number
\* outside its range.
ShowWritable(m, regs) ==
  CASE WritableEntityType(m) = "switch" ->
         IF Label(m, regs) # {} THEN {IF l = "on" THEN "ON" ELSE "OFF" : l \in Label(m, regs)}
         ELSE {IF Read(m, regs) # 0 THEN "ON" ELSE "OFF"}
    [] WritableEntityType(m) = "select" -> Label(m, regs)
    [] WritableEntityType(m) = "number" ->
         {v \in {Read(m, regs)} : m.range = {} \/ v \in m.range}
    [] OTHER -> {}

-----------------------------------------------------------------------------
(* What the parts of a specification must agree on, and parseClimateYAML,  *)
(* parseLightYAML and parseMetricSpec do not check                         *)

\* The property m can hold v.
Holds(m, v) ==
  /\ m.epc \in Bytes /\ m.size \in {1, 2, 4} /\ m.signed \in BOOLEAN
  /\ v \in Int /\ EnumValueFits(v, m.size, m.signed)

\* No two modes have one value, and the fan knows the modes it offers.
ConsistentClimate(cl) ==
  /\ cl.mode.epc # Status.epc
  /\ \A l \in DOMAIN cl.modes \ {"off"} : cl.modes[l] # none /\ Holds(cl.mode, cl.modes[l])
  /\ \A k, l \in DOMAIN cl.modes : cl.modes[k] = cl.modes[l] => k = l
  /\ cl.fanModes \subseteq Labels(cl.fan) /\ Labels(cl.fan) # {}
  /\ \A v \in DOMAIN cl.fan.enum : Holds(cl.fan, v)
  /\ \A p \in 16..30 : Holds(cl.temp, p)

\* The colours are called as in the enum of their metric.
ConsistentLight(lt) ==
  /\ \A p \in OfferBrightness : Holds(lt.brightness, p)
  /\ lt.color # NoMetric => \A l \in DOMAIN lt.colors :
       /\ Holds(lt.color, lt.colors[l])
       /\ lt.colors[l] \in DOMAIN lt.color.enum /\ lt.color.enum[lt.colors[l]] = l
  /\ lt.scene # NoMetric =>
       lt.maxScenes \in Nat /\ \A n \in 1..lt.maxScenes : Holds(lt.scene, n)

\* A number that is signed has a range, and its range is one it can hold.
ConsistentWritable(m) ==
  /\ Loads(m) /\ m.epc \in Bytes /\ m.size # 0 /\ m.signed \in BOOLEAN
  /\ DOMAIN m.enum \subseteq Int
  /\ DOMAIN m.enum = {} => IF m.range = {} THEN ~m.signed ELSE \A v \in m.range : Holds(m, v)

-----------------------------------------------------------------------------
(* What is offered is accepted and shown as it was set                     *)

ClimateShownAsSet(cl, regs) ==
  /\ \A p \in OfferMode(cl) : ShowMode(cl, SetMode(cl, p, regs)) = {p}
  /\ \A p \in OfferFan(cl) : /\ SetFan(cl, p, regs) # {}
                             /\ \A r \in SetFan(cl, p, regs) : ShowFan(cl, r) = {p}
  /\ \A p \in 16..30 : ShowTemperature(cl, SetTemperature(cl, 10 * p, TRUE, regs)) = {p}

LightShownAsSet(lt, regs) ==
  /\ \A p \in {"ON", "OFF"} : ShowPower(SetPower(p, regs)) = {p}
  /\ \A p \in OfferBrightness : ShowBrightness(lt, SetBrightness(lt, p, regs)) = {p}
  /\ \A p \in OfferEffect(lt) : /\ SetEffect(lt, p, regs) # {}
                                /\ \A r \in SetEffect(lt, p, regs) : ShowEffect(lt, r) = {p}

\* Of numbers, those in the set numbers.
WritableShownAsSet(m, numbers, regs) ==
  \A p \in IF WritableEntityType(m) = "number" THEN OfferWritable(m) \cap numbers
           ELSE OfferWritable(m) :
    /\ SetWritable(m, p, regs) # {}
    /\ \A r \in SetWritable(m, p, regs) : ShowWritable(m, r) = {p}

\* Half a degree up or down from a known set point moves it by one degree that
\* way; any other request, t tenths of a degree, ends within half a degree of it.
StepMoves(t, prev) ==
  LET deg == NormalizeClimateSetpoint(t, prev, TRUE)
  IN /\ t = 10 * prev + 5 => deg = prev + 1
     /\ t = 10 * prev - 5 => deg = prev - 1
     /\ \A hasPrev \in BOOLEAN :
          10 * NormalizeClimateSetpoint(t, prev, hasPrev) - t \in -5..5
=============================================================================
