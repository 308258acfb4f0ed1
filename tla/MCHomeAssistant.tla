--------------------------- MODULE MCHomeAssistant ---------------------------
(***************************************************************************)
(* The entities of the specifications in etc/specs that HomeAssistant is   *)
(* checked with: an air conditioner, two lights, and a switch, a select    *)
(* and numbers of every width.                                             *)
(***************************************************************************)
EXTENDS HomeAssistant, TLC

M(epc, size, signed, enum, range) ==
  [epc |-> epc, size |-> size, signed |-> signed, enum |-> enum, range |-> range]

\* home_ac.yaml, with the labels in place of an order of fan modes.
AirConditioner ==
  [mode |-> M(176, 1, FALSE, 64 :> "other" @@ 65 :> "auto" @@ 66 :> "cool" @@ 67 :> "heat", {}),
   modes |-> "off" :> none @@ "auto" :> 65 @@ "cool" :> 66 @@ "heat" :> 67,
   temp |-> M(179, 1, FALSE, <<>>, {}),
   fan |-> M(160, 1, FALSE, 65 :> "auto" @@ 49 :> "level_1" @@ 50 :> "level_2", {}),
   fanModes |-> {}]

\* general_lighting.yaml and lighting_system.yaml
Lamp ==
  [brightness |-> M(176, 1, FALSE, <<>>, {}),
   color |-> M(177, 1, FALSE, 65 :> "incandescent" @@ 66 :> "white" @@ 64 :> "other", {}),
   colors |-> "incandescent" :> 65 @@ "white" :> 66, scene |-> NoMetric, maxScenes |-> 0]
LightingSystem ==
  [brightness |-> M(176, 1, FALSE, <<>>, {}), color |-> NoMetric, colors |-> <<>>,
   scene |-> M(192, 1, FALSE, <<>>, {}), maxScenes |-> 16]

\* Two values of the select have one label.
MCWritables ==
  {M(128, 1, FALSE, 48 :> "on" @@ 49 :> "off", {}),
   M(143, 1, FALSE, 65 :> "saving" @@ 66 :> "normal" @@ 67 :> "normal", {}),
   M(200, 1, FALSE, <<>>, {}), M(201, 2, FALSE, <<>>, {}),
   M(202, 1, TRUE, <<>>, -10..40), M(203, 2, TRUE, <<>>, -300..300)}

\* What the registers may hold before a command: on or off, and low, middle or
\* high bytes in the others.
MCRegisters ==
  {[e \in Bytes |->
      IF e = 128 THEN <<s>> ELSE IF e \in {201, 203} THEN <<b, b>> ELSE <<b>>] :
     s \in {onStatus, offStatus}, b \in {0, 20, 66, 254}}
=============================================================================
