----------------------------- MODULE MCEntities -----------------------------
(***************************************************************************)
(* Instances of Entities for TLC: a distribution board (class 0x0287) with *)
(* a cumulative energy counter that needs a multiplier, and the inputs of  *)
(* the checks of Codec.                                                    *)
(***************************************************************************)
EXTENDS Entities, MCHomeAssistant

MCConfigured == <<2, 135, 1>>

Metric(epc, size, invalid, multiplier, interval, control) ==
  [epc |-> epc, size |-> size, invalid |-> invalid, multiplier |-> multiplier,
   interval |-> interval, control |-> control]

\* A circuit, a status of its own, energy and its unit, as the YAML has them.
ClassMetrics == << Metric(208, 4, 126, 0, 0, FALSE),
                   Metric(128, 0, -1, 0, 60, TRUE),
                   Metric(192, 4, -1, 194, 0, FALSE),
                   Metric(194, 1, -1, 0, 0, FALSE) >>

\* With the location and the fault status of the super class, a scrape group of
\* their own.
MCSpecs == << Metric(208, 4, 126, 0, 60, FALSE),
              Metric(128, 0, -1, 0, 60, TRUE),
              Metric(192, 4, -1, 194, 60, FALSE),
              Metric(194, 1, -1, 0, 60, FALSE),
              Metric(129, 1, 255, 0, 600, TRUE),
              Metric(136, 1, -1, 0, 600, TRUE) >>

ASSUME SpecsAreLoaded == Specs = LoadSpec(ClassMetrics, DefaultInterval)

Values == [e \in {128, 129, 192, 194, 208} |->
             CASE e = 128 -> <<48>> [] e = 129 -> <<8>> [] e = 192 -> <<0, 0, 1, 2>>
               [] e = 194 -> <<2>> [] e = 208 -> <<0, 0, 0, 126, 0, 1, 0, 0>>]

Node(eojs, list, identity, readable, maps, data, settable, limit, refuses, valid) ==
  [eojs |-> eojs, list |-> list, identity |-> identity, settable |-> settable, limit |-> limit,
   refuses |-> refuses, valid |-> valid,
   data |-> [e \in DOMAIN data \cup maps |->
               CASE e = 158 -> EncodePropertyMap(settable)
                 [] e = 159 -> EncodePropertyMap(readable)
                 [] OTHER -> data[e]]]

\* Lists its two objects, but announces three; answers one property at a time;
\* its maps are bitmaps, and the circuit's value is invalid.  It has no product code.
Board == Node({<<2, 135, 2>>, <<5, 255, 1>>}, <<3, 5, 255, 1, 2, 135, 2>>,
              {"uid", "mfg"}, 128..143 \cup DOMAIN Values, {158, 159}, Values, 128..143, 1, TRUE, {128, 129, 192, 194})

\* Has no instance list, and neither a circuit nor a location that can be set;
\* its answers lose the multiplier, and it refuses the UID.
Meter == Node({<<2, 135, 3>>}, <<>>, {"mfg", "code"}, {128, 129, 192, 194}, {158, 159},
              [e \in {128, 129, 192, 194} |-> Values[e]], {128}, 2, TRUE, {128, 129, 192, 194})

\* Answers for its own objects only, its status is empty and it has neither a writable
\* map nor a manufacturer.
Quiet == Node({<<2, 135, 1>>}, <<1, 2, 135, 1>>, {"uid"}, {128, 129}, {159},
              [e \in {128, 129} |-> IF e = 128 THEN <<>> ELSE <<8>>], {}, 100, FALSE, {129})

\* Can read nothing of the specification: it is skipped, if its map is read.
Stranger == Node({<<2, 135, 1>>}, <<1, 2, 135, 1>>, Fields, {130}, {159}, [e \in {130} |-> <<0>>],
                 {}, 100, TRUE, {})

MCNodes == {Board, Meter, Quiet, Stranger}

-----------------------------------------------------------------------------
(* Codec                                                                   *)

MCPropertyMaps == {{}, {128}, 128..142, 128..143, 128..144, {255} \cup 128..142, 128..255}
                  \cup {{16 * h + l : h \in 8..15} : l \in 0..15}
                  \cup {{16 * h + l : h \in {8, 15}, l \in 0..k} : k \in 0..15}

\* At the ends of what one and two bytes hold and of the ranges of numbers.
MCRawValues == -130..-126 \cup -1..1 \cup 126..129 \cup 254..258 \cup -32770..-32766
               \cup 32766..32769 \cup 65534..65538 \cup {-300, -10, 40, 50, 300}

-----------------------------------------------------------------------------
(* Collector and HomeAssistant                                             *)

\* Two labels become one, one becomes empty, and one ends in a value.
MCSanitizeEnumLabel(s) ==
  CASE s \in {"Level 1", "level_1"} -> <<"level_1", <<>>>>
    [] s = "--" -> <<"value", <<>>>>
    [] s = "level 1 0x32" -> <<"level_1", <<50>>>>
    [] OTHER -> <<s, <<>>>>

MCEnums == [{-1, 40, 50, 65} -> {"Level 1", "level_1", "--", "level 1 0x32"}]

MCClimates == {AirConditioner}
MCLights == {Lamp, LightingSystem}
MCSetPoints == -4..34
=============================================================================
