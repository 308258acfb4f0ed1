------------------------------- MODULE Loader -------------------------------
(***************************************************************************)
(* The specification of a device class as internal/specs/loader.go makes   *)
(* it from a YAML file: which metrics it refuses, the scrape intervals it  *)
(* fills in and the super class metrics it adds.                           *)
(*                                                                         *)
(* An interval is in seconds, 0 where the YAML has none.                   *)
(***************************************************************************)
EXTENDS Integers, SequencesExt

\* One too many at the upper end.
EnumValueBelow(v, size, signed) ==
  IF signed THEN v >= -(256^size \div 2) /\ v <= 256^size \div 2
  ELSE v >= 0 /\ v <= 256^size

EnumValueFits(v, size, signed) ==
  IF signed THEN v >= -(256^size \div 2) /\ v <= 256^size \div 2 - 1
  ELSE v >= 0 /\ v <= 256^size - 1

\* parseMetricSpec refuses none of it: a metric as HomeAssistant has them.
Loads(m) ==
  /\ m.size \in {0, 1, 2, 4}
  /\ m.epc \in 0..255
  /\ m.range # {} => \E a, b \in m.range : a < b
  /\ \A v \in DOMAIN m.enum : /\ m.enum[v] # ""
                              /\ m.size # 0 => EnumValueFits(v, m.size, m.signed)

\* A metric without an interval has that of its class.
WithInterval(m, default) == [m EXCEPT !.interval = IF @ = 0 THEN default ELSE @]

\* Operation status, installation location and fault status, each of them a
\* switch or a select if the device can set it.
SuperClassMetrics ==
  << [epc |-> 128, size |-> 1, invalid |-> -1, multiplier |-> 0, interval |-> 0, control |-> TRUE],
     [epc |-> 129, size |-> 1, invalid |-> 255, multiplier |-> 0, interval |-> 600, control |-> TRUE],
     [epc |-> 136, size |-> 1, invalid |-> -1, multiplier |-> 0, interval |-> 600, control |-> TRUE] >>

\* mergeSuperClass: what the class defines itself is left as it is.
MergeSuperClass(metrics) ==
  metrics \o SelectSeq(SuperClassMetrics,
                       LAMBDA s : \A m \in ToSet(metrics) : m.epc # s.epc)

\* parseDeviceYAML and mergeSuperClass, as far as the intervals go.
LoadSpec(metrics, default) ==
  LET all == MergeSuperClass(metrics)
  IN [i \in DOMAIN all |-> WithInterval(all[i], default)]
=============================================================================
