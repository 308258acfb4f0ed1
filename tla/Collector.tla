------------------------------ MODULE Collector ------------------------------
(***************************************************************************)
(* The Prometheus collector (internal/metrics/collector.go): the series it *)
(* makes of the cached value of a metric with an enum.  A state label is a *)
(* pair: a text, and the values that follow it, each as "_0x%x".           *)
(***************************************************************************)
EXTENDS Codec

CONSTANT SanitizeEnumLabel(_)   \* lower case, and _ for all that is no letter or digit

Keys(enum) == Ascending(DOMAIN enum)

Sanitized(enum, v) == SanitizeEnumLabel(enum[v])

\* Takes the labels as they come.
SanitizedLabels(enum) == [i \in DOMAIN Keys(enum) |-> Sanitized(enum, Keys(enum)[i])]

\* With v as a suffix.
Suffixed(label, v) == <<label[1], Append(label[2], v)>>

\* The label of v, if those in usedLabels are taken.
StateLabel(enum, v, usedLabels) ==
  IF Sanitized(enum, v) \in usedLabels THEN Suffixed(Sanitized(enum, v), v) ELSE Sanitized(enum, v)

\* buildEnumMeta: by ascending value; a label that was used before gets the
\* value as a suffix.
StateLabels(enum) ==
  LET keys == Keys(enum)
      used[i \in 0..Len(keys)] ==
        IF i = 0 THEN {} ELSE used[i - 1] \cup {StateLabel(enum, keys[i], used[i - 1])}
  IN [i \in 1..Len(keys) |-> StateLabel(enum, keys[i], used[i - 1])]

\* collectDeviceMetrics: one series for every value of the enum, 1 for the
\* one the device has.
EnumSeries(enum, raw) ==
  LET labels == StateLabels(enum)
  IN [i \in DOMAIN labels |->
        [state |-> labels[i], value |-> IF raw = Keys(enum)[i] THEN 1 ELSE 0]]

-----------------------------------------------------------------------------
(* What is expected of the series                                          *)

\* A label reads like another one with the value of that as a suffix.
Ambiguous(enum) ==
  \E u, v \in DOMAIN enum : Sanitized(enum, u) = Suffixed(Sanitized(enum, v), v)

\* The series that are 1 when the device has the value r.
Active(enum, r) == {s \in ToSet(EnumSeries(enum, r)) : s.value = 1}

\* The series of r, if it is a value of the enum, is the only one that is 1.
OneHot(enum, r) ==
  /\ r \notin DOMAIN enum => Active(enum, r) = {}
  /\ r \in DOMAIN enum =>
       \E l \in {Sanitized(enum, r), Suffixed(Sanitized(enum, r), r)} :
         Active(enum, r) = {[state |-> l, value |-> 1]}
=============================================================================
