-------------------------------- MODULE Codec --------------------------------
(***************************************************************************)
(* The byte formats of ECHONET Lite the bridge reads: the properties of a  *)
(* frame (parseFrame, internal/echonet/protocol.go), property maps         *)
(* (decodePropertyMap) and the instance list of a node profile             *)
(* (decodeInstanceList, internal/poller/scheduler.go).  Bytes are 0..255;  *)
(* the Encode operators are what a device sends, by the standard.          *)
(***************************************************************************)
EXTENDS Integers, FiniteSetsExt, SequencesExt

Bytes == 0..255
EOJs  == Bytes \X Bytes \X Bytes

Bit(b, k) == (b \div 2^k) % 2

\* The numbers in S, ascending.
Ascending(S) ==
  [i \in 1..Cardinality(S) |-> CHOOSE v \in S : Cardinality({w \in S : w <= v}) = i]

-----------------------------------------------------------------------------
(* Property maps                                                           *)

\* Off by one: seventeen bytes are still read as a list.
DecodeAsList(edt) ==
  IF Len(edt) <= 17 THEN {edt[i] : i \in 2..Len(edt)} ELSE {}

\* Fewer than sixteen properties are listed; from sixteen on, byte i holds the
\* EPCs whose low digit is i - 1, one bit for each high digit from 8 to F.
DecodePropertyMap(edt) ==
  IF Len(edt) < 17 THEN {edt[i] : i \in 2..Len(edt)}
  ELSE UNION {{(k + 8) * 16 + (i - 2) : k \in {b \in 0..7 : Bit(edt[i], b) = 1}}
              : i \in 2..17}

\* The bytes edt are a property map of epcs, by the standard: a list, or from
\* sixteen properties on a bitmap.
IsPropertyMap(edt, epcs) ==
  /\ edt \in Seq(Bytes)
  /\ \/ Len(edt) \in 1..16 /\ epcs = {edt[i] : i \in 2..Len(edt)}
     \/ /\ Len(edt) = 17 /\ epcs \subseteq 128..255
        /\ \A e \in 128..255 : e \in epcs <=> Bit(edt[2 + (e % 16)], (e \div 16) - 8) = 1

\* What a device answers for the set of properties epcs.
EncodePropertyMap(epcs) ==
  <<Cardinality(epcs)>> \o
  IF Cardinality(epcs) < 16 THEN Ascending(epcs)
  ELSE [i \in 1..16 |-> CHOOSE b \in Bytes :
                          \A k \in 0..7 : Bit(b, k) = 1 <=> (k + 8) * 16 + (i - 1) \in epcs]

-----------------------------------------------------------------------------
(* Instance lists                                                          *)

\* The object at place i, of three bytes.
Listed(edt, i) == <<edt[3 * i - 1], edt[3 * i], edt[3 * i + 1]>>

\* The count, but no more objects than there are bytes for.
DecodeInstanceList(edt) ==
  IF edt = <<>> THEN <<>>
  ELSE LET fit == (Len(edt) - 1) \div 3
       IN [i \in 1..(IF edt[1] > fit THEN fit ELSE edt[1]) |-> Listed(edt, i)]

-----------------------------------------------------------------------------
(* Frames                                                                  *)

\* Keeps what there is of a property that was cut off.
ParseCutProps(data, opc) ==
  LET from[m \in 0..opc] ==
        [pos \in 1..(Len(data) + 1) |->
           IF m = 0 \/ pos + 1 > Len(data) THEN <<>>
           ELSE LET next == pos + 2 + data[pos + 1]
                    end  == IF next > Len(data) + 1 THEN Len(data) + 1 ELSE next
                IN <<[epc |-> data[pos], edt |-> SubSeq(data, pos + 2, end - 1)]>>
                   \o from[m - 1][end]]
  IN from[opc][1]

\* The property at pos; the one behind it is at pos + 2 + data[pos + 1].
PropAt(data, pos) == [epc |-> data[pos], edt |-> SubSeq(data, pos + 2, pos + 1 + data[pos + 1])]

\* The properties from position 12 on, opc of them; the first that does not
\* fit ends the list without an error.  Of m properties from pos on:
ParseProps(data, opc) ==
  LET from[m \in 0..opc] ==
        [pos \in 1..(Len(data) + 1) |->
           IF m = 0 \/ pos + 1 > Len(data) \/ pos + 1 + data[pos + 1] > Len(data) THEN <<>>
           ELSE <<PropAt(data, pos)>> \o from[m - 1][pos + 2 + data[pos + 1]]]
  IN from[opc][1]

\* The same bytes, as a device writes them.
EncodeProps(props) ==
  FlattenSeq([i \in DOMAIN props |->
                <<props[i].epc, Len(props[i].edt)>> \o props[i].edt])

\* Of the properties props, cut after n bytes, what arrives is read.
CutFrameIsSafe(props, n) ==
  LET bytes == EncodeProps(props)
      whole == {k \in 0..Len(props) : Len(EncodeProps(SubSeq(props, 1, k))) <= n}
  IN \E k \in whole : /\ \A j \in whole : j <= k
                      /\ ParseProps(SubSeq(bytes, 1, n), Len(props)) = SubSeq(props, 1, k)

-----------------------------------------------------------------------------
(* Integers                                                                *)

\* Big-endian, and negative in two's complement if signed.
ParseInteger(raw, signed) ==
  LET n == Len(raw)
      u[i \in 0..n] == IF i = 0 THEN 0 ELSE u[i - 1] * 256 + raw[i]
  IN IF signed /\ raw[1] >= 128 THEN u[n] - 256^n ELSE u[n]

\* Clamps signed values to the unsigned range.
ClampUnsigned(v, size, signed) ==
  IF v > 256^size - 1 THEN 256^size - 1
  ELSE IF v < -(256^size \div 2) THEN -(256^size \div 2) ELSE v

\* To what size bytes can hold.
Clamp(v, size, signed) ==
  LET low  == IF signed THEN -(256^size \div 2) ELSE 0
      high == (IF signed THEN 256^size \div 2 ELSE 256^size) - 1
  IN IF v > high THEN high ELSE IF v < low THEN low ELSE v

\* The bytes a raw value is set with, for the sizes 1, 2 and 4.
EncodeValueToEDT(v, size, signed) ==
  LET u == Clamp(v, size, signed) % 256^size
  IN [i \in 1..size |-> (u \div 256^(size - i)) % 256]
=============================================================================
