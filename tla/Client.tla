------------------------------- MODULE Client -------------------------------
(***************************************************************************)
(* Client.GetProps (internal/echonet/client.go) and what the scheduler and *)
(* the metrics make of its answers, as operators on a node.                *)
(*                                                                         *)
(* A node is a record: eojs, the objects it has; list, its instance list   *)
(* as bytes; data, the bytes it answers per EPC at the objects of the      *)
(* device's class; settable, the EPCs of its writable property map; limit, *)
(* how many of the properties asked for it answers at once; refuses,       *)
(* whether it answers for objects it does not have; valid, the EPCs whose  *)
(* bytes are a valid value.  Every object of the class has its status.     *)
(***************************************************************************)
EXTENDS Codec

Err == {-1}    \* GetProps returned an error

maxAdaptiveSplitDepth == 8
maxIntegerBytes == 8

-----------------------------------------------------------------------------
(* One request                                                             *)

Edt(node, e) == IF e \in DOMAIN node.data THEN node.data[e] ELSE <<>>

\* The node's answer to a Get of the EPCs q: the first of them, what it does not
\* have as an empty property that makes the answer a Get_SNA.
Answer(node, q) == {q[i] : i \in {j \in DOMAIN q : j <= node.limit}}

\* The EPCs the answer is good for: in a Get_SNA those with data.
Received(node, q) ==
  IF ToSet(q) \subseteq DOMAIN node.data THEN Answer(node, q)
  ELSE {e \in Answer(node, q) : Edt(node, e) # <<>>}

-----------------------------------------------------------------------------
(* getPropsAdaptive                                                        *)

\* Gives up on a batch that was answered in part.
GetPropsOnce(node, q, dropped) ==
  IF q = <<>> \/ <<1, Len(q)>> = dropped THEN Err ELSE Received(node, q)

\* Nothing at all from several requests is an error.
OrErr(s) == UNION {IF r = {} THEN Err ELSE r : r \in {s}}

\* missingEPCs: those asked for that no property was received for.
Missing(asked, got) == asked \ got

\* splitEPCs: where the second half of the interval lo..hi begins.
SplitAt(lo, hi) == lo + (hi - lo + 1) \div 2

\* The requests are the intervals of q.
Requests(q) == {r \in (1..Len(q)) \X (1..Len(q)) : r[1] <= r[2]}

EPCsOf(q, lo, hi) == {q[i] : i \in lo..hi}

\* Asks for the interval r; what is missing is asked for again in halves, which
\* return left and right, unless there may be no more levels.  A half that fails is
\* skipped, and the request called dropped is not answered.
GetInterval(node, q, dropped, levels, r, left, right) ==
  LET lo == r[1]  hi == r[2]  mid == SplitAt(lo, hi)
      more(l, h, got, half) ==
        IF Missing(EPCsOf(q, l, h), got) = {} THEN {} ELSE half \ Err
  IN IF r = dropped THEN Err
     ELSE UNION {IF Missing(EPCsOf(q, lo, hi), got) = {} \/ lo = hi \/ levels = 0 THEN got
                 ELSE OrErr(got \cup more(lo, mid - 1, got, left) \cup more(mid, hi, got, right))
                 : got \in {Received(node, SubSeq(q, lo, hi))}}

GetProps(node, q, dropped) ==
  LET get[levels \in 0..maxAdaptiveSplitDepth] ==
        [r \in (1..Len(q)) \X (1..Len(q)) |->
           GetInterval(node, q, dropped, levels, r,
                       get[levels - 1][<<r[1], SplitAt(r[1], r[2]) - 1>>],
                       get[levels - 1][<<SplitAt(r[1], r[2]), r[2]>>])]
  IN get[maxAdaptiveSplitDepth][<<1, Len(q)>>]

NoRequest == <<0, 0>>

\* What is asked for and the node has is in the answer, and nothing else, but for
\* some of the EPCs in unread.
GetsAllBut(unread, node, q, dropped) ==
  LET has == ToSet(q) \cap DOMAIN node.data
      got == GetProps(node, q, dropped) \ Err
  IN got \subseteq has /\ has \ got \subseteq unread

-----------------------------------------------------------------------------
(* ParsePropsToMetrics                                                     *)

\* The bytes of a value: all there are if the specification names no size.
Width(edt, size) == IF size = 0 THEN Len(edt) ELSE size

\* Checks the length only.
LongEnough(edt, size, invalid) == Len(edt) >= Width(edt, size)

\* parseEDTWithReason: there are bytes, as many as it takes and no more than an
\* integer has, and they are not the metric's invalid value.
Parses(edt, size, invalid) ==
  /\ Width(edt, size) \in 1..maxIntegerBytes
  /\ Len(edt) >= Width(edt, size)
  /\ ParseInteger(SubSeq(edt, 1, Width(edt, size)), FALSE) # invalid

\* The node has the objects that it lists.
ListsItsOwn(node) ==
  \A i \in 1..Len(node.list) : 3 * i + 1 <= Len(node.list) => Listed(node.list, i) \in node.eojs

-----------------------------------------------------------------------------
(* resolveEOJInstance                                                      *)

\* Takes any object of the node.
SelectFirst(eojs, configured) == eojs[1]

SameClass(a, b) == a[1] = b[1] /\ a[2] = b[2]

\* selectEOJFromInstances: the first of the configured class.
SelectEOJ(eojs, configured) ==
  eojs[CHOOSE i \in DOMAIN eojs :
         /\ SameClass(eojs[i], configured)
         /\ \A j \in 1..(i - 1) : ~SameClass(eojs[j], configured)]

\* The instance of the first probe that is answered, in the order of the
\* sweep; a probe that times out ends it.
SweepInstances(node, configured, silent) ==
  LET at(i) == <<configured[1], configured[2], i>>
      order == <<configured[3]>> \o
               [i \in 1..14 |-> IF i < configured[3] THEN i ELSE i + 1]
      stop(i) == \/ order[i] \in silent \/ at(order[i]) \in node.eojs \/ ~node.refuses
      first == {i \in 1..15 : stop(i) /\ \A j \in 1..(i - 1) : ~stop(j)}
  IN IF first = {} THEN configured
     ELSE LET i == order[CHOOSE k \in first : TRUE]
          IN IF i \notin silent /\ at(i) \in node.eojs THEN at(i) ELSE configured

\* The node profile's list decides if it names the class; otherwise probes do.
\* silent are the queries (0 is the node profile's) that time out.
ResolveEOJ(node, configured, silent) ==
  LET eojs == IF 0 \in silent THEN <<>> ELSE DecodeInstanceList(node.list)
  IN IF \E i \in DOMAIN eojs : SameClass(eojs[i], configured)
     THEN SelectEOJ(eojs, configured)
     ELSE SweepInstances(node, configured, silent)
=============================================================================
